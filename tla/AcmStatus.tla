------------------------------- MODULE AcmStatus -------------------------------
(***************************************************************************)
(* What can be read of the ACM beside its configuration: the status and    *)
(* error files of the driver (sysfs_status.c, sysfs_error.c), the common   *)
(* registers they come from (commreg.c), the table of the diagnostics      *)
(* (bypass.c) and the items libacmconfig reads from them (status.c).       *)
(*                                                                         *)
(* As in AcmWords a word is the set of its ones and a field a pair of its  *)
(* lowest and its highest position.  Offsets are those of the status area; *)
(* two files of a name, _M0 and _M1, read the same register of their own   *)
(* bypass module.                                                          *)
(***************************************************************************)
EXTENDS AcmWords, TLC

ACM_IF_1_0 == 0
ACM_IF_2_0 == 1
ACM_IF_3_0 == 2
ACM_IF_4_0 == 3
ACM_IF_DONT_CARE == 4
IfVersions == ACM_IF_1_0 .. ACM_IF_4_0

AnyVersion == <<ACM_IF_DONT_CARE, ACM_IF_DONT_CARE>>
Since(version) == <<version, ACM_IF_DONT_CARE>>
Until(version) == <<ACM_IF_DONT_CARE, version>>

StatusFile(offset, field, versions) ==
  [ offset |-> offset, field |-> field, versions |-> versions, debug_only |-> FALSE ]
DebugFile(offset, field, version) ==
  [ offset |-> offset, field |-> field, versions |-> Since(version), debug_only |-> TRUE ]

-----------------------------------------------------------------------------
(* The status files, in the order of the source *)

DebugFiles ==
  [ rx_bytes |-> DebugFile(256, <<0, 15>>, ACM_IF_2_0),
    rx_frames |-> DebugFile(260, <<0, 15>>, ACM_IF_2_0),
    fcs_errors |-> DebugFile(264, <<0, 7>>, ACM_IF_2_0),
    size_errors |-> DebugFile(268, <<0, 7>>, ACM_IF_2_0),
    lookup_match_vec |-> DebugFile(512, <<0, 16>>, ACM_IF_2_0),
    layer7_match_vec |-> DebugFile(516, <<0, 15>>, ACM_IF_2_0),
    last_stream_trigger |-> DebugFile(768, <<0, 31>>, ACM_IF_2_0),
    ingress_win_stat |-> DebugFile(1092, <<0, 15>>, ACM_IF_2_0),
    sched_trig_cnt_prev_cyc |-> DebugFile(1120, <<0, 15>>, ACM_IF_2_0),
    sched_1st_cond_trig_cnt_prev_cyc |-> DebugFile(1124, <<0, 15>>, ACM_IF_2_0),
    pending_req_max_num |-> DebugFile(1152, <<0, 2>>, ACM_IF_2_0),
    scatter_DMA_frames_cnt_curr |-> DebugFile(1280, <<16, 31>>, ACM_IF_2_0),
    scatter_DMA_bytes_cnt_prev |-> DebugFile(1284, <<0, 23>>, ACM_IF_2_0),
    scatter_DMA_bytes_cnt_curr |-> DebugFile(1284, <<24, 31>>, ACM_IF_2_0),
    tx_bytes_prev |-> DebugFile(2048, <<0, 23>>, ACM_IF_2_0),
    tx_bytes_curr |-> DebugFile(2048, <<24, 31>>, ACM_IF_2_0),
    tx_frames_cyc_1st_change |-> DebugFile(2112, <<0, 63>>, ACM_IF_2_0),
    tx_frames_cyc_last_change |-> DebugFile(2120, <<0, 63>>, ACM_IF_2_0),
    rx_frames_curr |-> DebugFile(1024, <<16, 31>>, ACM_IF_3_0) ]

FRAME_RUNT_FRAMES == <<24, 31>>
FRAME_MII_ERRORS == <<0, 7>>
FRAME_SOF_ERRORS == <<16, 23>>

\* The files that share the register FRAME_ERRORS, which is cleared when it is read.
FrameErrorFiles ==
  [ runt_frames |-> StatusFile(272, FRAME_RUNT_FRAMES, AnyVersion),
    mii_errors |-> StatusFile(272, FRAME_MII_ERRORS, AnyVersion),
    sof_errors |-> StatusFile(272, FRAME_SOF_ERRORS, Since(ACM_IF_3_0)) ]

CycleFiles ==
  [ layer7_missmatch_cnt |-> StatusFile(776, <<0, 7>>, AnyVersion),
    rx_frames_prev |-> StatusFile(1024, <<0, 15>>, Since(ACM_IF_3_0)),
    rx_frames_cycle_change |-> StatusFile(1028, <<0, 15>>, Since(ACM_IF_3_0)),
    drop_frames_cnt_prev |-> StatusFile(1096, <<0, 7>>, AnyVersion),
    scatter_DMA_frames_cnt_prev |-> StatusFile(1280, <<0, 15>>, AnyVersion),
    tx_frames_prev |-> StatusFile(2052, <<0, 15>>, AnyVersion),
    gmii_errors_set_prev |-> StatusFile(2056, <<0, 7>>, Until(ACM_IF_2_0)),
    gmii_error_prev_cycle |-> StatusFile(2056, <<0, 7>>, Since(ACM_IF_3_0)),
    disable_overrun_prev |-> StatusFile(2064, <<0, 7>>, AnyVersion),
    tx_frame_cycle_change |-> StatusFile(2084, <<0, 15>>, AnyVersion),
    ifc_version |-> StatusFile(0, <<0, 31>>, Until(ACM_IF_1_0)),
    config_version |-> StatusFile(4, <<0, 31>>, Until(ACM_IF_1_0)) ]

\* Files of the whole ACM: the versions that have them.
CommonFiles ==
  [ f \in { "device_id", "version_id", "revision_id", "extended_status", "testmodule_enable",
            "time_freq", "msgbuf_memsize" } |-> Since(ACM_IF_2_0) ]
  @@ [ f \in { "cfg_read_back", "individual_recovery", "rx_redundancy", "msgbuf_count",
               "msgbuf_datawidth", "redund_frames_produced" } |-> Since(ACM_IF_4_0) ]

StatusFiles == DebugFiles @@ FrameErrorFiles @@ CycleFiles

\* acm_status_is_visible(), decided when the files are created.
InVersions(versions, if_id) ==
  /\ versions[1] # ACM_IF_DONT_CARE => if_id >= versions[1]
  /\ versions[2] # ACM_IF_DONT_CARE => if_id <= versions[2]

Visible(file, if_id, extended_status) ==
  /\ file.debug_only => extended_status
  /\ InVersions(file.versions, if_id)

-----------------------------------------------------------------------------
(* Error files: one bit, or as many as the version has *)

ErrorFiles(if_id) ==
  [ halt_on_error |-> [offset |-> 132, field |-> <<0, 0>>],
    halt_on_other_bypass |-> [offset |-> 132, field |-> <<16, 16>>],
    error_flags |-> [offset |-> 144, field |-> IF if_id = ACM_IF_1_0 THEN <<0, 39>> ELSE <<0, 40>>],
    policing_flags |-> [offset |-> 160, field |-> <<0, 2>>] ]

\* The registers a file reads, and what it shows of their words.
RegistersOf(file) == IF file.field[2] >= 32 THEN {file.offset, file.offset + 4} ELSE {file.offset}

Show(file, words) ==
  Taken(file.field, words[file.offset]
                      \cup IF file.field[2] >= 32
                           THEN { b + 32 : b \in words[file.offset + 4] } ELSE {})

\* get_partreg_val(): what was counted since the last read is added to the cache of
\* every field of the register, and the cache of the one asked for is cleared.  The
\* fields have 8 bits; a cache of 32 takes 16 million reads of other fields to wrap.
PartRegRead(cached, word, field) ==
  LET values == [ f \in DOMAIN cached |-> cached[f] + Number(Taken(f, word)) ]
  IN  [ val |-> values[field], cached |-> [values EXCEPT ![field] = 0] ]

-----------------------------------------------------------------------------
(* Common registers *)

GENERIC_0 ==
  [ extended_status |-> <<0, 0>>, testmodule_enable |-> <<1, 1>>, cfg_read_back |-> <<2, 2>>,
    individual_recovery |-> <<3, 3>>, rx_redundancy |-> <<4, 4>>, msgbuf_count |-> <<5, 11>>,
    time_freq |-> <<16, 31>> ]

ACM_COMMREG_MSGBUF_COUNT_DEFAULT == 32
SZ_16K == 16384
SZ_64K == 65536

\* What the functions commreg_read_...() return where there are no such registers;
\* frequencies are in MHz.
NoCommonRegisters ==
  [ extended_status |-> 0, testmodule_enable |-> 0, cfg_read_back |-> 1,
    individual_recovery |-> 0, rx_redundancy |-> 0, msgbuf_count |-> ACM_COMMREG_MSGBUF_COUNT_DEFAULT,
    time_freq |-> 100, msgbuf_memsize |-> SZ_16K, msgbuf_datawidth |-> 4 ]

\* commreg_init(): an unknown size of the message buffers is all ones.
CommonRegisters(if_id, generic_0, addr_width) ==
  IF if_id = ACM_IF_1_0 THEN NoCommonRegisters
  ELSE LET fields == Read(GENERIC_0, generic_0)
       IN  [fields EXCEPT !.msgbuf_count = IF @ = 0 THEN ACM_COMMREG_MSGBUF_COUNT_DEFAULT ELSE @]
           @@ [ msgbuf_memsize |-> CASE addr_width = 16 -> SZ_64K
                                     [] addr_width = 12 -> SZ_16K
                                     [] OTHER -> -1,
                msgbuf_datawidth |-> 4 ]

-----------------------------------------------------------------------------
(* The table of the diagnostics: register, field, and how it gets into the cache *)

NR_DIAG_RULES == 16

BypassDiagAccess ==
  [ scheduleCycleCounter |-> [offset |-> 1868, field |-> <<0, 7>>, read |-> "accumulate", count |-> 1],
    timestamp |-> [offset |-> 1860, field |-> <<0, 29>>, read |-> "timestamp", count |-> 2],
    rxFramesCounter |-> [offset |-> 1536, field |-> <<0, 15>>, read |-> "accumulate", count |-> 1],
    txFramesCounter |-> [offset |-> 1540, field |-> <<0, 15>>, read |-> "accumulate", count |-> 1],
    ingressWindowClosedFlags |-> [offset |-> 1552, field |-> <<0, 15>>, read |-> "or", count |-> 1],
    ingressWindowClosedCounter |->
      [offset |-> 1556, field |-> <<0, 7>>, read |-> "accumulate", count |-> NR_DIAG_RULES],
    noFrameReceivedFlags |-> [offset |-> 1632, field |-> <<0, 15>>, read |-> "or twice", count |-> 1],
    noFrameReceivedCounter |->
      [offset |-> 1636, field |-> <<0, 7>>, read |-> "accumulate", count |-> NR_DIAG_RULES],
    recoveryFlags |-> [offset |-> 1712, field |-> <<0, 15>>, read |-> "or", count |-> 1],
    recoveryCounter |->
      [offset |-> 1716, field |-> <<0, 7>>, read |-> "accumulate", count |-> NR_DIAG_RULES],
    additionalFilterMismatchFlags |-> [offset |-> 1792, field |-> <<0, 15>>, read |-> "or", count |-> 1],
    additionalFilterMismatchCounter |->
      [offset |-> 1796, field |-> <<0, 7>>, read |-> "accumulate", count |-> NR_DIAG_RULES] ]

DiagRegisters(item) ==
  { BypassDiagAccess[item].offset + 4 * i : i \in 0 .. BypassDiagAccess[item].count - 1 }

\* bypass_fixup_diag_timestamp(): sec is what the register has of the seconds, now the
\* time of the PTP clock.
UPDATE_TIMESTAMP_S == 255

FixupTimestamp(sec, now) ==
  LET tv_sec == sec + (now - (now % (UPDATE_TIMESTAMP_S + 1)))
  IN  IF tv_sec % (UPDATE_TIMESTAMP_S + 1) < sec THEN tv_sec - (UPDATE_TIMESTAMP_S + 1) ELSE tv_sec

-----------------------------------------------------------------------------
(* The items of libacmconfig *)

StatusSubpath ==
  [ STATUS_HALT_ERROR_OCCURED |-> <<"error_group", "halt_on_error">>,
    STATUS_IP_ERROR_FLAGS |-> <<"error_group", "error_flags">>,
    STATUS_POLICING_ERROR_FLAGS |-> <<"error_group", "policing_flags">>,
    STATUS_RUNT_FRAMES_PREV_CYCLE |-> <<"status_group", "runt_frames">>,
    STATUS_MII_ERRORS_PREV_CYCLE |-> <<"status_group", "mii_errors">>,
    STATUS_GMII_ERROR_PREV_CYCLE |-> <<"status_group", "gmii_error_prev_cycle">>,
    STATUS_SOF_ERRORS_PREV_CYCLE |-> <<"status_group", "sof_errors">>,
    STATUS_LAYER7_MISSMATCH_PREV_CYCLE |-> <<"status_group", "layer7_missmatch_cnt">>,
    STATUS_DROPPED_FRAMES_PREV_CYCLE |-> <<"status_group", "drop_frames_cnt_prev">>,
    STATUS_FRAMES_SCATTERED_PREV_CYCLE |-> <<"status_group", "scatter_DMA_frames_cnt_prev">>,
    STATUS_DISABLE_OVERRUN_PREV_CYCLE |-> <<"status_group", "disable_overrun_prev">>,
    STATUS_TX_FRAMES_CYCLE_CHANGE |-> <<"status_group", "tx_frame_cycle_change">>,
    STATUS_TX_FRAMES_PREV_CYCLE |-> <<"status_group", "tx_frames_prev">>,
    STATUS_RX_FRAMES_CYCLE_CHANGE |-> <<"status_group", "rx_frames_cycle_change">>,
    STATUS_RX_FRAMES_PREV_CYCLE |-> <<"status_group", "rx_frames_prev">> ]

\* Whether acm_read_status_item() finds the file; a missing one is -ENODEV.
ItemReadable(item, if_id, extended_status) ==
  LET name == StatusSubpath[item][2]
  IN  IF StatusSubpath[item][1] = "error_group" THEN name \in DOMAIN ErrorFiles(if_id)
      ELSE name \in DOMAIN StatusFiles /\ Visible(StatusFiles[name], if_id, extended_status)

CapabilityFile ==
  [ CAP_MIN_SCHEDULE_TICK |-> "time_freq",
    CAP_MAX_MESSAGE_BUFFER_SIZE |-> "msgbuf_memsize",
    CAP_CONFIG_READBACK |-> "cfg_read_back",
    CAP_DEBUG |-> "debug_enable",
    CAP_MAX_ANZ_MESSAGE_BUFFER |-> "msgbuf_count",
    CAP_MESSAGE_BUFFER_BLOCK_SIZE |-> "msgbuf_datawidth",
    CAP_REDUNDANCY_RX |-> "rx_redundancy",
    CAP_INDIV_RECOVERY |-> "individual_recovery" ]

ENODEV == 19

CommonValue(file, if_id, commreg) ==
  IF file \in DOMAIN CommonFiles /\ InVersions(CommonFiles[file], if_id)
  THEN commreg[file] ELSE -ENODEV

\* calc_tick_duration(): nanoseconds of a frequency, or the error.
TickDuration(time_freq) == IF time_freq <= 0 THEN time_freq ELSE 1000 \div time_freq

Capability(item, if_id, commreg) ==
  LET value == CommonValue(CapabilityFile[item], if_id, commreg)
  IN  IF item = "CAP_MIN_SCHEDULE_TICK" THEN TickDuration(value) ELSE value
=============================================================================
