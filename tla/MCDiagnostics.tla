---------------------------- MODULE MCDiagnostics ----------------------------
(***************************************************************************)
(* Instances of AcmDiagnostics: one reader, the poll work and the recovery;*)
(* and the operators of AcmStatus on bounded inputs.                       *)
(***************************************************************************)
EXTENDS AcmDiagnostics, AcmStatus, SequencesExt

CONSTANTS u1, r1, r2

RuleSymmetry == Permutations({r1, r2})

-----------------------------------------------------------------------------
FrameErrorFields == {FRAME_RUNT_FRAMES, FRAME_MII_ERRORS, FRAME_SOF_ERRORS}
NothingCounted == [f \in FrameErrorFields |-> 0]
ErrorWord(counts) == UNION {Placed(f, Bits(counts[f])) : f \in FrameErrorFields}

(* Frame errors are counted, or one of the files is read.                  *)
FrameErrorEvents == {"error", "read"} \X FrameErrorFields

FrameErrorStep(s, event) ==
    LET f == event[2]
        result == PartRegRead(s.cached, ErrorWord(s.register), f)
    IN IF event[1] = "error"
       THEN [s EXCEPT !.register[f] = @ + 1, !.all[f] = @ + 1]
       ELSE [s EXCEPT !.register = NothingCounted, !.cached = result.cached,
                      !.given[f] = @ + result.val]

FrameErrorsAfter(events) ==
    FoldLeft(FrameErrorStep,
             [register |-> NothingCounted, cached |-> NothingCounted,
              given |-> NothingCounted, all |-> NothingCounted], events)

(* The files of a partitioned register together lose no frame error,       *)
(* though reading any of them clears the register of all of them.          *)
ASSUME PartitionsLoseNothing ==
    \A events \in [1 .. 4 -> FrameErrorEvents] :
        LET s == FrameErrorsAfter(events)
        IN \A f \in FrameErrorFields :
             s.all[f] = s.given[f] + s.cached[f] + s.register[f]

VisibleFiles(if_id, extended_status) ==
    {f \in DOMAIN StatusFiles :
        Visible(StatusFiles[f], if_id, extended_status)}

(* No version of the interface has two status files of the same bits.      *)
ASSUME FilesApart ==
    \A if_id \in IfVersions, extended_status \in BOOLEAN :
        \A f, g \in VisibleFiles(if_id, extended_status) :
            /\ f # g
            /\ RegistersOf(StatusFiles[f]) \cap RegistersOf(StatusFiles[g]) # {}
            => \/ StatusFiles[f].field[2] < StatusFiles[g].field[1]
               \/ StatusFiles[g].field[2] < StatusFiles[f].field[1]

(* Registers of the diagnostics are cleared when they are read: no file of *)
(* a version that has diagnostics reads one, and no two items do.          *)
ASSUME DiagnosticsReadAlone ==
    LET items == DOMAIN BypassDiagAccess
        registers == UNION {DiagRegisters(i) : i \in items}
        status == UNION {RegistersOf(StatusFiles[f]) :
                           f \in VisibleFiles(ACM_IF_4_0, TRUE)}
        errors == UNION {RegistersOf(ErrorFiles(ACM_IF_4_0)[f]) :
                           f \in DOMAIN ErrorFiles(ACM_IF_4_0)}
    IN /\ registers \cap (status \cup errors) = {}
       /\ Cardinality(registers) =
            MapThenSumSet(LAMBDA i : BypassDiagAccess[i].count, items)

(* What a file shows is the field of the words in its registers, also when *)
(* the field reaches into the second one.                                  *)
ASSUME ErrorFlagsShown ==
    \A if_id \in IfVersions, bit \in {0, 31, 32, 39, 40, 41, 63} :
        LET file == ErrorFiles(if_id).error_flags
            words == [o \in RegistersOf(file) |->
                        {b - 8 * (o - file.offset) :
                           b \in {bit} \cap (8 * (o - file.offset)
                                             .. 8 * (o - file.offset) + 31)}]
        IN Show(file, words) = IF bit <= file.field[2] THEN {bit} ELSE {}

(* The current interface has a file for every status item of libacmconfig, *)
(* the first ones have none for items of frames received and of the        *)
(* renamed GMII errors.                                                    *)
ASSUME ItemsReadable ==
    \A if_id \in IfVersions :
        {i \in DOMAIN StatusSubpath : ~ItemReadable(i, if_id, FALSE)} =
            IF if_id >= ACM_IF_3_0 THEN {}
            ELSE {"STATUS_RX_FRAMES_PREV_CYCLE", "STATUS_RX_FRAMES_CYCLE_CHANGE",
                  "STATUS_GMII_ERROR_PREV_CYCLE", "STATUS_SOF_ERRORS_PREV_CYCLE"}

CommonRegisterValues ==
    {CommonRegisters(ACM_IF_4_0, Placed(GENERIC_0.time_freq, Bits(mhz))
                       \cup Placed(GENERIC_0.msgbuf_count, Bits(count))
                       \cup flags, width) :
        mhz \in {0, 1, 100, 125, 1000}, count \in {0, 1, 64, 127},
        flags \in SUBSET (0 .. 4), width \in {0, 12, 16}}

(* Every capability comes from a file of the current interface, except     *)
(* CAP_DEBUG, for which there is none; an ACM without message buffers to   *)
(* its name and one of unknown size read as the default and as an error.   *)
ASSUME CapabilitiesReadable ==
    \A commreg \in CommonRegisterValues :
        /\ {i \in DOMAIN CapabilityFile :
              Capability(i, ACM_IF_4_0, commreg) = -ENODEV} = {"CAP_DEBUG"}
        /\ Capability("CAP_MAX_ANZ_MESSAGE_BUFFER", ACM_IF_4_0, commreg) > 0
        /\ Capability("CAP_MAX_MESSAGE_BUFFER_SIZE", ACM_IF_4_0, commreg)
             \in {-1, SZ_16K, SZ_64K}
        /\ \A if_id \in IfVersions \ {ACM_IF_4_0} :
              Capability("CAP_MAX_ANZ_MESSAGE_BUFFER", if_id, commreg) = -ENODEV

(* The time of the diagnostics is that of the update unless the seconds    *)
(* of the register have wrapped since; then it is 256 seconds ahead, as    *)
(* the correction never finds its condition true.                          *)
ASSUME TimestampOfUpdate ==
    \A updated \in 0 .. 600, passed \in {0, 1, 2, 50} :
        FixupTimestamp(updated % 256, updated + passed) =
            IF updated \div 256 = (updated + passed) \div 256
            THEN updated ELSE updated + 256
=============================================================================
