-------------------------------- MODULE AcmFsc --------------------------------
(***************************************************************************)
(* The schedule of one module: schedule entries of its streams, the sorted *)
(* list of commands made from them, its validation and the rows that are   *)
(* written to a table of the scheduler (ngn.acm-config/src: sysfs.c,       *)
(* module.c, validate.c, libacmconfig.c).                                  *)
(*                                                                         *)
(* Times of entries are in ns, those of commands in ticks of the hardware. *)
(* Rows hold the distance to the next row in a narrow word, so that long   *)
(* distances take more rows.                                               *)
(***************************************************************************)
EXTENDS Integers, Sequences, FiniteSets, SequencesExt

CONSTANTS
  Events,           \* streams that send: (send time, period) are added to them
  Windows,          \* streams that receive: (start, end, period)
  CycleTimes,       \* cycle times of the module
  Periods,          \* periods of the entries
  Times,            \* send times, starts and ends of windows
  TICK,             \* duration of a tick in ns
  EgressDelay,      \* delays of chip and phy on the way out
  OpenDelay,        \* delays on the way in, with that of a serial connection
  CloseDelay,       \* delays on the way in, without it
  UINT16_T_MAX,     \* largest distance a row can hold
  NOP_DELTA_CYCLE,  \* distance of a NOP row in the middle of a long one
  ANZ_MIN_TICKS,    \* smallest distance the hardware can do
  UINT32,           \* number of values of the words distances are compared in
  MAX_EVENTS,       \* ACM_MAX_SCHEDULE_EVENTS: rows of a table
  MaxEntries        \* bound: schedule entries at a time

ASSUME TickAssumption == TICK \in Nat \ {0} /\ ANZ_MIN_TICKS \in Nat \ {0}
ASSUME RowAssumption ==
  /\ {UINT16_T_MAX, NOP_DELTA_CYCLE, MAX_EVENTS, MaxEntries} \subseteq Nat
  /\ UINT32 \in Nat \ {0}
  /\ NOP_DELTA_CYCLE + ANZ_MIN_TICKS - 1 <= UINT16_T_MAX
  /\ ANZ_MIN_TICKS <= NOP_DELTA_CYCLE
ASSUME TimesAssumption ==
  /\ Periods \subseteq Nat \ {0} /\ CycleTimes \subseteq Nat \ {0}
  /\ Times \subseteq Nat /\ {EgressDelay, OpenDelay, CloseDelay} \subseteq Nat

VARIABLES
  cycle_ns,   \* module->cycle_ns
  schedules,  \* the entries of stream->windows, for all streams
  fsc_list,   \* module->fsc_list: a sequence of commands
  table,      \* the rows written last, or the empty sequence
  written     \* history: the commands these rows were made from

vars == <<cycle_ns, schedules, fsc_list, table, written>>

\* Commands of the rows.
NOP == "NOP"
SEND == "SEND"
OPEN == "OPEN"
CLOSE == "CLOSE"

-----------------------------------------------------------------------------
(* Schedule entries.  made_for is history: the cycle time when it was added. *)

EventEntries ==
  { e \in [stream : Events, period : Periods, start : Times, end : {0}, made_for : {cycle_ns}] :
      e.start <= e.period }

WindowEntries ==
  { e \in [stream : Windows, period : Periods, start : Times, end : Times, made_for : {cycle_ns}] :
      e.start <= e.period /\ e.end <= e.period }

-----------------------------------------------------------------------------
(* create_event_sysfs_items(), create_window_sysfs_items() *)

NumItems(e) == cycle_ns \div e.period
Command(c, abs, e) == [cmd |-> c, abs_cycle |-> abs, schedule_reference |-> e]

DivRoundClosest(x) == (x + TICK \div 2) \div TICK
DivRoundUp(x) == (x + TICK - 1) \div TICK
WrapCycle(abs) == IF abs >= cycle_ns \div TICK THEN abs - cycle_ns \div TICK ELSE abs

\* (Deviation: what would be sent before the cycle starts is not left out.)
NothingSkipped(e) == 0

\* The frames that would have to leave before the cycle starts are sent at its
\* end instead.
Skipped(e) ==
  Cardinality({ i \in 0 .. EgressDelay : e.start + i * e.period < EgressDelay })

EventCommands(e) ==
  LET sent(i) == e.start + i * e.period - EgressDelay
  IN  [ i \in 1 .. NumItems(e) |-> Command(SEND, DivRoundClosest(sent(Skipped(e) + i - 1)), e) ]

WindowCommands(e) ==
  LET open(i) == WrapCycle((e.start + i * e.period + OpenDelay) \div TICK)
      close(i) == WrapCycle(DivRoundUp(e.end + i * e.period + CloseDelay))
  IN  [ k \in 1 .. 2 * NumItems(e) |->
          IF k % 2 = 1 THEN Command(OPEN, open(k \div 2), e)
          ELSE Command(CLOSE, close(k \div 2 - 1), e) ]

Commands(e) == IF e.stream \in Events THEN EventCommands(e) ELSE WindowCommands(e)

\* (Deviation: the command goes to the end of the list.)
InsertLast(list, c) == Append(list, c)

\* add_fsc_to_module_sorted(): in front of the first command that is later.
InsertSorted(list, c) ==
  LET later == { i \in DOMAIN list : list[i].abs_cycle > c.abs_cycle }
  IN  IF later = {} THEN Append(list, c) ELSE InsertAt(list, Min(later), c)

\* The list after each of the commands cs.
InsertedUpTo(list, cs) ==
  LET upto[k \in 0 .. Len(cs)] == IF k = 0 THEN list ELSE InsertSorted(upto[k - 1], cs[k])
  IN  upto

InsertAll(list, cs) == InsertedUpTo(list, cs)[Len(cs)]

\* The first commands of the list without those of stream s.
KeptUpTo(list, s) ==
  LET upto[k \in 0 .. Len(list)] ==
        IF k = 0 THEN << >>
        ELSE IF list[k].schedule_reference.stream = s THEN upto[k - 1]
        ELSE Append(upto[k - 1], list[k])
  IN  upto

RemoveAll(list, s) == KeptUpTo(list, s)[Len(list)]

-----------------------------------------------------------------------------
(* The part of validate_module() that is about schedules *)

Distance(list, i) == list[i].abs_cycle - (IF i = 1 THEN 0 ELSE list[i - 1].abs_cycle)

\* check_module_scheduling_gaps(), with the difference in an unsigned word
GapsValid(list) ==
  \A i \in DOMAIN list :
    Distance(list, i) % UINT32 < ANZ_MIN_TICKS => i = 1 /\ Distance(list, i) = 0

\* (Deviation: one row for every long distance.)
OneNopFor(d) == IF d > UINT16_T_MAX THEN 1 ELSE 0

\* calc_nop_schedules_for_long_cycles()
NopsFor(d) == IF d > UINT16_T_MAX THEN d \div NOP_DELTA_CYCLE ELSE 0

NopsUpTo(list) ==
  LET upto[k \in 0 .. Len(list)] ==
        IF k = 0 THEN 0 ELSE upto[k - 1] + NopsFor(Distance(list, k))
  IN  upto

NumNops(list) == NopsUpTo(list)[Len(list)]

EventsValid(list) ==
  list # << >> =>
    Len(list) + NumNops(list) <= IF list[1].abs_cycle = 0 THEN MAX_EVENTS ELSE MAX_EVENTS - 1

PeriodsValid(entries) == cycle_ns # 0 /\ \A e \in entries : cycle_ns % e.period = 0

Valid(entries, list) == EventsValid(list) /\ PeriodsValid(entries) /\ GapsValid(list)

-----------------------------------------------------------------------------
Init ==
  /\ cycle_ns = 0 /\ schedules = {} /\ fsc_list = << >>
  /\ table = << >> /\ written = << >>

\* acm_set_module_schedule(): the commands stay as they are.
SetModuleSchedule(c) ==
  /\ cycle_ns' = c
  /\ UNCHANGED <<schedules, fsc_list, table, written>>

\* acm_add_stream_schedule_event() and acm_add_stream_schedule_window().  What is
\* not valid is taken out again.
AddSchedule(e) ==
  LET list == InsertAll(fsc_list, Commands(e))
  IN  /\ Cardinality(schedules) < MaxEntries
      /\ Valid(schedules \cup {e}, list)
      /\ schedules' = schedules \cup {e} /\ fsc_list' = list
      /\ UNCHANGED <<cycle_ns, table, written>>

\* acm_clean_schedule()
CleanSchedule(s) ==
  /\ schedules' = { e \in schedules : e.stream # s }
  /\ fsc_list' = RemoveAll(fsc_list, s)
  /\ UNCHANGED <<cycle_ns, table, written>>

-----------------------------------------------------------------------------
(* write_fsc_schedules_to_HW() *)

\* "We don't use max value 0xFFFF (65535) but value 60000 to avoid smaller time
\* distances than min tick at the end of the period"
Slice == NOP_DELTA_CYCLE

\* How often a slice is taken from distance d, until the rest fits a word.
NumSlices(d) == Min({ n \in 0 .. d : d - n * Slice <= UINT16_T_MAX })

\* The rows a distance is divided into: slices, then the rest.
Slices(d) ==
  [ i \in 1 .. NumSlices(d) + 1 |-> IF i <= NumSlices(d) THEN Slice ELSE d - NumSlices(d) * Slice ]

Row(c, d) == [cmd |-> c, delta_cycle |-> d]
NopRows(ds) == [ i \in DOMAIN ds |-> Row(NOP, ds[i]) ]

\* (Deviation: the wait for the first command is a single row.)
ShortLead(d) == IF d = 0 THEN << >> ELSE << Row(NOP, IF d > UINT16_T_MAX THEN Slice ELSE d) >>

\* The rows before the first command.
Lead(d) == IF d = 0 THEN << >> ELSE NopRows(Slices(d))

\* The command itself with the first slice, then NOP rows.
RowsOf(c, d) == << Row(c.cmd, Head(Slices(d))) >> \o NopRows(Tail(Slices(d)))

\* The rows in front of the first command and those of the first k commands, which
\* need the command after them.
RowsUpTo(list) ==
  LET upto[k \in 0 .. Len(list) - 1] ==
        IF k = 0 THEN Lead(list[1].abs_cycle)
        ELSE upto[k - 1] \o RowsOf(list[k], Distance(list, k + 1))
  IN  upto

Rows(list) ==
  IF list = << >> THEN << >>
  ELSE Append(RowsUpTo(list)[Len(list) - 1], Row(list[Len(list)].cmd, ANZ_MIN_TICKS))

\* acm_apply_config() or acm_apply_schedule(): the final validation, then the rows.
WriteSchedule ==
  /\ Valid(schedules, fsc_list)
  /\ table' = Rows(fsc_list) /\ written' = fsc_list
  /\ UNCHANGED <<cycle_ns, schedules, fsc_list>>

-----------------------------------------------------------------------------
Next ==
  \/ \E c \in CycleTimes : SetModuleSchedule(c)
  \/ \E e \in EventEntries \cup WindowEntries : AddSchedule(e)
  \/ \E s \in Events \cup Windows : CleanSchedule(s)
  \/ WriteSchedule

Spec == Init /\ [][Next]_vars

-----------------------------------------------------------------------------
(* Properties *)

CommandsOf(e) == { i \in DOMAIN fsc_list : fsc_list[i].schedule_reference = e }

\* The commands are sorted, and far enough from each other and from the start of
\* the cycle for the hardware, after any sequence of additions and removals.
CommandsApart ==
  \A i \in DOMAIN fsc_list :
    (fsc_list[i].abs_cycle = 0 /\ i = 1) \/ Distance(fsc_list, i) >= ANZ_MIN_TICKS

\* Every entry has its commands for all periods of the cycle it was added in:
\* what the delays move before the start or after the end of the cycle is not
\* lost, and no command is after the end of the cycle.
EntriesComplete ==
  \A e \in schedules :
    /\ Cardinality(CommandsOf(e)) =
         (e.made_for \div e.period) * (IF e.stream \in Events THEN 1 ELSE 2)
    /\ \A i \in CommandsOf(e) : fsc_list[i].abs_cycle \in 0 .. e.made_for \div TICK

\* The hypothesis under which the second half of it holds.  The cycles are whole
\* ticks and no shorter than the delays: the code checks neither, but the end of
\* another cycle is rounded to ticks like its commands are, and
\* get_rx_window_abs_cycle() moves a command by one cycle only.
WholeCycles ==
  \A c \in CycleTimes : c % TICK = 0 /\ OpenDelay <= c /\ CloseDelay <= c

\* What validation let pass fits the table, with all rows for long distances:
\* validation counts them by another formula than the code that writes them.  Every
\* row has a distance the hardware can do and the word can hold.
RowsFit ==
  /\ Len(table) <= MAX_EVENTS
  /\ \A i \in DOMAIN table : table[i].delta_cycle \in ANZ_MIN_TICKS .. UINT16_T_MAX

\* When each row of the table ends.
TimesOf(rows) ==
  LET time[i \in 0 .. Len(rows)] == IF i = 0 THEN 0 ELSE time[i - 1] + rows[i].delta_cycle
  IN  time

\* The distances of the rows before the row of a command add up to its time, and
\* the commands are in the table in the order of the list.
RowsOnTime ==
  LET rows == { i \in DOMAIN table : table[i].cmd # NOP }
      number(i) == Cardinality({ k \in rows : k <= i })
  IN  /\ Cardinality(rows) = Len(written)
      /\ \A i \in rows :
           /\ table[i].cmd = written[number(i)].cmd
           /\ TimesOf(table)[i - 1] = written[number(i)].abs_cycle
=============================================================================
