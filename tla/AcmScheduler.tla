------------------------------ MODULE AcmScheduler ------------------------------
(***************************************************************************)
(* One scheduler of the ACM: the tables of the hardware, the driver        *)
(* (ngn.ngn-dd/acm: scheduler.c) and the one caller of libacmconfig that   *)
(* applies schedules and removes the configuration (ngn.acm-config/src:    *)
(* sysfs.c, module.c; ngn.ngn-dd/acm: config.c).                           *)
(*                                                                         *)
(* The caller writes rows, cycle time and start time of a table in separate*)
(* steps.  A start time too far away for the hardware is left to a delayed *)
(* work, which runs at any time after it is due, between any two steps.    *)
(***************************************************************************)
EXTENDS Naturals, FiniteSets

CONSTANTS
  Tables,       \* the tables of the scheduler: 0 .. ACMDRV_SCHED_TBL_COUNT - 1
  WINDOW,       \* ACM_SCHEDULER_MAX_FUTURE_MSECS, in ticks
  StartTimes,   \* the start times the application asks for
  Cycles,       \* the cycle times of its modules; 0 if none was set
  MaxTime,      \* bound: the clock stops there unless something is due later
  MaxRequests   \* bound: number of calls that apply a schedule or remove the configuration

ASSUME TablesAssumption == Tables \in SUBSET Nat /\ Tables # {}
ASSUME WindowAssumption == WINDOW \in Nat \ {0}
ASSUME TimesAssumption == StartTimes \subseteq Nat /\ Cycles \subseteq Nat
ASSUME BoundsAssumption == MaxTime \in Nat /\ MaxRequests \in Nat

\* The rows of a table are known by the writes they stem from: a number of the
\* request, or one of the rows without a schedule.
NULL_ROWS == 0
STOP_ROWS == MaxRequests + 1

STOP_CYCLE == 1   \* min_delta_cycle

VARIABLES
  has_reset,          \* the reset line of the IP is wired, or a register resets it
  now,                \* PTP time
  in_use,             \* TBL_GEN_IN_USE
  can_be_taken,       \* TBL_GEN_CAN_BE_TAKEN
  last_cyc_nr_en,     \* TBL_GEN_LAST_CYC_NR_EN
  last_cyc_reached,   \* TBL_GEN_LAST_CYC_REACHED
  start,              \* STARTTIME registers
  cycle,              \* CYCLETIME registers
  rows,               \* the writes the rows of a table stem from
  time,               \* table->time
  trigger,            \* table->trigger
  pending,            \* table->work.dwork is queued
  due,                \* the time it is due
  pc,                 \* what the caller does next
  target,             \* the table it works on
  want,               \* start and cycle time of the schedule it applies
  starttime,          \* starttime of scheduler_cleanup()
  requests,           \* number of calls so far
  asked,              \* history: the last schedule whose start was asked for, per table
  waiting,            \* history: the request whose start is not written yet, or 0
  overrun,            \* history: tables that were written to while an earlier start
                      \* of theirs was outstanding
  disabled            \* history: scheduler_cleanup() came to its end and no start was
                      \* asked for since

statusVars == <<in_use, can_be_taken, last_cyc_nr_en, last_cyc_reached>>
hwVars == <<statusVars, start, cycle, rows>>
workVars == <<time, trigger, pending, due>>
callVars == <<pc, target, want, starttime, requests>>
historyVars == <<asked, waiting, overrun, disabled>>
vars == <<has_reset, now, hwVars, workVars, callVars, historyVars>>

Set(f, t, value) == [f EXCEPT ![t] = value]
NoWant == [start |-> 0, cycle |-> 0]
OnEach(value) == [t \in Tables |-> value]

-----------------------------------------------------------------------------
Init ==
  /\ has_reset \in BOOLEAN /\ now = 0
  /\ in_use = OnEach(FALSE) /\ can_be_taken = OnEach(FALSE)
  /\ last_cyc_nr_en = OnEach(FALSE) /\ last_cyc_reached = OnEach(FALSE)
  /\ start = OnEach(0) /\ cycle = OnEach(0) /\ rows = OnEach({NULL_ROWS})
  /\ time = OnEach(0) /\ trigger = OnEach(FALSE)
  /\ pending = OnEach(FALSE) /\ due = OnEach(0)
  /\ pc = "idle" /\ target = 0 /\ want = NoWant
  /\ starttime = 0 /\ requests = 0
  /\ asked = OnEach([start |-> 0, cycle |-> 0, id |-> 0])
  /\ waiting = OnEach(0) /\ overrun = {} /\ disabled = TRUE

-----------------------------------------------------------------------------
(* write_start_time_execute(), called with the start time tm and the flag trg *)

\* (Deviation: a start in the past is made up for as soon as possible.)
AdjustedStartAtOnce(tm, cyc) == IF tm >= now THEN tm ELSE now + 1

\* A start in the past is moved on by whole cycles.
AdjustedStart(tm, cyc) ==
  IF tm >= now THEN tm ELSE tm + ((now - tm) \div cyc + 1) * cyc

\* (Deviation: everything is left to the hardware.)
NeverTooFar(tm, cyc) == FALSE

\* Too far away in the future to be handled now.
TooFar(tm, cyc) == AdjustedStart(tm, cyc) - now > WINDOW

\* The cycle time is not set: the function gives up.
ExecuteWithoutCycle(t, tm, trg) ==
  /\ tm < now /\ cycle[t] = 0
  /\ pending' = Set(pending, t, FALSE) /\ due' = Set(due, t, 0)
  /\ time' = Set(time, t, tm)
  /\ UNCHANGED <<start, can_be_taken, last_cyc_nr_en>>

\* (Deviation: the work is not queued.)
RequeuedNever == FALSE

Requeued == TRUE

ExecuteLater(t, tm, trg) ==
  /\ ~(tm < now /\ cycle[t] = 0) /\ TooFar(tm, cycle[t])
  /\ pending' = Set(pending, t, Requeued) /\ time' = Set(time, t, tm)
  /\ due' = Set(due, t, now + ((AdjustedStart(tm, cycle[t]) - now) % WINDOW))
  /\ UNCHANGED <<start, can_be_taken, last_cyc_nr_en>>

\* write_start_time(): with the trigger, the table can be taken from now on.
ExecuteNow(t, tm, trg) ==
  /\ ~(tm < now /\ cycle[t] = 0) /\ ~TooFar(tm, cycle[t])
  /\ time' = Set(time, t, AdjustedStart(tm, cycle[t]))
  /\ start' = Set(start, t, AdjustedStart(tm, cycle[t]))
  /\ pending' = Set(pending, t, FALSE) /\ due' = Set(due, t, 0)
  /\ can_be_taken' = Set(can_be_taken, t, trg \/ can_be_taken[t])
  /\ last_cyc_nr_en' = Set(last_cyc_nr_en, t, ~trg /\ last_cyc_nr_en[t])

\* Request id goes on waiting only if the start is left to a work.
Execute(t, tm, trg, id) ==
  \/ ExecuteLater(t, tm, trg) /\ waiting' = Set(waiting, t, id)
  \/ /\ ExecuteWithoutCycle(t, tm, trg) \/ ExecuteNow(t, tm, trg)
     /\ waiting' = Set(waiting, t, 0)

\* write_start_time_worker_func(), at some time after the work is due.
Work(t) ==
  /\ pending[t] /\ due[t] <= now
  /\ Execute(t, time[t], trigger[t], waiting[t])
  /\ UNCHANGED <<has_reset, now, in_use, last_cyc_reached, cycle, rows, trigger,
                 callVars, asked, overrun, disabled>>

-----------------------------------------------------------------------------
(* acm_apply_schedule(): write_module_schedule_to_HW() for one module *)

\* (Deviation: the bit of tables that are going to be used is ignored.)
FreeIfNotInUse == { t \in Tables : ~in_use[t] }

\* sysfs_read_schedule_status()
Free == { t \in Tables : ~can_be_taken[t] /\ ~in_use[t] }

First(S) == CHOOSE t \in S : \A u \in S : t <= u

\* Without a free table the call fails.
Apply(st, cyc) ==
  /\ pc = "idle" /\ requests < MaxRequests /\ Free # {}
  /\ requests' = requests + 1
  /\ target' = First(Free)
  /\ want' = [start |-> st, cycle |-> cyc]
  /\ pc' = "rows"
  /\ overrun' = IF pending[First(Free)] THEN overrun \cup {First(Free)} ELSE overrun
  /\ UNCHANGED <<has_reset, now, hwVars, workVars, starttime, asked, waiting, disabled>>

\* write_fsc_schedules_to_HW() writes row by row.
WriteSomeRows ==
  /\ pc = "rows" /\ pc' = "rest"
  /\ rows' = Set(rows, target, rows[target] \cup {requests})
  /\ UNCHANGED <<has_reset, now, statusVars, start, cycle, workVars, target, want, starttime,
                 requests, historyVars>>

WriteOtherRows ==
  /\ pc = "rest" /\ pc' = "cycle"
  /\ rows' = Set(rows, target, {requests})
  /\ UNCHANGED <<has_reset, now, statusVars, start, cycle, workVars, target, want, starttime,
                 requests, historyVars>>

WriteCycle ==
  /\ pc = "cycle" /\ pc' = "start"
  /\ cycle' = Set(cycle, target, want.cycle)
  /\ UNCHANGED <<has_reset, now, statusVars, start, rows, workVars, target, want, starttime,
                 requests, historyVars>>

\* Once the work is cancelled only a start that was written before can still be
\* outstanding.
OverrunEnds ==
  IF can_be_taken[target] \/ in_use[target] THEN overrun ELSE overrun \ {target}

\* scheduler_write_start_time(): the work of the table is cancelled first.
WriteStart ==
  /\ pc = "start" /\ pc' = "idle"
  /\ trigger' = Set(trigger, target, TRUE)
  /\ Execute(target, want.start, TRUE, requests)
  /\ asked' = Set(asked, target, [start |-> want.start, cycle |-> want.cycle, id |-> requests])
  /\ overrun' = OverrunEnds
  /\ want' = NoWant /\ disabled' = FALSE
  /\ UNCHANGED <<has_reset, now, in_use, last_cyc_reached, cycle, rows, target, starttime,
                 requests>>

\* A file cannot be written or a row transfer takes too long.
ApplyFails ==
  /\ pc \in { "rows", "rest", "cycle", "start" } /\ pc' = "idle"
  /\ want' = NoWant
  /\ UNCHANGED <<has_reset, now, hwVars, workVars, target, starttime, requests, historyVars>>

-----------------------------------------------------------------------------
(* acm_disable_config(): acm_config_remove() and scheduler_cleanup() *)

\* The reset, as far as it is wired, and the choice of a table that is not used.
\* The work of the driver is not touched.
Remove ==
  LET used == IF has_reset THEN OnEach(FALSE) ELSE in_use
      taken == IF has_reset THEN OnEach(FALSE) ELSE can_be_taken
  IN  /\ pc = "idle" /\ requests < MaxRequests
      /\ requests' = requests + 1
      /\ in_use' = used /\ can_be_taken' = taken
      /\ last_cyc_nr_en' = IF has_reset THEN OnEach(FALSE) ELSE last_cyc_nr_en
      /\ last_cyc_reached' = IF has_reset THEN OnEach(FALSE) ELSE last_cyc_reached
      /\ start' = IF has_reset THEN OnEach(0) ELSE start
      /\ cycle' = IF has_reset THEN OnEach(0) ELSE cycle
      /\ overrun' = overrun \cup { t \in Tables : pending[t] \/ taken[t] }
      /\ IF \E t \in Tables : ~used[t]
         THEN /\ target' = First({ t \in Tables : ~used[t] })
              /\ pc' = "stop"
         ELSE UNCHANGED <<target, pc>>
      /\ UNCHANGED <<has_reset, now, rows, workVars, want, starttime, asked, waiting, disabled>>

WriteStopRows ==
  /\ pc = "stop" /\ pc' = "stop_cycle"
  /\ rows' = Set(rows, target, {STOP_ROWS})
  /\ UNCHANGED <<has_reset, now, statusVars, start, cycle, workVars, target, want, starttime,
                 requests, historyVars>>

\* The cycle time and the start time that is going to be written.
WriteStopCycle ==
  /\ pc = "stop_cycle" /\ pc' = "stop_start"
  /\ cycle' = Set(cycle, target, STOP_CYCLE)
  /\ starttime' = now
  /\ UNCHANGED <<has_reset, now, statusVars, start, rows, workVars, target, want,
                 requests, historyVars>>

\* scheduler_write_start_time_sync(), without the trigger.
WriteStopStart ==
  /\ pc = "stop_start" /\ pc' = "stop_trigger"
  /\ trigger' = Set(trigger, target, FALSE)
  /\ Execute(target, starttime, FALSE, 0)
  /\ starttime' = 0
  /\ overrun' = OverrunEnds
  /\ UNCHANGED <<has_reset, now, in_use, last_cyc_reached, cycle, rows, target, want, requests,
                 asked, disabled>>

\* (Deviation: the stop schedule is started like any other.)
StopWithoutLastCycle == FALSE

StopAfterLastCycle == TRUE

TriggerStop ==
  /\ pc = "stop_trigger" /\ pc' = "wait"
  /\ can_be_taken' = Set(can_be_taken, target, TRUE)
  /\ last_cyc_nr_en' = Set(last_cyc_nr_en, target, StopAfterLastCycle)
  /\ UNCHANGED <<has_reset, now, in_use, last_cyc_reached, start, cycle, rows, workVars, target, want,
                 starttime, requests, historyVars>>

\* A signal ends the wait for the completion: the scheduler is left as it is.
StopInterrupted ==
  /\ pc = "stop_trigger" /\ pc' = "idle"
  /\ disabled' = FALSE
  /\ UNCHANGED <<has_reset, now, hwVars, workVars, target, want, starttime, requests, asked,
                 waiting, overrun>>

\* The loop ends when the table is used and has reached its last cycle.
StopReached ==
  /\ pc = "wait" /\ in_use[target] /\ last_cyc_reached[target]
  /\ pc' = "null"
  /\ UNCHANGED <<has_reset, now, hwVars, workVars, target, want, starttime, requests, historyVars>>

WriteNullRows ==
  /\ pc = "null" /\ pc' = "idle"
  /\ rows' = [t \in Tables |-> IF t = target THEN rows[t] ELSE {NULL_ROWS}]
  /\ disabled' = TRUE
  /\ UNCHANGED <<has_reset, now, statusVars, start, cycle, workVars, target, want, starttime,
                 requests, asked, waiting, overrun>>

-----------------------------------------------------------------------------
(* The hardware, as the driver relies on it *)

\* "When scheduler takes the table into use, it clears this bit".
Take(t) ==
  /\ can_be_taken[t] /\ start[t] <= now
  /\ can_be_taken' = Set(can_be_taken, t, FALSE)
  /\ in_use' = [u \in Tables |-> u = t]
  /\ last_cyc_reached' = Set(last_cyc_reached, t, FALSE)
  /\ UNCHANGED <<has_reset, now, last_cyc_nr_en, start, cycle, rows,
                 workVars, callVars, historyVars>>

ReachLastCycle(t) ==
  /\ in_use[t] /\ last_cyc_nr_en[t] /\ ~last_cyc_reached[t]
  /\ last_cyc_reached' = Set(last_cyc_reached, t, TRUE)
  /\ UNCHANGED <<has_reset, now, in_use, can_be_taken, last_cyc_nr_en, start, cycle, rows,
                 workVars, callVars, historyVars>>

\* The hardware takes a table on time, the work may run late.
Tick ==
  /\ now < MaxTime \/ \E t \in Tables : due[t] > now \/ can_be_taken[t]
  /\ \A t \in Tables : can_be_taken[t] => start[t] > now
  /\ now' = now + 1
  /\ UNCHANGED <<has_reset, hwVars, workVars, callVars, historyVars>>

-----------------------------------------------------------------------------
Next ==
  \/ \E st \in StartTimes, cyc \in Cycles : Apply(st, cyc)
  \/ WriteSomeRows \/ WriteOtherRows \/ WriteCycle \/ WriteStart \/ ApplyFails
  \/ Remove \/ WriteStopRows \/ WriteStopCycle \/ WriteStopStart \/ TriggerStop
  \/ StopInterrupted \/ StopReached \/ WriteNullRows
  \/ \E t \in Tables : Work(t) \/ Take(t) \/ ReachLastCycle(t)
  \/ Tick

\* Time passes, queued work runs, the hardware goes on and the busy wait polls.
Fairness ==
  /\ WF_vars(Tick) /\ WF_vars(StopReached)
  /\ \A t \in Tables : WF_vars(Work(t)) /\ WF_vars(Take(t)) /\ WF_vars(ReachLastCycle(t))

Spec == Init /\ [][Next]_vars /\ Fairness

-----------------------------------------------------------------------------
(* Properties *)

\* Types; at most one table is in use; only starts with a trigger are left to a
\* work, so that the wait of scheduler_cleanup() for its own start is short.
TypeOK ==
  /\ has_reset \in BOOLEAN /\ now \in Nat /\ requests \in 0 .. MaxRequests
  /\ in_use \in [Tables -> BOOLEAN] /\ can_be_taken \in [Tables -> BOOLEAN]
  /\ last_cyc_nr_en \in [Tables -> BOOLEAN] /\ last_cyc_reached \in [Tables -> BOOLEAN]
  /\ start \in [Tables -> Nat] /\ cycle \in [Tables -> Nat]
  /\ rows \in [Tables -> SUBSET (0 .. MaxRequests + 1)]
  /\ time \in [Tables -> Nat] /\ trigger \in [Tables -> BOOLEAN]
  /\ pending \in [Tables -> BOOLEAN] /\ due \in [Tables -> Nat]
  /\ \A t \in Tables : pending[t] => trigger[t]
  /\ target \in Tables \cup {0} /\ starttime \in Nat
  /\ want \in [start : StartTimes \cup {0}, cycle : Cycles \cup {0}]
  /\ waiting \in [Tables -> 0 .. MaxRequests]
  /\ overrun \subseteq Tables /\ disabled \in BOOLEAN
  /\ Cardinality({ t \in Tables : in_use[t] }) <= 1

\* The start time registers hold 8 bits of seconds only: what the driver
\* writes, at once or in a delayed work that may be late, is never in the past
\* and never further away than the window the hardware understands.
StartInWindow ==
  [][\A t \in Tables :
       start'[t] # start[t] /\ requests' = requests => start'[t] \in now .. now + WINDOW
    ]_vars

\* The schedule a table is started with is the one that was asked for last: all
\* rows, the cycle time and a start at the requested time or whole cycles later
\* belong to the same request, however calls, delayed work and the hardware
\* interleave.  Excepted are tables written to while an earlier start of theirs
\* was outstanding, and the stop schedule.
ScheduleIsWhole ==
  \A t \in Tables \ overrun :
    trigger[t] /\ can_be_taken[t] =>
      /\ rows[t] = { asked[t].id }
      /\ cycle[t] = asked[t].cycle
      /\ start[t] >= asked[t].start
      /\ start[t] # asked[t].start => (start[t] - asked[t].start) % cycle[t] = 0

\* While acm_apply_schedule() writes rows and cycle time to a table, the hardware
\* does not use it and cannot take it, unless an earlier start was outstanding.
WrittenTableIsFree ==
  pc \in { "rows", "rest", "cycle", "start" } /\ target \notin overrun =>
    ~in_use[target] /\ ~can_be_taken[target]

\* "The old configuration will be disabled": after acm_disable_config() no table
\* but the one with the stop schedule is taken into use.
DisabledStaysDisabled ==
  disabled /\ pc = "idle" =>
    \A t \in Tables : in_use[t] => rows[t] \subseteq {STOP_ROWS}

\* A start that was asked for is written to the hardware some time, however far
\* away it is and however often the work has to wait again, unless the table has
\* no cycle time to move a late start on by, or there is a newer start for it.
StartEventuallyWritten ==
  \A t \in Tables, id \in 1 .. MaxRequests : waiting[t] = id ~> waiting[t] # id

\* The unbounded busy wait of scheduler_cleanup() ends, unless the start of
\* another schedule was outstanding when it was begun.
CleanupEnds ==
  pc = "wait" ~> (pc # "wait" \/ overrun # {})
=============================================================================
