--------------------------- MODULE AcmDiagnostics ---------------------------
(***************************************************************************)
(* The diagnostics of one bypass module (bypass.c, sysfs_diag.c): a cache  *)
(* of counters and flags that sysfs reads and resets and that a delayed    *)
(* work keeps up to date, filled from status registers the hardware clears *)
(* when they are read.  The flags that no frame of a rule was received are *)
(* also what the recovery timers of redundancy.c run on; since reading     *)
(* them clears them, whoever reads them puts them into both the            *)
(* diagnostics and no_frames_received, a cache of the recovery.            *)
(*                                                                         *)
(* Of the counters all of which are accumulated alike the model has the    *)
(* one that also decides whether an update is repeated, the cycle counter; *)
(* of the flags it has those of frames not received.  A register field     *)
(* counts to FieldMax and a counter of the cache to WordMax, with fields   *)
(* of 8 or 16 and words of 32 bits in the code.                            *)
(***************************************************************************)
EXTENDS Naturals, FiniteSets

CONSTANTS
    Rules,         \* the rules of the module
    Readers,       \* processes that read or write the file "diagnostics"
    Poll, Tick,    \* the poll work; the recovery work, or a set timeout
    None,          \* nobody
    FieldMax,      \* highest value of a field of a register
    WordMax,       \* 0xFFFFFFFF
    max_diag_retry,
    clear_on_read

ASSUME DiagnosticsAssumption ==
    /\ FieldMax \in Nat \ {0} /\ WordMax \in Nat /\ WordMax > FieldMax
    /\ max_diag_retry \in Nat \ {0} /\ clear_on_read \in BOOLEAN
    /\ Poll \notin Readers /\ Tick \notin Readers \cup {Poll}
    /\ None \notin Readers \cup {Poll, Tick}

VARIABLES
    register,      \* SCHEDULE_CYCLE_COUNTER and NO_FRAME_RECEIVED_FLAGS
    diag,          \* bypass->diag
    diagLock,      \* the holder of diag_lock
    update,        \* how far the holder of diag_lock is
    cache,         \* no_frames_received.flags
    transfer,      \* the holder of no_frames_received.lock and what it read
    tick,          \* the recovery on its way to the flag of a rule
    poll,          \* diag_poll_time, the work and a call that sets the time
    unread,        \* cycles since the last reset of the diagnostics
    owed,          \* rules whose missing frame the recovery has not seen
    due,           \* rules whose missing frame nobody has read
    overwritten    \* of these, the ones a reset took after they were copied

vars == <<register, diag, diagLock, update, cache, transfer, tick, poll,
          unread, owed, due, overwritten>>

Users == Readers \cup {Poll}

Cleared == [cycles |-> 0, flags |-> {}]

Free == [by |-> None, raw |-> {}, data |-> {}]

Rest == [op |-> "none", at |-> "none", retry |-> 0, counter |-> 0]

(* More cycles than both counters can hold are as good as one more.        *)
Many == WordMax + FieldMax - 1

Least(a, b) == IF a < b THEN a ELSE b

TypeOK ==
    /\ register \in [cycles : 0 .. FieldMax, flags : SUBSET Rules]
    /\ diag \in [cycles : 0 .. WordMax, flags : SUBSET Rules]
    /\ diagLock \in Users \cup {None}
    /\ update \in [op : {"none", "read", "write", "poll"},
                   at : {"none", "cycles", "flags", "or", "again", "copy",
                         "reset"},
                   retry : 0 .. max_diag_retry, counter : 0 .. WordMax]
    /\ cache \in SUBSET Rules
    /\ transfer \in [by : Users \cup {Tick, None}, raw : SUBSET Rules,
                     data : SUBSET Rules]
    /\ tick \in [at : {"idle", "or", "get"}, rules : SUBSET Rules]
    /\ poll \in [on : BOOLEAN, queued : BOOLEAN, rearms : SUBSET Readers,
                 work : {"idle", "lock", "update", "requeue"},
                 set : {"idle", "start", "cancel"}]
    /\ unread \in 0 .. Many
    /\ owed \in SUBSET Rules
    /\ due \in SUBSET Rules
    /\ overwritten \in SUBSET Rules

Init ==
    /\ register = Cleared
    /\ diag = Cleared
    /\ diagLock = None
    /\ update = Rest
    /\ cache = {}
    /\ transfer = Free
    /\ tick = [at |-> "idle", rules |-> {}]
    /\ poll = [on |-> TRUE, queued |-> TRUE, rearms |-> {}, work |-> "idle",
               set |-> "idle"]
    /\ unread = 0
    /\ owed = {}
    /\ due = {}
    /\ overwritten = {}

-----------------------------------------------------------------------------
(* The hardware.  A cycle ends in which no frame of the missing rules came.*)
Cycle(missing) ==
    /\ register' = [cycles |-> Least(register.cycles + 1, FieldMax),
                    flags |-> register.flags \cup missing]
    /\ unread' = Least(unread + 1, Many)
    /\ owed' = owed \cup missing
    /\ due' = due \cup missing
    /\ overwritten' = overwritten \ missing
    /\ UNCHANGED <<diag, diagLock, update, cache, transfer, tick, poll>>

-----------------------------------------------------------------------------
\* (Deviation: the counters wrap.)
AccumulatedWrapping(data, val) == (data + val) % (WordMax + 1)

(* bypass_diag_acculmulate() of one counter.  A field at its maximum may   *)
(* have overflowed, and an overflow is kept.                               *)
Accumulated(data, val) ==
    IF data = WordMax \/ val = FieldMax \/ data + val > WordMax
    THEN WordMax ELSE data + val

ReadCycles ==
    /\ diag' = [diag EXCEPT !.cycles = Accumulated(@, register.cycles)]
    /\ register' = [register EXCEPT !.cycles = 0]

(* bypass_diag_or_no_frames_received(), which is not under diag_lock when  *)
(* the recovery calls it.  The new value of the diagnostics is computed    *)
(* from the one that was read, and another process may reset it between.   *)
ReadFlags(p) ==
    /\ transfer.by = None
    /\ transfer' = [by |-> p, raw |-> register.flags, data |-> diag.flags]
    /\ register' = [register EXCEPT !.flags = {}]

\* (Deviation: the diagnostics read the flags for themselves only.)
OrFlagsOfDiagnostics(p) ==
    /\ transfer.by = p
    /\ diag' = [diag EXCEPT !.flags = transfer.data \cup transfer.raw]
    /\ cache' = IF p = Tick THEN cache \cup transfer.raw ELSE cache
    /\ transfer' = Free

\* (Deviation: the flags are assigned as they are read.)
OrFlagsAssigned(p) ==
    /\ transfer.by = p
    /\ diag' = [diag EXCEPT !.flags = transfer.raw]
    /\ cache' = cache \cup transfer.raw
    /\ transfer' = Free

OrFlags(p) ==
    /\ transfer.by = p
    /\ diag' = [diag EXCEPT !.flags = transfer.data \cup transfer.raw]
    /\ cache' = cache \cup transfer.raw
    /\ transfer' = Free

-----------------------------------------------------------------------------
(* memset() of the diagnostics.  The cycles it takes are not unread any    *)
(* more, and no flag is due any more that was not read since.              *)
ResetDiag(seen) ==
    /\ diag' = Cleared
    /\ unread' = IF diag.cycles = WordMax THEN register.cycles
                 ELSE unread - diag.cycles
    /\ overwritten' = (overwritten \cup (diag.flags \cap due)) \ seen
    /\ due' = due \ seen

(* bypass_diag_read() has the lock, or bypass_diag_init() for a write.     *)
BeginRead(p) ==
    /\ diagLock = None /\ p \notin poll.rearms
    /\ diagLock' = p
    /\ update' = [op |-> "read", at |-> "cycles", retry |-> 0, counter |-> 0]
    /\ UNCHANGED <<register, diag, cache, transfer, tick, poll, unread, owed,
                   due, overwritten>>

BeginWrite(p) ==
    /\ diagLock = None /\ p \notin poll.rearms
    /\ diagLock' = p
    /\ update' = [op |-> "write", at |-> "cycles", retry |-> 0, counter |-> 0]
    /\ ResetDiag(diag.flags)
    /\ UNCHANGED <<register, cache, transfer, tick, poll, owed>>

(* The poll work is started by its timer and waits for the lock.           *)
PollStarts ==
    /\ poll.queued /\ poll.work = "idle"
    /\ poll' = [poll EXCEPT !.queued = FALSE, !.work = "lock"]
    /\ UNCHANGED <<register, diag, diagLock, update, cache, transfer, tick,
                   unread, owed, due, overwritten>>

BeginPoll ==
    /\ poll.work = "lock" /\ diagLock = None
    /\ diagLock' = Poll
    /\ update' = [op |-> "poll", at |-> "cycles", retry |-> 0, counter |-> 0]
    /\ poll' = [poll EXCEPT !.work = "update"]
    /\ UNCHANGED <<register, diag, cache, transfer, tick, unread, owed, due,
                   overwritten>>

(* bypass_diag_update(): the cycle counter comes first, ...                *)
UpdateCycles ==
    /\ update.at = "cycles"
    /\ ReadCycles
    /\ update' = [update EXCEPT !.at = "flags", !.counter = diag'.cycles]
    /\ UNCHANGED <<diagLock, cache, transfer, tick, poll, unread, owed, due,
                   overwritten>>

(* ... the flags are read and stored under the lock of the cache, ...      *)
UpdateReadsFlags ==
    /\ update.at = "flags"
    /\ ReadFlags(diagLock)
    /\ update' = [update EXCEPT !.at = "or"]
    /\ UNCHANGED <<diag, diagLock, cache, tick, poll, unread, owed, due,
                   overwritten>>

UpdateOrsFlags ==
    /\ update.at = "or"
    /\ OrFlags(diagLock)
    /\ update' = [update EXCEPT !.at = "again"]
    /\ UNCHANGED <<register, diagLock, tick, poll, unread, owed, due,
                   overwritten>>

(* The lock is returned.  The poll work has then to queue itself; a read   *)
(* has to start the timer anew when it finds a poll time.                  *)
Unlock ==
    /\ diagLock' = None
    /\ update' = Rest
    /\ poll' = [poll EXCEPT
         !.work = IF update.op = "poll" THEN "requeue" ELSE @,
         !.rearms = IF update.op = "read" /\ poll.on THEN @ \cup {diagLock}
                    ELSE @]

(* ... and the whole is repeated if a cycle has passed, up to a limit      *)
(* where it fails with -ETIMEDOUT and a reader gets no copy.  What is not  *)
(* used any more of retry and counter is 0.                                *)
UpdateAgain ==
    /\ update.at = "again"
    /\ ReadCycles
    /\ LET passed == diag'.cycles # update.counter
       IN IF passed /\ update.retry + 1 < max_diag_retry
          THEN /\ update' = [update EXCEPT !.at = "cycles", !.retry = @ + 1,
                                         !.counter = 0]
               /\ UNCHANGED <<diagLock, poll>>
          ELSE IF ~passed /\ update.op = "read"
          THEN /\ update' = [update EXCEPT !.at = "copy", !.retry = 0,
                                         !.counter = 0]
               /\ UNCHANGED <<diagLock, poll>>
          ELSE Unlock
    /\ UNCHANGED <<cache, transfer, tick, unread, owed, due, overwritten>>

(* memcpy() to the reader, and the reset that follows if asked for.        *)
Copy ==
    /\ update.at = "copy"
    /\ due' = due \ diag.flags
    /\ overwritten' = overwritten \ diag.flags
    /\ IF clear_on_read
       THEN /\ update' = [update EXCEPT !.at = "reset"]
            /\ UNCHANGED <<diagLock, poll>>
       ELSE Unlock
    /\ UNCHANGED <<register, diag, cache, transfer, tick, unread, owed>>

Reset ==
    /\ update.at = "reset"
    /\ ResetDiag({})
    /\ Unlock
    /\ UNCHANGED <<register, cache, transfer, tick, owed>>

(* mod_delayed_work() does nothing while the work is being cancelled.      *)
Rearm(p) ==
    /\ p \in poll.rearms
    /\ \E queue \in IF poll.set = "cancel" THEN BOOLEAN ELSE {TRUE} :
         poll' = [poll EXCEPT !.rearms = @ \ {p},
                              !.queued = @ \/ queue]
    /\ UNCHANGED <<register, diag, diagLock, update, cache, transfer, tick,
                   unread, owed, due, overwritten>>

\* (Deviation: the work leaves it to the readers to restart the timer.)
RequeueNotAtAll ==
    /\ poll.work = "requeue"
    /\ poll' = [poll EXCEPT !.work = "idle"]
    /\ UNCHANGED <<register, diag, diagLock, update, cache, transfer, tick,
                   unread, owed, due, overwritten>>

Requeue ==
    /\ poll.work = "requeue"
    /\ \E queue \in IF poll.set = "cancel" THEN BOOLEAN ELSE {TRUE} :
         poll' = [poll EXCEPT !.work = "idle",
                              !.queued = @ \/ (poll.on /\ queue)]
    /\ UNCHANGED <<register, diag, diagLock, update, cache, transfer, tick,
                   unread, owed, due, overwritten>>

(* bypass_set_diag_poll_time(): the time is changed first, then the work   *)
(* is queued or cancelled, which waits for a running work to end.          *)
SetPollTime ==
    /\ poll.set = "idle"
    /\ poll' = [poll EXCEPT !.on = ~@,
                            !.set = IF poll.on THEN "cancel" ELSE "start"]
    /\ UNCHANGED <<register, diag, diagLock, update, cache, transfer, tick,
                   unread, owed, due, overwritten>>

StartPolling ==
    /\ poll.set = "start"
    /\ poll' = [poll EXCEPT !.set = "idle", !.queued = TRUE]
    /\ UNCHANGED <<register, diag, diagLock, update, cache, transfer, tick,
                   unread, owed, due, overwritten>>

CancelPolling ==
    /\ poll.set = "cancel" /\ poll.work = "idle"
    /\ poll' = [poll EXCEPT !.set = "idle", !.queued = FALSE]
    /\ UNCHANGED <<register, diag, diagLock, update, cache, transfer, tick,
                   unread, owed, due, overwritten>>

-----------------------------------------------------------------------------
(* bypass_recovery_no_frame_received(), of the recovery work or of a call  *)
(* that sets a timeout; the lock of the recovery keeps them apart.         *)
TickReadsFlags(r) ==
    /\ tick.at = "idle"
    /\ ReadFlags(Tick)
    /\ tick' = [at |-> "or", rules |-> {r}]
    /\ UNCHANGED <<diag, diagLock, update, cache, poll, unread, owed, due,
                   overwritten>>

TickOrsFlags ==
    /\ tick.at = "or"
    /\ OrFlags(Tick)
    /\ tick' = [tick EXCEPT !.at = "get"]
    /\ UNCHANGED <<register, diagLock, update, poll, unread, owed, due,
                   overwritten>>

(* The flag of the rule is taken, the others stay for their turn.  What    *)
(* the hardware has flagged since it was read is still owed.               *)
TickGetsFlag ==
    /\ tick.at = "get"
    /\ transfer.by = None
    /\ cache' = cache \ tick.rules
    /\ owed' = owed \ (tick.rules \ register.flags)
    /\ tick' = [at |-> "idle", rules |-> {}]
    /\ UNCHANGED <<register, diag, diagLock, update, transfer, poll, unread,
                   due, overwritten>>

-----------------------------------------------------------------------------
UpdateSteps ==
    \/ UpdateCycles \/ UpdateReadsFlags \/ UpdateOrsFlags \/ UpdateAgain
    \/ Copy \/ Reset

PollSteps == PollStarts \/ BeginPoll \/ Requeue

Next ==
    \/ \E missing \in SUBSET Rules : Cycle(missing)
    \/ \E p \in Readers : BeginRead(p) \/ BeginWrite(p) \/ Rearm(p)
    \/ UpdateSteps
    \/ PollSteps
    \/ SetPollTime \/ StartPolling \/ CancelPolling
    \/ \E r \in Rules : TickReadsFlags(r)
    \/ TickOrsFlags \/ TickGetsFlag

Spec == Init /\ [][Next]_vars

-----------------------------------------------------------------------------
(* A missing frame reaches the recovery whoever reads the register: its    *)
(* flag is in the register, on its way or in no_frames_received until the  *)
(* recovery asks for that rule, also when diagnostics are read, reset or   *)
(* fail, and when the recovery asks for another rule.                      *)
FlagsReachRecovery == owed \subseteq register.flags \cup transfer.raw \cup cache

(* A missing frame reaches a reader of the diagnostics, repeated and       *)
(* failed updates included, unless the recovery stored it in the few       *)
(* instructions between copy and reset, for which it does not take         *)
(* diag_lock, or a write asked to forget it.                               *)
FlagsReachReader ==
    due \subseteq register.flags \cup transfer.raw \cup diag.flags \cup overwritten

(* No cycle is lost or counted twice by reads that time out, by updates    *)
(* that are repeated or by the poll work: cache and register together hold *)
(* every cycle since the last reset until one of them overflowed.          *)
CountsAddUp ==
    diag.cycles < WordMax /\ register.cycles < FieldMax
        => unread = diag.cycles + register.cycles

(* While there is a poll time the work is queued, running or about to be   *)
(* queued by the call that sets the time, also after an update that timed  *)
(* out and while readers restart the timer.  Two calls that set the time   *)
(* at once could break it; the model has one at a time.                    *)
PollingGoesOn ==
    poll.on => poll.queued \/ poll.work # "idle" \/ poll.set = "start"
=============================================================================
