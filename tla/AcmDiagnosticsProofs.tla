------------------------ MODULE AcmDiagnosticsProofs ------------------------
(***************************************************************************)
(* Proofs about AcmDiagnostics, for any number of rules and readers and    *)
(* any size of counters.  The flags are never lost because whoever has     *)
(* read them holds the lock of the recovery until they are stored, and     *)
(* what he stores covers what was there (TransferKeepsFlags); the counts   *)
(* add up because an overflow is kept (CountsCover).                       *)
(***************************************************************************)
EXTENDS AcmDiagnostics, TLAPS

(* A process between reading the flags and storing them is there alone,    *)
(* and the lock of the diagnostics has a holder until it is returned.      *)
Holders ==
    /\ diagLock = None <=> update.at = "none"
    /\ update.op = "read" => diagLock \in Readers
    /\ transfer.by = None => transfer.raw = {}

(* What is to be stored covers what the diagnostics hold at that time.     *)
TransferKeepsFlags == transfer.by # None => diag.flags \subseteq transfer.data

(* As long as the cache has not overflowed, no more cycles are in it and   *)
(* in the register than were counted, and as many if neither has.          *)
CountsCover ==
    /\ CountsAddUp
    /\ diag.cycles < WordMax => unread >= diag.cycles + register.cycles

(* The poll work is cancelled only once there is no poll time.             *)
CancelledIsOff == poll.set = "cancel" => ~poll.on

(* The inductive invariant: each property needs who holds which lock, and  *)
(* what he has read but not stored yet.                                    *)
IInv ==
    /\ TypeOK
    /\ Holders
    /\ FlagsReachRecovery
    /\ TransferKeepsFlags
    /\ FlagsReachReader
    /\ CountsCover
    /\ PollingGoesOn
    /\ CancelledIsOff

(* The values of poll and update, as in TypeOK.                            *)
PollStates ==
    [on : BOOLEAN, queued : BOOLEAN, rearms : SUBSET Readers,
     work : {"idle", "lock", "update", "requeue"},
     set : {"idle", "start", "cancel"}]

UpdateStates ==
    [op : {"none", "read", "write", "poll"},
     at : {"none", "cycles", "flags", "or", "again", "copy", "reset"},
     retry : 0 .. max_diag_retry, counter : 0 .. WordMax]

USE DEF Users, Cleared, Free, Rest, Many, Least

(* A counter stays within its word.                                        *)
LEMMA AccumulatedBounded ==
  ASSUME NEW data \in 0 .. WordMax, NEW val \in 0 .. FieldMax
  PROVE  Accumulated(data, val) \in data .. WordMax
BY DiagnosticsAssumption DEF Accumulated

(* Reading the cycle counter keeps the types and the flags.                *)
LEMMA ReadCyclesKeeps ==
  ASSUME TypeOK, ReadCycles
  PROVE  /\ register' \in [cycles : 0 .. FieldMax, flags : SUBSET Rules]
         /\ diag' \in [cycles : 0 .. WordMax, flags : SUBSET Rules]
         /\ register'.flags = register.flags /\ diag'.flags = diag.flags
<1>1. Accumulated(diag.cycles, register.cycles) \in 0 .. WordMax
  BY AccumulatedBounded, DiagnosticsAssumption DEF TypeOK
<1> QED
  BY <1>1, DiagnosticsAssumption DEF TypeOK, ReadCycles

(* Returning the lock keeps the types: only a reader restarts the timer.   *)
LEMMA UnlockKeeps ==
  ASSUME TypeOK, Holders, Unlock
  PROVE  poll' \in PollStates
<1>1. /\ poll \in PollStates
      /\ update.op = "read" => {diagLock} \subseteq Readers
  BY DEF TypeOK, Holders, PollStates
<1>2. CASE update.op = "poll"
  <2>1. poll' = [poll EXCEPT !.work = "requeue", !.rearms = @]
    BY <1>2 DEF Unlock
  <2> QED
    BY <1>1, <2>1 DEF PollStates
<1>3. CASE update.op = "read" /\ poll.on
  <2>1. poll' = [poll EXCEPT !.work = @, !.rearms = @ \cup {diagLock}]
    BY <1>3 DEF Unlock
  <2> QED
    BY <1>1, <1>3, <2>1 DEF PollStates
<1>4. CASE update.op # "poll" /\ ~(update.op = "read" /\ poll.on)
  <2>1. poll' = [poll EXCEPT !.work = @, !.rearms = @]
    BY <1>4 DEF Unlock
  <2> QED
    BY <1>1, <2>1 DEF PollStates
<1> QED
  BY <1>2, <1>3, <1>4

(* Nothing is owed, due or unread at the start, and the poll work queued.  *)
LEMMA InitInvariant == Init => IInv
  BY DiagnosticsAssumption
     DEF Init, IInv, TypeOK, Holders, FlagsReachRecovery, TransferKeepsFlags,
     FlagsReachReader, CountsCover, CountsAddUp, PollingGoesOn, CancelledIsOff

(* The hardware adds to its register what it adds to what is owed.         *)
LEMMA CycleInvariant ==
  ASSUME IInv, NEW missing \in SUBSET Rules, Cycle(missing)
  PROVE  IInv'
<1> USE DiagnosticsAssumption DEF IInv, Cycle
<1>1. TypeOK'
  BY DEF TypeOK
<1>2. Holders'
  BY DEF TypeOK, Holders
<1>3. FlagsReachRecovery'
  BY DEF TypeOK, Holders, FlagsReachRecovery
<1>4. TransferKeepsFlags'
  BY DEF TypeOK, Holders, TransferKeepsFlags
<1>5. FlagsReachReader'
  BY DEF TypeOK, Holders, TransferKeepsFlags, FlagsReachReader
<1>6. CountsCover'
  BY DEF TypeOK, CountsCover, CountsAddUp
<1>7. PollingGoesOn'
  BY DEF TypeOK, PollingGoesOn, CancelledIsOff
<1>8. CancelledIsOff'
  BY DEF TypeOK, CancelledIsOff
<1> QED
  BY <1>1, <1>2, <1>3, <1>4, <1>5, <1>6, <1>7, <1>8

(* A reader that takes the lock only announces itself.                     *)
LEMMA BeginReadInvariant ==
  ASSUME IInv, NEW p \in Readers, BeginRead(p)
  PROVE  IInv'
<1> USE DiagnosticsAssumption DEF IInv, BeginRead
<1>1. TypeOK'
  BY DEF TypeOK
<1>2. Holders'
  BY DEF TypeOK, Holders
<1>3. FlagsReachRecovery'
  BY DEF TypeOK, Holders, FlagsReachRecovery
<1>4. TransferKeepsFlags'
  BY DEF TypeOK, Holders, TransferKeepsFlags
<1>5. FlagsReachReader'
  BY DEF TypeOK, Holders, TransferKeepsFlags, FlagsReachReader
<1>6. CountsCover'
  BY DEF TypeOK, CountsCover, CountsAddUp
<1>7. PollingGoesOn'
  BY DEF TypeOK, PollingGoesOn, CancelledIsOff
<1>8. CancelledIsOff'
  BY DEF TypeOK, CancelledIsOff
<1> QED
  BY <1>1, <1>2, <1>3, <1>4, <1>5, <1>6, <1>7, <1>8

(* A write takes the flags it forgets, and the cycles, out of the count.   *)
LEMMA BeginWriteInvariant ==
  ASSUME IInv, NEW p \in Readers, BeginWrite(p)
  PROVE  IInv'
<1> USE DiagnosticsAssumption DEF IInv, BeginWrite, ResetDiag
<1>1. TypeOK'
  <2>1. poll' \in PollStates
    BY DEF TypeOK, Holders, PollStates
  <2>2. update' \in UpdateStates
    BY DEF TypeOK, Holders, UpdateStates
  <2>3. /\ register' \in [cycles : 0 .. FieldMax, flags : SUBSET Rules]
        /\ diag' \in [cycles : 0 .. WordMax, flags : SUBSET Rules]
        /\ diagLock' \in Users \cup {None}
        /\ transfer' \in [by : Users \cup {Tick, None}, raw : SUBSET Rules,
                          data : SUBSET Rules]
        /\ tick' \in [at : {"idle", "or", "get"}, rules : SUBSET Rules]
    BY DEF TypeOK, Holders
  <2>4. unread' \in 0 .. Many
    BY DEF TypeOK, CountsCover
  <2>5. /\ cache' \in SUBSET Rules /\ owed' \in SUBSET Rules
        /\ due' \in SUBSET Rules /\ overwritten' \in SUBSET Rules
    BY DEF TypeOK
  <2> QED
    BY <2>1, <2>2, <2>3, <2>4, <2>5 DEF TypeOK, PollStates, UpdateStates
<1>2. Holders'
  BY DEF TypeOK, Holders
<1>3. FlagsReachRecovery'
  BY DEF TypeOK, Holders, FlagsReachRecovery
<1>4. TransferKeepsFlags'
  BY DEF TypeOK, Holders, TransferKeepsFlags
<1>5. FlagsReachReader'
  BY DEF TypeOK, Holders, TransferKeepsFlags, FlagsReachReader
<1>6. CountsCover'
  BY DEF TypeOK, CountsCover, CountsAddUp
<1>7. PollingGoesOn'
  BY DEF TypeOK, PollingGoesOn, CancelledIsOff
<1>8. CancelledIsOff'
  BY DEF TypeOK, CancelledIsOff
<1> QED
  BY <1>1, <1>2, <1>3, <1>4, <1>5, <1>6, <1>7, <1>8

(* Restarting the timer can only queue the work.                           *)
LEMMA RearmInvariant ==
  ASSUME IInv, NEW p \in Readers, Rearm(p)
  PROVE  IInv'
<1> USE DiagnosticsAssumption DEF IInv, Rearm
<1>1. TypeOK'
  <2>1. poll' \in PollStates
    <3>1. PICK queue \in BOOLEAN : poll' = [poll EXCEPT !.rearms = @ \ {p},
                                          !.queued = @ \/ queue]
      OBVIOUS
    <3>2. poll \in PollStates
      BY DEF TypeOK, PollStates
    <3> QED
      BY <3>1, <3>2 DEF PollStates
  <2>2. update' \in UpdateStates
    BY DEF TypeOK, Holders, UpdateStates
  <2>3. /\ register' \in [cycles : 0 .. FieldMax, flags : SUBSET Rules]
        /\ diag' \in [cycles : 0 .. WordMax, flags : SUBSET Rules]
        /\ diagLock' \in Users \cup {None}
        /\ transfer' \in [by : Users \cup {Tick, None}, raw : SUBSET Rules,
                          data : SUBSET Rules]
        /\ tick' \in [at : {"idle", "or", "get"}, rules : SUBSET Rules]
    BY DEF TypeOK, Holders
  <2>4. unread' \in 0 .. Many
    BY DEF TypeOK, CountsCover
  <2>5. /\ cache' \in SUBSET Rules /\ owed' \in SUBSET Rules
        /\ due' \in SUBSET Rules /\ overwritten' \in SUBSET Rules
    BY DEF TypeOK
  <2> QED
    BY <2>1, <2>2, <2>3, <2>4, <2>5 DEF TypeOK, PollStates, UpdateStates
<1>2. Holders'
  BY DEF TypeOK, Holders
<1>3. FlagsReachRecovery'
  BY DEF TypeOK, Holders, FlagsReachRecovery
<1>4. TransferKeepsFlags'
  BY DEF TypeOK, Holders, TransferKeepsFlags
<1>5. FlagsReachReader'
  BY DEF TypeOK, Holders, TransferKeepsFlags, FlagsReachReader
<1>6. CountsCover'
  BY DEF TypeOK, CountsCover, CountsAddUp
<1>7. PollingGoesOn'
  BY DEF TypeOK, PollingGoesOn, CancelledIsOff
<1>8. CancelledIsOff'
  BY DEF TypeOK, CancelledIsOff
<1> QED
  BY <1>1, <1>2, <1>3, <1>4, <1>5, <1>6, <1>7, <1>8

(* The work that starts is not queued any more but at work.                *)
LEMMA PollStartsInvariant ==
  ASSUME IInv, PollStarts
  PROVE  IInv'
<1> USE DiagnosticsAssumption DEF IInv, PollStarts
<1>1. TypeOK'
  <2>1. poll' \in PollStates
    BY DEF TypeOK, Holders, PollStates
  <2>2. update' \in UpdateStates
    BY DEF TypeOK, Holders, UpdateStates
  <2>3. /\ register' \in [cycles : 0 .. FieldMax, flags : SUBSET Rules]
        /\ diag' \in [cycles : 0 .. WordMax, flags : SUBSET Rules]
        /\ diagLock' \in Users \cup {None}
        /\ transfer' \in [by : Users \cup {Tick, None}, raw : SUBSET Rules,
                          data : SUBSET Rules]
        /\ tick' \in [at : {"idle", "or", "get"}, rules : SUBSET Rules]
    BY DEF TypeOK, Holders
  <2>4. unread' \in 0 .. Many
    BY DEF TypeOK, CountsCover
  <2>5. /\ cache' \in SUBSET Rules /\ owed' \in SUBSET Rules
        /\ due' \in SUBSET Rules /\ overwritten' \in SUBSET Rules
    BY DEF TypeOK
  <2> QED
    BY <2>1, <2>2, <2>3, <2>4, <2>5 DEF TypeOK, PollStates, UpdateStates
<1>2. Holders'
  BY DEF TypeOK, Holders
<1>3. FlagsReachRecovery'
  BY DEF TypeOK, Holders, FlagsReachRecovery
<1>4. TransferKeepsFlags'
  BY DEF TypeOK, Holders, TransferKeepsFlags
<1>5. FlagsReachReader'
  BY DEF TypeOK, Holders, TransferKeepsFlags, FlagsReachReader
<1>6. CountsCover'
  BY DEF TypeOK, CountsCover, CountsAddUp
<1>7. PollingGoesOn'
  BY DEF TypeOK, PollingGoesOn, CancelledIsOff
<1>8. CancelledIsOff'
  BY DEF TypeOK, CancelledIsOff
<1> QED
  BY <1>1, <1>2, <1>3, <1>4, <1>5, <1>6, <1>7, <1>8

(* The work takes the lock as a reader does.                               *)
LEMMA BeginPollInvariant ==
  ASSUME IInv, BeginPoll
  PROVE  IInv'
<1> USE DiagnosticsAssumption DEF IInv, BeginPoll
<1>1. TypeOK'
  BY DEF TypeOK
<1>2. Holders'
  BY DEF TypeOK, Holders
<1>3. FlagsReachRecovery'
  BY DEF TypeOK, Holders, FlagsReachRecovery
<1>4. TransferKeepsFlags'
  BY DEF TypeOK, Holders, TransferKeepsFlags
<1>5. FlagsReachReader'
  BY DEF TypeOK, Holders, TransferKeepsFlags, FlagsReachReader
<1>6. CountsCover'
  BY DEF TypeOK, CountsCover, CountsAddUp
<1>7. PollingGoesOn'
  BY DEF TypeOK, PollingGoesOn, CancelledIsOff
<1>8. CancelledIsOff'
  BY DEF TypeOK, CancelledIsOff
<1> QED
  BY <1>1, <1>2, <1>3, <1>4, <1>5, <1>6, <1>7, <1>8

(* The work queues itself unless it is cancelled, which it is only without *)
(* poll time.                                                              *)
LEMMA RequeueInvariant ==
  ASSUME IInv, Requeue
  PROVE  IInv'
<1> USE DiagnosticsAssumption DEF IInv, Requeue
<1>1. TypeOK'
  <2>1. poll' \in PollStates
    <3>1. PICK queue \in BOOLEAN : poll' = [poll EXCEPT !.work = "idle",
                                          !.queued = @ \/ (poll.on /\ queue)]
      OBVIOUS
    <3>2. poll \in PollStates
      BY DEF TypeOK, PollStates
    <3> QED
      BY <3>1, <3>2 DEF PollStates
  <2>2. update' \in UpdateStates
    BY DEF TypeOK, Holders, UpdateStates
  <2>3. /\ register' \in [cycles : 0 .. FieldMax, flags : SUBSET Rules]
        /\ diag' \in [cycles : 0 .. WordMax, flags : SUBSET Rules]
        /\ diagLock' \in Users \cup {None}
        /\ transfer' \in [by : Users \cup {Tick, None}, raw : SUBSET Rules,
                          data : SUBSET Rules]
        /\ tick' \in [at : {"idle", "or", "get"}, rules : SUBSET Rules]
    BY DEF TypeOK, Holders
  <2>4. unread' \in 0 .. Many
    BY DEF TypeOK, CountsCover
  <2>5. /\ cache' \in SUBSET Rules /\ owed' \in SUBSET Rules
        /\ due' \in SUBSET Rules /\ overwritten' \in SUBSET Rules
    BY DEF TypeOK
  <2> QED
    BY <2>1, <2>2, <2>3, <2>4, <2>5 DEF TypeOK, PollStates, UpdateStates
<1>2. Holders'
  BY DEF TypeOK, Holders
<1>3. FlagsReachRecovery'
  BY DEF TypeOK, Holders, FlagsReachRecovery
<1>4. TransferKeepsFlags'
  BY DEF TypeOK, Holders, TransferKeepsFlags
<1>5. FlagsReachReader'
  BY DEF TypeOK, Holders, TransferKeepsFlags, FlagsReachReader
<1>6. CountsCover'
  BY DEF TypeOK, CountsCover, CountsAddUp
<1>7. PollingGoesOn'
  BY DEF TypeOK, PollingGoesOn, CancelledIsOff
<1>8. CancelledIsOff'
  BY DEF TypeOK, CancelledIsOff
<1> QED
  BY <1>1, <1>2, <1>3, <1>4, <1>5, <1>6, <1>7, <1>8

(* Cycles go from the register to the cache, or the cache overflows.       *)
LEMMA UpdateCyclesInvariant ==
  ASSUME IInv, UpdateCycles
  PROVE  IInv'
<1> USE DiagnosticsAssumption DEF IInv, UpdateCycles, ReadCycles, Accumulated
<1>1. TypeOK'
  <2>1. poll' \in PollStates
    BY DEF TypeOK, Holders, PollStates
  <2>2. /\ register' \in [cycles : 0 .. FieldMax, flags : SUBSET Rules]
        /\ diag' \in [cycles : 0 .. WordMax, flags : SUBSET Rules]
        /\ diagLock' \in Users \cup {None}
        /\ transfer' \in [by : Users \cup {Tick, None}, raw : SUBSET Rules,
                          data : SUBSET Rules]
        /\ tick' \in [at : {"idle", "or", "get"}, rules : SUBSET Rules]
    BY ReadCyclesKeeps DEF TypeOK, Holders
  <2>3. update' \in UpdateStates
    BY <2>2 DEF TypeOK, Holders, UpdateStates
  <2>4. unread' \in 0 .. Many
    BY DEF TypeOK, CountsCover
  <2>5. /\ cache' \in SUBSET Rules /\ owed' \in SUBSET Rules
        /\ due' \in SUBSET Rules /\ overwritten' \in SUBSET Rules
    BY DEF TypeOK
  <2> QED
    BY <2>1, <2>2, <2>3, <2>4, <2>5 DEF TypeOK, PollStates, UpdateStates
<1>2. Holders'
  BY DEF TypeOK, Holders
<1>3. FlagsReachRecovery'
  BY DEF TypeOK, Holders, FlagsReachRecovery
<1>4. TransferKeepsFlags'
  BY DEF TypeOK, Holders, TransferKeepsFlags
<1>5. FlagsReachReader'
  BY DEF TypeOK, Holders, TransferKeepsFlags, FlagsReachReader
<1>6. CountsCover'
  BY DEF TypeOK, CountsCover, CountsAddUp
<1>7. PollingGoesOn'
  BY DEF TypeOK, PollingGoesOn, CancelledIsOff
<1>8. CancelledIsOff'
  BY DEF TypeOK, CancelledIsOff
<1> QED
  BY <1>1, <1>2, <1>3, <1>4, <1>5, <1>6, <1>7, <1>8

(* Flags go from the register to whoever reads it.                         *)
LEMMA UpdateReadsFlagsInvariant ==
  ASSUME IInv, UpdateReadsFlags
  PROVE  IInv'
<1> USE DiagnosticsAssumption DEF IInv, UpdateReadsFlags, ReadFlags
<1>1. TypeOK'
  BY DEF TypeOK
<1>2. Holders'
  BY DEF TypeOK, Holders
<1>3. FlagsReachRecovery'
  BY DEF TypeOK, Holders, FlagsReachRecovery
<1>4. TransferKeepsFlags'
  BY DEF TypeOK, Holders, TransferKeepsFlags
<1>5. FlagsReachReader'
  BY DEF TypeOK, Holders, TransferKeepsFlags, FlagsReachReader
<1>6. CountsCover'
  BY DEF TypeOK, CountsCover, CountsAddUp
<1>7. PollingGoesOn'
  BY DEF TypeOK, PollingGoesOn, CancelledIsOff
<1>8. CancelledIsOff'
  BY DEF TypeOK, CancelledIsOff
<1> QED
  BY <1>1, <1>2, <1>3, <1>4, <1>5, <1>6, <1>7, <1>8

(* What was read goes to the diagnostics and to the recovery.              *)
LEMMA UpdateOrsFlagsInvariant ==
  ASSUME IInv, UpdateOrsFlags
  PROVE  IInv'
<1> USE DiagnosticsAssumption DEF IInv, UpdateOrsFlags, OrFlags
<1>1. TypeOK'
  BY DEF TypeOK
<1>2. Holders'
  BY DEF TypeOK, Holders
<1>3. FlagsReachRecovery'
  BY DEF TypeOK, Holders, FlagsReachRecovery
<1>4. TransferKeepsFlags'
  BY DEF TypeOK, Holders, TransferKeepsFlags
<1>5. FlagsReachReader'
  BY DEF TypeOK, Holders, TransferKeepsFlags, FlagsReachReader
<1>6. CountsCover'
  BY DEF TypeOK, CountsCover, CountsAddUp
<1>7. PollingGoesOn'
  BY DEF TypeOK, PollingGoesOn, CancelledIsOff
<1>8. CancelledIsOff'
  BY DEF TypeOK, CancelledIsOff
<1> QED
  BY <1>1, <1>2, <1>3, <1>4, <1>5, <1>6, <1>7, <1>8

(* An update is repeated within its limit, goes on to the copy or ends.    *)
LEMMA UpdateAgainInvariant ==
  ASSUME IInv, UpdateAgain
  PROVE  IInv'
<1> USE DiagnosticsAssumption DEF IInv
<1>1. /\ update.at = "again" /\ transfer' = transfer
      /\ \/ /\ update' = [update EXCEPT !.at = "cycles", !.retry = @ + 1,
                                        !.counter = 0]
            /\ update.retry + 1 < max_diag_retry /\ diagLock' = diagLock
         \/ /\ update' = [update EXCEPT !.at = "copy", !.retry = 0, !.counter = 0]
            /\ update.op = "read" /\ diagLock' = diagLock
         \/ update' = Rest /\ diagLock' = None
  BY DEF UpdateAgain, Unlock
<1>2. update' \in UpdateStates
  <2>1. update \in UpdateStates
    BY DEF TypeOK, UpdateStates
  <2> HIDE DEF IInv
  <2>0. 0 \in 0 .. WordMax /\ 0 \in 0 .. max_diag_retry
    BY DiagnosticsAssumption
  <2>2. CASE update' = Rest
    BY <2>0, <2>2 DEF UpdateStates
  <2>3. CASE update' = [update EXCEPT !.at = "copy", !.retry = 0, !.counter = 0]
    <3>1. update' = [op |-> update.op, at |-> "copy", retry |-> 0,
                     counter |-> 0]
      BY <2>1, <2>3 DEF UpdateStates
    <3> QED
      BY <2>0, <2>1, <3>1 DEF UpdateStates
  <2>4. CASE /\ update' = [update EXCEPT !.at = "cycles", !.retry = @ + 1,
                                        !.counter = 0]
             /\ update.retry + 1 < max_diag_retry
    <3>1. update.retry + 1 \in 0 .. max_diag_retry
      BY <2>1, <2>4 DEF UpdateStates
    <3>2. update' = [op |-> update.op, at |-> "cycles",
                     retry |-> update.retry + 1, counter |-> 0]
      BY <2>1, <2>4 DEF UpdateStates
    <3> QED
      BY <2>0, <2>1, <3>1, <3>2 DEF UpdateStates
  <2> QED
    BY <1>1, <2>2, <2>3, <2>4
<1>3. Holders'
  <2>1. update \in UpdateStates /\ Holders
    BY DEF TypeOK, UpdateStates
  <2> HIDE DEF IInv
  <2>2. CASE update' = Rest /\ diagLock' = None
    BY <1>1, <2>1, <2>2 DEF Holders
  <2>3. CASE diagLock' = diagLock
    BY <1>1, <2>1, <2>3 DEF Holders, UpdateStates
  <2> QED
    BY <1>1, <2>2, <2>3
<1> USE DEF UpdateAgain, ReadCycles, Accumulated, Unlock
<1>10. TypeOK'
  <2>1. poll' \in PollStates
    <3>1. CASE UNCHANGED poll
      BY <3>1 DEF TypeOK, PollStates
    <3>2. CASE Unlock
      BY <3>2, UnlockKeeps
    <3> QED
      BY <3>1, <3>2
  <2>2. /\ register' \in [cycles : 0 .. FieldMax, flags : SUBSET Rules]
        /\ diag' \in [cycles : 0 .. WordMax, flags : SUBSET Rules]
        /\ diagLock' \in Users \cup {None}
        /\ transfer' \in [by : Users \cup {Tick, None}, raw : SUBSET Rules,
                          data : SUBSET Rules]
        /\ tick' \in [at : {"idle", "or", "get"}, rules : SUBSET Rules]
    BY ReadCyclesKeeps DEF TypeOK, Holders
  <2>3. unread' \in 0 .. Many
    BY DEF TypeOK, CountsCover
  <2>4. /\ cache' \in SUBSET Rules /\ owed' \in SUBSET Rules
        /\ due' \in SUBSET Rules /\ overwritten' \in SUBSET Rules
    BY DEF TypeOK
  <2> QED
    BY <1>2, <2>1, <2>2, <2>3, <2>4 DEF TypeOK, PollStates, UpdateStates
<1>4. FlagsReachRecovery'
  BY DEF TypeOK, Holders, FlagsReachRecovery
<1>5. TransferKeepsFlags'
  BY DEF TypeOK, Holders, TransferKeepsFlags
<1>6. FlagsReachReader'
  BY DEF TypeOK, Holders, TransferKeepsFlags, FlagsReachReader
<1>7. CountsCover'
  BY DEF TypeOK, CountsCover, CountsAddUp
<1>8. PollingGoesOn'
  BY DEF TypeOK, PollingGoesOn, CancelledIsOff
<1>9. CancelledIsOff'
  BY DEF TypeOK, CancelledIsOff
<1> QED
  BY <1>10, <1>3, <1>4, <1>5, <1>6, <1>7, <1>8, <1>9

(* What is copied is not due any more.                                     *)
LEMMA CopyInvariant ==
  ASSUME IInv, Copy
  PROVE  IInv'
<1> USE DiagnosticsAssumption DEF IInv, Copy, Unlock
<1>1. TypeOK'
  <2>1. poll' \in PollStates
    <3>1. CASE UNCHANGED poll
      BY <3>1 DEF TypeOK, PollStates
    <3>2. CASE Unlock
      BY <3>2, UnlockKeeps
    <3> QED
      BY <3>1, <3>2
  <2>2. update' \in UpdateStates
    BY DEF TypeOK, Holders, UpdateStates
  <2>3. /\ register' \in [cycles : 0 .. FieldMax, flags : SUBSET Rules]
        /\ diag' \in [cycles : 0 .. WordMax, flags : SUBSET Rules]
        /\ diagLock' \in Users \cup {None}
        /\ transfer' \in [by : Users \cup {Tick, None}, raw : SUBSET Rules,
                          data : SUBSET Rules]
        /\ tick' \in [at : {"idle", "or", "get"}, rules : SUBSET Rules]
    BY DEF TypeOK, Holders
  <2>4. unread' \in 0 .. Many
    BY DEF TypeOK, CountsCover
  <2>5. /\ cache' \in SUBSET Rules /\ owed' \in SUBSET Rules
        /\ due' \in SUBSET Rules /\ overwritten' \in SUBSET Rules
    BY DEF TypeOK
  <2> QED
    BY <2>1, <2>2, <2>3, <2>4, <2>5 DEF TypeOK, PollStates, UpdateStates
<1>2. Holders'
  BY DEF TypeOK, Holders
<1>3. FlagsReachRecovery'
  BY DEF TypeOK, Holders, FlagsReachRecovery
<1>4. TransferKeepsFlags'
  BY DEF TypeOK, Holders, TransferKeepsFlags
<1>5. FlagsReachReader'
  BY DEF TypeOK, Holders, TransferKeepsFlags, FlagsReachReader
<1>6. CountsCover'
  BY DEF TypeOK, CountsCover, CountsAddUp
<1>7. PollingGoesOn'
  BY DEF TypeOK, PollingGoesOn, CancelledIsOff
<1>8. CancelledIsOff'
  BY DEF TypeOK, CancelledIsOff
<1> QED
  BY <1>1, <1>2, <1>3, <1>4, <1>5, <1>6, <1>7, <1>8

(* A reset takes flags stored since the copy, which are then overwritten.  *)
LEMMA ResetInvariant ==
  ASSUME IInv, Reset
  PROVE  IInv'
<1> USE DiagnosticsAssumption DEF IInv, Reset, ResetDiag, Unlock
<1>1. TypeOK'
  <2>1. poll' \in PollStates
    BY DEF TypeOK, Holders, PollStates
  <2>2. update' \in UpdateStates
    BY DEF TypeOK, Holders, UpdateStates
  <2>3. /\ register' \in [cycles : 0 .. FieldMax, flags : SUBSET Rules]
        /\ diag' \in [cycles : 0 .. WordMax, flags : SUBSET Rules]
        /\ diagLock' \in Users \cup {None}
        /\ transfer' \in [by : Users \cup {Tick, None}, raw : SUBSET Rules,
                          data : SUBSET Rules]
        /\ tick' \in [at : {"idle", "or", "get"}, rules : SUBSET Rules]
    BY DEF TypeOK, Holders
  <2>4. unread' \in 0 .. Many
    BY DEF TypeOK, CountsCover
  <2>5. /\ cache' \in SUBSET Rules /\ owed' \in SUBSET Rules
        /\ due' \in SUBSET Rules /\ overwritten' \in SUBSET Rules
    BY DEF TypeOK
  <2> QED
    BY <2>1, <2>2, <2>3, <2>4, <2>5 DEF TypeOK, PollStates, UpdateStates
<1>2. Holders'
  BY DEF TypeOK, Holders
<1>3. FlagsReachRecovery'
  BY DEF TypeOK, Holders, FlagsReachRecovery
<1>4. TransferKeepsFlags'
  BY DEF TypeOK, Holders, TransferKeepsFlags
<1>5. FlagsReachReader'
  BY DEF TypeOK, Holders, TransferKeepsFlags, FlagsReachReader
<1>6. CountsCover'
  BY DEF TypeOK, CountsCover, CountsAddUp
<1>7. PollingGoesOn'
  BY DEF TypeOK, PollingGoesOn, CancelledIsOff
<1>8. CancelledIsOff'
  BY DEF TypeOK, CancelledIsOff
<1> QED
  BY <1>1, <1>2, <1>3, <1>4, <1>5, <1>6, <1>7, <1>8

(* A time of zero is set before the work is cancelled.                     *)
LEMMA SetPollTimeInvariant ==
  ASSUME IInv, SetPollTime
  PROVE  IInv'
<1> USE DiagnosticsAssumption DEF IInv, SetPollTime
<1>1. TypeOK'
  <2>1. poll' \in PollStates
    BY DEF TypeOK, Holders, PollStates
  <2>2. update' \in UpdateStates
    BY DEF TypeOK, Holders, UpdateStates
  <2>3. /\ register' \in [cycles : 0 .. FieldMax, flags : SUBSET Rules]
        /\ diag' \in [cycles : 0 .. WordMax, flags : SUBSET Rules]
        /\ diagLock' \in Users \cup {None}
        /\ transfer' \in [by : Users \cup {Tick, None}, raw : SUBSET Rules,
                          data : SUBSET Rules]
        /\ tick' \in [at : {"idle", "or", "get"}, rules : SUBSET Rules]
    BY DEF TypeOK, Holders
  <2>4. unread' \in 0 .. Many
    BY DEF TypeOK, CountsCover
  <2>5. /\ cache' \in SUBSET Rules /\ owed' \in SUBSET Rules
        /\ due' \in SUBSET Rules /\ overwritten' \in SUBSET Rules
    BY DEF TypeOK
  <2> QED
    BY <2>1, <2>2, <2>3, <2>4, <2>5 DEF TypeOK, PollStates, UpdateStates
<1>2. Holders'
  BY DEF TypeOK, Holders
<1>3. FlagsReachRecovery'
  BY DEF TypeOK, Holders, FlagsReachRecovery
<1>4. TransferKeepsFlags'
  BY DEF TypeOK, Holders, TransferKeepsFlags
<1>5. FlagsReachReader'
  BY DEF TypeOK, Holders, TransferKeepsFlags, FlagsReachReader
<1>6. CountsCover'
  BY DEF TypeOK, CountsCover, CountsAddUp
<1>7. PollingGoesOn'
  BY DEF TypeOK, PollingGoesOn, CancelledIsOff
<1>8. CancelledIsOff'
  BY DEF TypeOK, CancelledIsOff
<1> QED
  BY <1>1, <1>2, <1>3, <1>4, <1>5, <1>6, <1>7, <1>8

(* The work is queued for a time that was set.                             *)
LEMMA StartPollingInvariant ==
  ASSUME IInv, StartPolling
  PROVE  IInv'
<1> USE DiagnosticsAssumption DEF IInv, StartPolling
<1>1. TypeOK'
  BY DEF TypeOK
<1>2. Holders'
  BY DEF TypeOK, Holders
<1>3. FlagsReachRecovery'
  BY DEF TypeOK, Holders, FlagsReachRecovery
<1>4. TransferKeepsFlags'
  BY DEF TypeOK, Holders, TransferKeepsFlags
<1>5. FlagsReachReader'
  BY DEF TypeOK, Holders, TransferKeepsFlags, FlagsReachReader
<1>6. CountsCover'
  BY DEF TypeOK, CountsCover, CountsAddUp
<1>7. PollingGoesOn'
  BY DEF TypeOK, PollingGoesOn, CancelledIsOff
<1>8. CancelledIsOff'
  BY DEF TypeOK, CancelledIsOff
<1> QED
  BY <1>1, <1>2, <1>3, <1>4, <1>5, <1>6, <1>7, <1>8

(* Cancelling waits for the work to end and there is no poll time.         *)
LEMMA CancelPollingInvariant ==
  ASSUME IInv, CancelPolling
  PROVE  IInv'
<1> USE DiagnosticsAssumption DEF IInv, CancelPolling
<1>1. TypeOK'
  BY DEF TypeOK
<1>2. Holders'
  BY DEF TypeOK, Holders
<1>3. FlagsReachRecovery'
  BY DEF TypeOK, Holders, FlagsReachRecovery
<1>4. TransferKeepsFlags'
  BY DEF TypeOK, Holders, TransferKeepsFlags
<1>5. FlagsReachReader'
  BY DEF TypeOK, Holders, TransferKeepsFlags, FlagsReachReader
<1>6. CountsCover'
  BY DEF TypeOK, CountsCover, CountsAddUp
<1>7. PollingGoesOn'
  BY DEF TypeOK, PollingGoesOn, CancelledIsOff
<1>8. CancelledIsOff'
  BY DEF TypeOK, CancelledIsOff
<1> QED
  BY <1>1, <1>2, <1>3, <1>4, <1>5, <1>6, <1>7, <1>8

(* The recovery reads the flags as an update does.                         *)
LEMMA TickReadsFlagsInvariant ==
  ASSUME IInv, NEW r \in Rules, TickReadsFlags(r)
  PROVE  IInv'
<1> USE DiagnosticsAssumption DEF IInv, TickReadsFlags, ReadFlags
<1>1. TypeOK'
  BY DEF TypeOK
<1>2. Holders'
  BY DEF TypeOK, Holders
<1>3. FlagsReachRecovery'
  BY DEF TypeOK, Holders, FlagsReachRecovery
<1>4. TransferKeepsFlags'
  BY DEF TypeOK, Holders, TransferKeepsFlags
<1>5. FlagsReachReader'
  BY DEF TypeOK, Holders, TransferKeepsFlags, FlagsReachReader
<1>6. CountsCover'
  BY DEF TypeOK, CountsCover, CountsAddUp
<1>7. PollingGoesOn'
  BY DEF TypeOK, PollingGoesOn, CancelledIsOff
<1>8. CancelledIsOff'
  BY DEF TypeOK, CancelledIsOff
<1> QED
  BY <1>1, <1>2, <1>3, <1>4, <1>5, <1>6, <1>7, <1>8

(* The recovery stores the flags of all rules for everybody.               *)
LEMMA TickOrsFlagsInvariant ==
  ASSUME IInv, TickOrsFlags
  PROVE  IInv'
<1> USE DiagnosticsAssumption DEF IInv, TickOrsFlags, OrFlags
<1>1. TypeOK'
  BY DEF TypeOK
<1>2. Holders'
  BY DEF TypeOK, Holders
<1>3. FlagsReachRecovery'
  BY DEF TypeOK, Holders, FlagsReachRecovery
<1>4. TransferKeepsFlags'
  BY DEF TypeOK, Holders, TransferKeepsFlags
<1>5. FlagsReachReader'
  BY DEF TypeOK, Holders, TransferKeepsFlags, FlagsReachReader
<1>6. CountsCover'
  BY DEF TypeOK, CountsCover, CountsAddUp
<1>7. PollingGoesOn'
  BY DEF TypeOK, PollingGoesOn, CancelledIsOff
<1>8. CancelledIsOff'
  BY DEF TypeOK, CancelledIsOff
<1> QED
  BY <1>1, <1>2, <1>3, <1>4, <1>5, <1>6, <1>7, <1>8

(* Only the flag of one rule is taken, and what came since stays owed.     *)
LEMMA TickGetsFlagInvariant ==
  ASSUME IInv, TickGetsFlag
  PROVE  IInv'
<1> USE DiagnosticsAssumption DEF IInv, TickGetsFlag
<1>1. TypeOK'
  BY DEF TypeOK
<1>2. Holders'
  BY DEF TypeOK, Holders
<1>3. FlagsReachRecovery'
  BY DEF TypeOK, Holders, FlagsReachRecovery
<1>4. TransferKeepsFlags'
  BY DEF TypeOK, Holders, TransferKeepsFlags
<1>5. FlagsReachReader'
  BY DEF TypeOK, Holders, TransferKeepsFlags, FlagsReachReader
<1>6. CountsCover'
  BY DEF TypeOK, CountsCover, CountsAddUp
<1>7. PollingGoesOn'
  BY DEF TypeOK, PollingGoesOn, CancelledIsOff
<1>8. CancelledIsOff'
  BY DEF TypeOK, CancelledIsOff
<1> QED
  BY <1>1, <1>2, <1>3, <1>4, <1>5, <1>6, <1>7, <1>8

-----------------------------------------------------------------------------
(* Every step keeps the invariant.                                         *)
LEMMA NextInvariant ==
  ASSUME IInv, [Next]_vars
  PROVE  IInv'
<1>1. ASSUME NEW missing \in SUBSET Rules, Cycle(missing) PROVE IInv'
  BY <1>1, CycleInvariant
<1>2. ASSUME NEW p \in Readers, BeginRead(p) \/ BeginWrite(p) \/ Rearm(p)
      PROVE  IInv'
  BY <1>2, BeginReadInvariant, BeginWriteInvariant, RearmInvariant
<1>3. CASE UpdateSteps
  BY <1>3, UpdateCyclesInvariant, UpdateReadsFlagsInvariant,
     UpdateOrsFlagsInvariant, UpdateAgainInvariant, CopyInvariant,
     ResetInvariant
  DEF UpdateSteps
<1>4. CASE PollSteps
  BY <1>4, PollStartsInvariant, BeginPollInvariant, RequeueInvariant
  DEF PollSteps
<1>5. CASE SetPollTime \/ StartPolling \/ CancelPolling
  BY <1>5, SetPollTimeInvariant, StartPollingInvariant,
     CancelPollingInvariant
<1>6. ASSUME NEW r \in Rules, TickReadsFlags(r) PROVE IInv'
  BY <1>6, TickReadsFlagsInvariant
<1>7. CASE TickOrsFlags \/ TickGetsFlag
  BY <1>7, TickOrsFlagsInvariant, TickGetsFlagInvariant
<1>8. CASE UNCHANGED vars
  BY <1>8 DEF vars, IInv, TypeOK, Holders, FlagsReachRecovery,
     TransferKeepsFlags, FlagsReachReader, CountsCover, CountsAddUp,
     PollingGoesOn, CancelledIsOff
<1> QED
  BY <1>1, <1>2, <1>3, <1>4, <1>5, <1>6, <1>7, <1>8 DEF Next

(* The invariant holds in every reachable state.                           *)
THEOREM InvariantHolds == Spec => []IInv
<1>1. Init => IInv
  BY InitInvariant
<1>2. IInv /\ [Next]_vars => IInv'
  BY NextInvariant
<1> QED
  BY <1>1, <1>2, PTL DEF Spec

(* Every variable of the diagnostics keeps its type: no counter leaves its *)
(* word and no update is repeated beyond max_diag_retry.                   *)
THEOREM TypesHold == Spec => []TypeOK
<1>1. IInv => TypeOK
  BY DEF IInv
<1> QED
  BY <1>1, InvariantHolds, PTL

(* For any rules and readers: a missing frame reaches the recovery         *)
(* although reading its flag clears it, whoever reads it.                  *)
THEOREM MissingFramesReachRecovery == Spec => []FlagsReachRecovery
<1>1. IInv => FlagsReachRecovery
  BY DEF IInv
<1> QED
  BY <1>1, InvariantHolds, PTL

(* For any rules and readers: a missing frame reaches a reader of the      *)
(* diagnostics unless a reset overtakes the recovery that stores it.       *)
THEOREM MissingFramesReachReader == Spec => []FlagsReachReader
<1>1. IInv => FlagsReachReader
  BY DEF IInv
<1> QED
  BY <1>1, InvariantHolds, PTL

(* For any width of field and word: no cycle is lost or counted twice      *)
(* before one of them overflows.                                           *)
THEOREM CyclesAreCounted == Spec => []CountsAddUp
<1>1. IInv => CountsAddUp
  BY DEF IInv, CountsCover
<1> QED
  BY <1>1, InvariantHolds, PTL

(* For any number of readers that restart the timer: while there is a poll *)
(* time the work is queued, running or about to be queued.                 *)
THEOREM PollingIsKept == Spec => []PollingGoesOn
<1>1. IInv => PollingGoesOn
  BY DEF IInv
<1> QED
  BY <1>1, InvariantHolds, PTL
=============================================================================
