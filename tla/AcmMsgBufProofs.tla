---------------------------- MODULE AcmMsgBufProofs ----------------------------
(***************************************************************************)
(* Proofs about AcmMsgBuf, for any number of processes, buffers, words of  *)
(* the lock control vector and configurations: the vector says who holds   *)
(* which buffer, and no overwritten message is lost, whatever the          *)
(* processes, the hardware and the reconfiguration do between two accesses *)
(* to a register.  The configurations lay the buffers out one after the    *)
(* other, and what a reconfiguration writes in any number of steps leaves  *)
(* each buffer that a process reads through its device with the memory of  *)
(* that buffer.                                                            *)
(***************************************************************************)
EXTENDS AcmMsgBuf, FiniteSetTheorems, NaturalsInduction, WellFoundedInduction, TLAPS

-----------------------------------------------------------------------------
(* The inductive invariant.                                                *)

(* What a process does is a record with these fields.                      *)
FieldNames ==
    {"call", "at", "b", "mask", "vector", "size", "counted", "data", "ret", "again", "disturbed"}

Shaped == DOMAIN proc = Procs /\ \A p \in Procs : DOMAIN proc[p] = FieldNames

Counted ==
    /\ flag \in [Bufs -> BOOLEAN]
    /\ overwritten \in [Bufs -> Nat] /\ raised \in [Bufs -> Nat]
    /\ reported \in [Bufs -> Nat] /\ discarded \in [Bufs -> Nat]

(* A process changes the bits of buffers of its own.                       *)
ProcTyped(p) ==
    /\ holds[p] \subseteq Owns[p]
    /\ proc[p].mask \subseteq Owns[p]
    /\ ~InLockCall(p) => proc[p].mask = {}
    /\ proc[p].at \in {"read_ctl", "write_ctl"} => proc[p].b \in Words
    /\ InLockCall(p) => proc[p].at \in {"lock_ctl", "read_ctl", "write_ctl"}
    /\ proc[p].at = "write_ctl" => InLockCall(p)
    /\ proc[p].at \in {"lock_ctl", "read_ctl", "masked"} => InLockCall(p) \/ proc[p].call = "vector"
    /\ proc[p].again => proc[p].call = "unlock"

CallTyped ==
    /\ lock_ctl \subseteq Bufs
    /\ holds \in [Procs -> SUBSET Bufs]
    /\ \A p \in Procs : ProcTyped(p)

(* The two mutexes.                                                        *)
LockExclusive ==
    \A p \in Procs : proc[p].at \in {"read_ctl", "write_ctl", "masked"} => lock_holder = p

MsgExclusive ==
    \A p \in Procs : proc[p].at \in {"status", "count", "copy"} => msg_holder = p

(* What the holder of lock_ctl_lock has read is still so, and what it has  *)
(* to write is there up to the word it is at.                              *)
ReadSoFar ==
    \A p \in Procs : At(p, "read_ctl") =>
      proc[p].vector = { b \in lock_ctl : WordOf(b) < proc[p].b }

WrittenSoFar ==
    \A p \in Procs : At(p, "write_ctl") =>
      /\ proc[p].vector \subseteq Bufs
      /\ lock_ctl = { b \in NewVector(p) : WordOf(b) < proc[p].b }
                      \cup { b \in proc[p].vector : WordOf(b) >= proc[p].b }

(* But for the buffers it works on, a process holds what is locked of its  *)
(* own; those it unlocks it holds no longer.                               *)
HeldIsLocked ==
    \A p \in Procs :
      /\ (lock_ctl \cap Owns[p]) \ proc[p].mask = holds[p] \ proc[p].mask
      /\ proc[p].call = "unlock" => holds[p] \cap proc[p].mask = {}

LockInv == CallTyped /\ LockExclusive /\ ReadSoFar /\ WrittenSoFar /\ HeldIsLocked

CountInv == Counted /\ MsgExclusive /\ OverwrittenConserved

IInv == Shaped /\ LockInv /\ CountInv

-----------------------------------------------------------------------------
(* What the steps have in common.                                          *)

(* A process goes on as it was, as far as the invariant looks at it.       *)
Same(q) ==
    /\ proc'[q].call = proc[q].call /\ proc'[q].at = proc[q].at /\ proc'[q].b = proc[q].b
    /\ proc'[q].mask = proc[q].mask /\ proc'[q].vector = proc[q].vector
    /\ proc'[q].counted = proc[q].counted /\ proc'[q].again = proc[q].again

LockSteps == {"lock_ctl", "read_ctl", "write_ctl", "masked"}
MsgSteps == {"status", "count", "copy"}

(* A process that does not lock goes on, without locking.                  *)
Unlocking(q) ==
    /\ proc[q].mask = {} /\ proc'[q].mask = {}
    /\ proc'[q].at \notin LockSteps /\ ~InLockCall(q)' /\ ~proc'[q].again

(* Neither before nor after the step a process holds msgbuf_lock.          *)
Outside(q) == proc[q].at \notin MsgSteps /\ proc'[q].at \notin MsgSteps

(* A reconfiguration only notes that it disturbs a call.                   *)
LEMMA DisturbSame ==
  ASSUME Shaped, Disturb
  PROVE  Shaped' /\ \A q \in Procs : Same(q)
<1>1. proc' = [q \in Procs |-> IF proc[q] = IdleProc THEN IdleProc ELSE [proc[q] EXCEPT !.disturbed = TRUE]]
  BY DEF Disturb
<1>2. ASSUME NEW q \in Procs
      PROVE  DOMAIN proc'[q] = FieldNames /\ Same(q)
  <2>1. CASE proc[q] = IdleProc
    BY <1>1, <2>1 DEF Same, IdleProc, FieldNames
  <2>2. CASE proc[q] # IdleProc
    <3>1. proc'[q] = [proc[q] EXCEPT !.disturbed = TRUE] /\ DOMAIN proc[q] = FieldNames
      BY <1>1, <2>2 DEF Shaped
    <3>2. QED
      BY <3>1 DEF FieldNames, Same
  <2>3. QED
    BY <2>1, <2>2
<1>3. QED
  BY <1>1, <1>2 DEF Shaped

(* A step that does not touch the locks keeps what is said of them.        *)
LEMMA LockInvKept ==
  ASSUME LockInv, UNCHANGED <<lock_ctl, lock_holder, holds>>,
         \A q \in Procs : Same(q) \/ Unlocking(q)
  PROVE  LockInv'
<1>1. CallTyped' /\ LockExclusive'
  BY DEF LockInv, CallTyped, ProcTyped, LockExclusive, Same, Unlocking, LockSteps, InLockCall
<1>2. ReadSoFar' /\ WrittenSoFar'
  BY DEF LockInv, ReadSoFar, WrittenSoFar, Same, Unlocking, LockSteps, At, NewVector
<1>3. HeldIsLocked'
  BY DEF LockInv, HeldIsLocked, Same, Unlocking, InLockCall
<1>4. QED
  BY <1>1, <1>2, <1>3 DEF LockInv

(* Those who have read OVERWRITTEN of b and not counted it yet.            *)
Counting(b) == {p \in Procs : proc[p].b = b /\ At(p, "count") /\ ~proc[p].counted}

(* A step that does not touch the counters keeps what is said of them.     *)
LEMMA CountInvKept ==
  ASSUME CountInv, UNCHANGED <<flag, overwritten, raised, reported, discarded>>, MsgExclusive',
         \A q \in Procs : Same(q) \/ (proc[q].at # "count" /\ proc'[q].at # "count")
  PROVE  CountInv'
<1>1. \A b \in Bufs : Counting(b)' = Counting(b)
  BY DEF Counting, At, Same
<1>2. \A b \in Bufs : InFlight(b)' = InFlight(b)
  BY <1>1 DEF InFlight, Counting
<1>3. QED
  BY <1>2 DEF CountInv, Counted, OverwrittenConserved

(* A step that leaves msgbuf_lock alone, too.                              *)
LEMMA MsgInvKept ==
  ASSUME CountInv, UNCHANGED <<flag, overwritten, raised, reported, discarded, msg_holder>>,
         \A q \in Procs : Same(q) \/ Outside(q)
  PROVE  CountInv'
<1>1. MsgExclusive'
  BY DEF CountInv, MsgExclusive, Same, Outside, MsgSteps
<1>2. \A q \in Procs : Same(q) \/ (proc[q].at # "count" /\ proc'[q].at # "count")
  BY DEF Outside, MsgSteps
<1>3. QED
  BY <1>1, <1>2, CountInvKept

-----------------------------------------------------------------------------
(* The steps of reading and writing devices and aliases.                   *)

(* What is begun is a call.                                                *)
LEMMA BegunIs ==
  ASSUME Shaped, NEW p \in Procs, NEW kind, NEW b, NEW mask, NEW step, Begin(p, kind, b, mask, step)
  PROVE  /\ Shaped' /\ proc[p] = IdleProc /\ \A q \in Procs \ {p} : proc'[q] = proc[q]
         /\ proc'[p].call = kind /\ proc'[p].at = step /\ proc'[p].b = b /\ proc'[p].mask = mask
         /\ proc'[p].counted = TRUE /\ (proc'[p].again <=> kind = "unlock")
  BY DEF Begin, Shaped, FieldNames, IdleProc

(* A process that goes on at another step, or returns.                     *)
LEMMA MovedIs ==
  ASSUME Shaped, NEW p \in Procs, NEW step, GoTo(p, step)
  PROVE  /\ Shaped' /\ \A q \in Procs \ {p} : proc'[q] = proc[q]
         /\ proc'[p].at = step
         /\ proc'[p].call = proc[p].call /\ proc'[p].b = proc[p].b /\ proc'[p].mask = proc[p].mask
         /\ proc'[p].counted = proc[p].counted /\ proc'[p].again = proc[p].again
  BY DEF GoTo, Shaped, FieldNames

(* What is left of a process whose call has ended.                         *)
LEMMA EndedIs ==
  ASSUME Shaped, NEW p \in Procs, proc' = [proc EXCEPT ![p] = IdleProc]
  PROVE  /\ Shaped' /\ \A q \in Procs \ {p} : proc'[q] = proc[q]
         /\ proc'[p].call = "none" /\ proc'[p].at = "idle" /\ proc'[p].b = 0 /\ proc'[p].mask = {}
         /\ proc'[p].counted = TRUE /\ proc'[p].again = FALSE
  BY DEF Shaped, FieldNames, IdleProc

(* A step of one process that neither locks nor counts.                    *)
LEMMA QuietKeeps ==
  ASSUME IInv, NEW p \in Procs, Shaped', \A q \in Procs \ {p} : proc'[q] = proc[q],
         UNCHANGED <<locking, flag, counters, msg_holder>>,
         Unlocking(p), Outside(p)
  PROVE  IInv'
<1>1. \A q \in Procs : q # p => Same(q)
  BY DEF Same
<1>2. UNCHANGED <<lock_ctl, lock_holder, holds, flag, overwritten, raised, reported, discarded, msg_holder>>
  BY DEF locking, counters
<1>3. LockInv'
  <2>1. \A q \in Procs : Same(q) \/ Unlocking(q)
    BY <1>1
  <2>2. QED
    BY <1>2, <2>1, LockInvKept DEF IInv
<1>4. CountInv'
  <2>1. \A q \in Procs : Same(q) \/ Outside(q)
    BY <1>1
  <2>2. QED
    BY <1>2, <2>1, MsgInvKept DEF IInv
<1>5. QED
  BY <1>3, <1>4 DEF IInv

(* A process that is at one of these steps does not lock.                  *)
LEMMA NoLockCall ==
  ASSUME LockInv, NEW p \in Procs, proc[p].at \notin {"lock_ctl", "read_ctl", "write_ctl"}
  PROVE  proc[p].mask = {} /\ ~InLockCall(p) /\ ~proc[p].again
  BY DEF LockInv, CallTyped, ProcTyped, InLockCall

(* A call on a device or an alias begins.                                  *)
LEMMA BeginKeeps ==
  ASSUME IInv, NEW p \in Procs, NEW b \in Bufs,
         BeginAlias(p, b) \/ \E kind \in {"read", "write"} : BeginAccess(p, kind, b)
  PROVE  IInv'
<1>1. PICK kind, step : /\ Begin(p, kind, b, {}, step)
                        /\ kind \in {"alias", "read", "write"} /\ step \in {"name", "returned", "cdev"}
  BY DEF BeginAlias, BeginAccess
<1>2. UNCHANGED <<locking, flag, counters, msg_holder>>
  BY DEF BeginAlias, BeginAccess, hardware
<1>3. Shaped
  BY DEF IInv
<1>4. /\ Shaped' /\ proc[p] = IdleProc /\ \A q \in Procs \ {p} : proc'[q] = proc[q]
      /\ proc'[p].call = kind /\ proc'[p].at = step /\ proc'[p].mask = {}
      /\ proc'[p].counted = TRUE /\ (proc'[p].again <=> kind = "unlock")
  BY <1>1, <1>3, BegunIs
<1>5. proc[p].mask = {} /\ proc[p].at = "idle"
  BY <1>4 DEF IdleProc
<1>6. Unlocking(p) /\ Outside(p)
  BY <1>1, <1>4, <1>5 DEF Unlocking, Outside, LockSteps, MsgSteps, InLockCall
<1>7. QED
  BY <1>2, <1>4, <1>6, QuietKeeps

(* A call goes on up to the lock of the buffers, or ends.                  *)
LEMMA ProceedKeeps ==
  ASSUME IInv, NEW p \in Procs,
         EnterDevice(p) \/ ReadDescriptor(p) \/ ReadAlias(p) \/ Return(p)
  PROVE  IInv'
<1>1. /\ proc[p].at \in {"cdev", "desc", "name", "returned"}
      /\ UNCHANGED <<locking, flag, counters, msg_holder>>
  BY DEF EnterDevice, ReadDescriptor, ReadAlias, Return, At, hardware
<1>2. Shaped /\ LockInv
  BY DEF IInv
<1>3. proc[p].mask = {} /\ ~InLockCall(p) /\ ~proc[p].again
  BY <1>1, <1>2, NoLockCall
<1>4. /\ Shaped' /\ \A q \in Procs \ {p} : proc'[q] = proc[q]
      /\ proc'[p].at \in {"desc", "msgbuf", "returned", "idle"}
      /\ proc'[p].call \in {proc[p].call, "none"} /\ proc'[p].mask = {} /\ ~proc'[p].again
  <2>1. CASE Ended(p) \/ Return(p)
    BY <1>2, <2>1, EndedIs DEF Ended, Return
  <2>2. CASE GoTo(p, "msgbuf")
    BY <1>2, <1>3, <2>2, MovedIs
  <2>3. CASE EnterDevice(p) /\ ~Ended(p)
    BY <1>2, <1>3, <2>3 DEF EnterDevice, Shaped, FieldNames
  <2>4. CASE ReadAlias(p)
    BY <1>2, <1>3, <2>4 DEF ReadAlias, Shaped, FieldNames
  <2>5. QED
    BY <2>1, <2>2, <2>3, <2>4 DEF EnterDevice, ReadDescriptor
<1>5. Unlocking(p) /\ Outside(p)
  BY <1>1, <1>3, <1>4 DEF Unlocking, Outside, LockSteps, MsgSteps, InLockCall
<1>6. QED
  BY <1>1, <1>4, <1>5, QuietKeeps

-----------------------------------------------------------------------------
(* The steps that hold msgbuf_lock.                                        *)

(* Nobody but the holder of msgbuf_lock is at a step that needs it.        *)
LEMMA OneHolder ==
  ASSUME MsgExclusive, NEW p \in Procs, proc[p].at \in MsgSteps
  PROVE  msg_holder = p /\ \A q \in Procs \ {p} : proc[q].at \notin MsgSteps
  BY DEF MsgExclusive, MsgSteps

(* A step of one process that does not lock.                               *)
LEMMA LockInvOf ==
  ASSUME LockInv, NEW p \in Procs, \A q \in Procs \ {p} : proc'[q] = proc[q],
         UNCHANGED locking, Unlocking(p)
  PROVE  LockInv'
<1>1. \A q \in Procs : Same(q) \/ Unlocking(q)
  BY DEF Same
<1>2. QED
  BY <1>1, LockInvKept DEF locking

(* msgbuf_lock is taken.                                                   *)
LEMMA TakeMsgbufKeeps ==
  ASSUME IInv, NEW p \in Procs, TakeMsgbuf(p)
  PROVE  IInv'
<1>1. /\ proc[p].at = "msgbuf" /\ msg_holder = Nobody /\ msg_holder' = p
      /\ UNCHANGED locking
      /\ UNCHANGED <<flag, overwritten, raised, reported, discarded>>
  BY DEF TakeMsgbuf, At, hardware, counters
<1>2. PICK step \in {"status", "copy"} : GoTo(p, step)
  BY DEF TakeMsgbuf
<1>3. Shaped /\ LockInv /\ CountInv /\ MsgExclusive
  BY DEF IInv, CountInv
<1>4. /\ Shaped' /\ \A q \in Procs \ {p} : proc'[q] = proc[q]
      /\ proc'[p].at = step /\ proc'[p].call = proc[p].call /\ proc'[p].mask = proc[p].mask
      /\ proc'[p].again = proc[p].again
  BY <1>2, <1>3, MovedIs
<1>5. proc[p].mask = {} /\ ~InLockCall(p) /\ ~proc[p].again
  BY <1>1, <1>3, NoLockCall
<1>6. Unlocking(p)
  BY <1>4, <1>5 DEF Unlocking, LockSteps, InLockCall
<1>7. LockInv'
  BY <1>1, <1>3, <1>4, <1>6, LockInvOf
<1>8. MsgExclusive'
  BY <1>1, <1>3, <1>4, NobodyAssumption DEF MsgExclusive
<1>9. \A q \in Procs : Same(q) \/ (proc[q].at # "count" /\ proc'[q].at # "count")
  BY <1>1, <1>4 DEF Same
<1>10. CountInv'
  BY <1>1, <1>3, <1>8, <1>9, CountInvKept
<1>11. QED
  BY <1>4, <1>7, <1>10 DEF IInv

(* A message is copied out of its buffer.                                  *)
LEMMA CopyOutKeeps ==
  ASSUME IInv, NEW p \in Procs, CopyOut(p)
  PROVE  IInv'
<1>1. /\ proc[p].at = "copy" /\ msg_holder' = Nobody
      /\ UNCHANGED locking
      /\ UNCHANGED <<flag, overwritten, raised, reported, discarded>>
  BY DEF CopyOut, At, counters
<1>2. Shaped /\ LockInv /\ CountInv /\ MsgExclusive
  BY DEF IInv, CountInv
<1>3. /\ Shaped' /\ \A q \in Procs \ {p} : proc'[q] = proc[q]
      /\ proc'[p].at = "returned" /\ proc'[p].call = proc[p].call /\ proc'[p].mask = proc[p].mask
      /\ proc'[p].again = proc[p].again
  BY <1>2 DEF CopyOut, Shaped, FieldNames
<1>4. proc[p].mask = {} /\ ~InLockCall(p) /\ ~proc[p].again
  BY <1>1, <1>2, NoLockCall
<1>5. Unlocking(p)
  BY <1>3, <1>4 DEF Unlocking, LockSteps, InLockCall
<1>6. LockInv'
  BY <1>1, <1>2, <1>3, <1>5, LockInvOf
<1>7. \A q \in Procs \ {p} : proc[q].at \notin MsgSteps
  BY <1>1, <1>2, OneHolder DEF MsgSteps
<1>8. MsgExclusive'
  BY <1>3, <1>7 DEF MsgExclusive, MsgSteps
<1>9. \A q \in Procs : Same(q) \/ (proc[q].at # "count" /\ proc'[q].at # "count")
  BY <1>1, <1>3 DEF Same
<1>10. CountInv'
  BY <1>1, <1>2, <1>8, <1>9, CountInvKept
<1>11. QED
  BY <1>3, <1>6, <1>10 DEF IInv

(* Reading the status clears OVERWRITTEN: it is the process now that knows *)
(* of it.                                                                  *)
LEMMA ReadStatusKeeps ==
  ASSUME IInv, NEW p \in Procs, ReadStatus(p)
  PROVE  IInv'
<1>1. /\ proc[p].at = "status" /\ msg_holder' = msg_holder
      /\ flag' = [flag EXCEPT ![proc[p].b] = FALSE]
      /\ UNCHANGED locking
      /\ UNCHANGED <<overwritten, raised, reported, discarded>>
  BY DEF ReadStatus, At, counters
<1>2. Shaped /\ LockInv /\ CountInv /\ MsgExclusive
  BY DEF IInv, CountInv
<1>3. /\ Shaped' /\ \A q \in Procs \ {p} : proc'[q] = proc[q]
      /\ proc'[p].at = "count" /\ proc'[p].call = proc[p].call /\ proc'[p].mask = proc[p].mask
      /\ proc'[p].again = proc[p].again
      /\ proc'[p].b = proc[p].b /\ (proc'[p].counted <=> ~flag[proc[p].b])
  BY <1>2 DEF ReadStatus, Shaped, FieldNames
<1>4. proc[p].mask = {} /\ ~InLockCall(p) /\ ~proc[p].again
  BY <1>1, <1>2, NoLockCall
<1>5. Unlocking(p)
  BY <1>3, <1>4 DEF Unlocking, LockSteps, InLockCall
<1>6. LockInv'
  BY <1>1, <1>2, <1>3, <1>5, LockInvOf
<1>7. msg_holder = p /\ \A q \in Procs \ {p} : proc[q].at \notin MsgSteps
  BY <1>1, <1>2, OneHolder DEF MsgSteps
<1>8. MsgExclusive'
  BY <1>1, <1>3, <1>7 DEF MsgExclusive, MsgSteps
<1>9. ASSUME NEW b \in Bufs
      PROVE  /\ flag'[b] \in BOOLEAN
             /\ raised'[b] = (IF flag'[b] THEN 1 ELSE 0) + InFlight(b)' + overwritten'[b] + reported'[b] + discarded'[b]
  <2>1. /\ raised[b] = (IF flag[b] THEN 1 ELSE 0) + InFlight(b) + overwritten[b] + reported[b] + discarded[b]
        /\ flag \in [Bufs -> BOOLEAN] /\ overwritten[b] \in Nat /\ reported[b] \in Nat /\ discarded[b] \in Nat
    BY <1>2 DEF CountInv, Counted, OverwrittenConserved
  <2>2. InFlight(b) = 0
    <3>1. Counting(b) = {}
      BY <1>1, <1>7 DEF Counting, At, MsgSteps
    <3>2. QED
      BY <3>1, FS_EmptySet DEF InFlight, Counting
  <2>3. CASE b = proc[p].b /\ flag[b]
    <3>1. Counting(b)' = {p}
      BY <1>3, <1>7, <2>3 DEF Counting, At, MsgSteps
    <3>2. InFlight(b)' = 1
      BY <3>1, FS_Singleton DEF InFlight, Counting
    <3>3. flag'[b] = FALSE
      BY <1>1, <2>1, <2>3
    <3>4. /\ raised'[b] = raised[b] /\ overwritten'[b] = overwritten[b]
          /\ reported'[b] = reported[b] /\ discarded'[b] = discarded[b]
      BY <1>1
    <3>5. raised[b] = 1 + 0 + overwritten[b] + reported[b] + discarded[b]
      BY <2>1, <2>2, <2>3
    <3>6. raised[b] = 0 + 1 + overwritten[b] + reported[b] + discarded[b]
      BY <2>1, <3>5
    <3>7. (IF flag'[b] THEN 1 ELSE 0) = 0 /\ flag'[b] \in BOOLEAN
      BY <3>3
    <3>8. QED
      BY <3>2, <3>4, <3>6, <3>7
  <2>4. CASE ~(b = proc[p].b /\ flag[b])
    <3>1. Counting(b)' = {}
      BY <1>3, <1>7, <2>4 DEF Counting, At, MsgSteps
    <3>2. InFlight(b)' = 0
      BY <3>1, FS_EmptySet DEF InFlight, Counting
    <3>3. flag'[b] = flag[b]
      BY <1>1, <2>1, <2>4
    <3>4. QED
      BY <1>1, <2>1, <2>2, <3>2, <3>3
  <2>5. QED
    BY <2>3, <2>4
<1>10. CountInv'
  <2>1. flag' \in [Bufs -> BOOLEAN]
    BY <1>1, <1>2 DEF CountInv, Counted
  <2>2. QED
    BY <1>1, <1>2, <1>8, <1>9, <2>1 DEF CountInv, Counted, OverwrittenConserved
<1>11. QED
  BY <1>3, <1>6, <1>10 DEF IInv

(* What a process knows of is counted.                                     *)
LEMMA CountOverwrittenKeeps ==
  ASSUME IInv, NEW p \in Procs, CountOverwritten(p)
  PROVE  IInv'
<1>1. /\ proc[p].at = "count"
      /\ overwritten' = [overwritten EXCEPT ![proc[p].b] = IF proc[p].counted THEN @ ELSE @ + 1]
      /\ UNCHANGED locking
      /\ UNCHANGED <<flag, raised, reported, discarded>>
      /\ \/ GoTo(p, "copy") /\ msg_holder' = msg_holder
         \/ Ended(p) /\ msg_holder' = Nobody
  BY DEF CountOverwritten, At, hardware, MsgHolderAfter
<1>2. Shaped /\ LockInv /\ CountInv /\ MsgExclusive
  BY DEF IInv, CountInv
<1>3. proc[p].mask = {} /\ ~InLockCall(p) /\ ~proc[p].again
  BY <1>1, <1>2, NoLockCall
<1>4. /\ Shaped' /\ \A q \in Procs \ {p} : proc'[q] = proc[q]
      /\ (proc'[p].at = "copy" /\ msg_holder' = msg_holder) \/ proc'[p].at = "idle"
      /\ proc'[p].call \in {proc[p].call, "none"} /\ proc'[p].mask = {} /\ ~proc'[p].again
  <2>1. CASE Ended(p)
    BY <1>2, <2>1, EndedIs DEF Ended
  <2>2. CASE GoTo(p, "copy") /\ msg_holder' = msg_holder
    BY <1>2, <1>3, <2>2, MovedIs
  <2>3. QED
    BY <1>1, <2>1, <2>2
<1>5. Unlocking(p)
  BY <1>3, <1>4 DEF Unlocking, LockSteps, InLockCall
<1>6. LockInv'
  BY <1>1, <1>2, <1>4, <1>5, LockInvOf
<1>7. msg_holder = p /\ \A q \in Procs \ {p} : proc[q].at \notin MsgSteps
  BY <1>1, <1>2, OneHolder DEF MsgSteps
<1>8. MsgExclusive'
  BY <1>4, <1>7 DEF MsgExclusive, MsgSteps
<1>9. overwritten \in [Bufs -> Nat]
  BY <1>2 DEF CountInv, Counted
<1>10. overwritten' \in [Bufs -> Nat]
  <2>1. CASE proc[p].counted
    BY <1>1, <1>9, <2>1
  <2>2. CASE ~proc[p].counted
    <3>1. overwritten' = [overwritten EXCEPT ![proc[p].b] = overwritten[proc[p].b] + 1]
      BY <1>1, <2>2
    <3>2. ASSUME NEW b \in Bufs PROVE overwritten'[b] \in Nat
      BY <1>9, <3>1
    <3>3. QED
      BY <1>9, <3>1, <3>2
  <2>3. QED
    BY <2>1, <2>2
<1>11. ASSUME NEW b \in Bufs
       PROVE  raised'[b] = (IF flag'[b] THEN 1 ELSE 0) + InFlight(b)' + overwritten'[b] + reported'[b] + discarded'[b]
  <2>1. /\ raised[b] = (IF flag[b] THEN 1 ELSE 0) + InFlight(b) + overwritten[b] + reported[b] + discarded[b]
        /\ overwritten[b] \in Nat /\ reported[b] \in Nat /\ discarded[b] \in Nat
    BY <1>2 DEF CountInv, Counted, OverwrittenConserved
  <2>2. InFlight(b)' = 0
    <3>1. Counting(b)' = {}
      BY <1>4, <1>7 DEF Counting, At, MsgSteps
    <3>2. QED
      BY <3>1, FS_EmptySet DEF InFlight, Counting
  <2>3. CASE b = proc[p].b /\ ~proc[p].counted
    <3>1. Counting(b) = {p}
      BY <1>1, <1>7, <2>3 DEF Counting, At, MsgSteps
    <3>2. InFlight(b) = 1
      BY <3>1, FS_Singleton DEF InFlight, Counting
    <3>3. overwritten'[b] = overwritten[b] + 1
      BY <1>1, <1>9, <2>3
    <3>4. QED
      BY <1>1, <2>1, <2>2, <3>2, <3>3
  <2>4. CASE ~(b = proc[p].b /\ ~proc[p].counted)
    <3>1. Counting(b) = {}
      BY <1>1, <1>7, <2>4 DEF Counting, At, MsgSteps
    <3>2. InFlight(b) = 0
      BY <3>1, FS_EmptySet DEF InFlight, Counting
    <3>3. overwritten'[b] = overwritten[b]
      BY <1>1, <1>9, <2>4
    <3>4. QED
      BY <1>1, <2>1, <2>2, <3>2, <3>3
  <2>5. QED
    BY <2>3, <2>4
<1>12. CountInv'
  BY <1>1, <1>2, <1>8, <1>10, <1>11 DEF CountInv, Counted, OverwrittenConserved
<1>13. QED
  BY <1>4, <1>6, <1>12 DEF IInv

(* At most one process knows of an overwritten message of a buffer that is *)
(* not counted.                                                            *)
LEMMA InFlightOnce ==
  ASSUME MsgExclusive, NEW b
  PROVE  InFlight(b) \in {0, 1}
<1>1. CASE Counting(b) = {}
  BY <1>1, FS_EmptySet DEF InFlight, Counting
<1>2. CASE Counting(b) # {}
  <2>1. PICK p \in Procs : p \in Counting(b)
    BY <1>2 DEF Counting
  <2>2. \A q \in Procs \ {p} : proc[q].at \notin MsgSteps
    BY <2>1, OneHolder DEF Counting, At, MsgSteps
  <2>3. Counting(b) = {p}
    BY <2>1, <2>2 DEF Counting, At, MsgSteps
  <2>4. QED
    BY <2>3, FS_Singleton DEF InFlight, Counting
<1>3. QED
  BY <1>1, <1>2

(* A step after which the same processes are counting.                     *)
LEMMA InFlightSame ==
  ASSUME \A q \in Procs : Same(q) \/ (proc[q].at # "count" /\ proc'[q].at # "count")
  PROVE  \A b \in Bufs : InFlight(b)' = InFlight(b)
<1>1. \A b \in Bufs : Counting(b)' = Counting(b)
  BY DEF Counting, At, Same
<1>2. QED
  BY <1>1 DEF InFlight, Counting

(* OVERWRITTEN is raised where it is not set already.                      *)
LEMMA OverwritesKeep ==
  ASSUME CountInv, NEW x, Overwrites(x), UNCHANGED <<overwritten, reported, discarded>>,
         MsgExclusive', \A b \in Bufs : InFlight(b)' = InFlight(b)
  PROVE  CountInv'
<1>1. CASE UNCHANGED <<flag, raised>>
  BY <1>1 DEF CountInv, Counted, OverwrittenConserved
<1>2. CASE flag' = [flag EXCEPT ![x] = TRUE] /\ raised' = [raised EXCEPT ![x] = @ + 1] /\ ~flag[x]
  <2>1. /\ flag \in [Bufs -> BOOLEAN] /\ raised \in [Bufs -> Nat] /\ MsgExclusive
    BY DEF CountInv, Counted
  <2>2. Counted'
    <3>1. flag' \in [Bufs -> BOOLEAN]
      BY <1>2, <2>1
    <3>2. \A b \in Bufs : raised'[b] \in Nat
      BY <1>2, <2>1
    <3>3. raised' \in [Bufs -> Nat]
      BY <1>2, <2>1, <3>2
    <3>4. QED
      BY <3>1, <3>3 DEF CountInv, Counted
  <2>3. ASSUME NEW b \in Bufs
        PROVE  raised'[b] = (IF flag'[b] THEN 1 ELSE 0) + InFlight(b)' + overwritten'[b] + reported'[b] + discarded'[b]
    <3>1. /\ raised[b] = (IF flag[b] THEN 1 ELSE 0) + InFlight(b) + overwritten[b] + reported[b] + discarded[b]
          /\ overwritten[b] \in Nat /\ reported[b] \in Nat /\ discarded[b] \in Nat
          /\ overwritten'[b] = overwritten[b] /\ reported'[b] = reported[b] /\ discarded'[b] = discarded[b]
      BY DEF CountInv, Counted, OverwrittenConserved
    <3>2. PICK n \in {0, 1} : n = InFlight(b) /\ n = InFlight(b)'
      BY <2>1, InFlightOnce
    <3>3. CASE b = x
      <4>1. flag'[b] = TRUE /\ raised'[b] = raised[b] + 1 /\ ~flag[b]
        BY <1>2, <2>1, <3>3
      <4>2. raised[b] = 0 + n + overwritten[b] + reported[b] + discarded[b]
        BY <3>1, <3>2, <4>1
      <4>3. raised'[b] = 1 + n + overwritten[b] + reported[b] + discarded[b]
        BY <3>1, <4>1, <4>2
      <4>4. QED
        BY <3>1, <3>2, <4>1, <4>3
    <3>4. CASE b # x
      <4>1. flag'[b] = flag[b] /\ raised'[b] = raised[b]
        BY <1>2, <2>1, <3>4
      <4>2. QED
        BY <3>1, <3>2, <4>1
    <3>5. QED
      BY <3>3, <3>4
  <2>4. QED
    BY <2>2, <2>3 DEF CountInv, OverwrittenConserved
<1>3. QED
  BY <1>1, <1>2 DEF Overwrites

(* A message is copied into its buffer, over one that was not sent.        *)
LEMMA CopyInKeeps ==
  ASSUME IInv, NEW p \in Procs, CopyIn(p)
  PROVE  IInv'
<1>1. /\ proc[p].at = "copy" /\ Overwrites(proc[p].b) /\ GoTo(p, "status")
      /\ UNCHANGED locking
      /\ UNCHANGED <<overwritten, reported, discarded, msg_holder>>
  BY DEF CopyIn, At
<1>2. Shaped /\ LockInv /\ CountInv /\ MsgExclusive
  BY DEF IInv, CountInv
<1>3. /\ Shaped' /\ \A q \in Procs \ {p} : proc'[q] = proc[q]
      /\ proc'[p].at = "status" /\ proc'[p].call = proc[p].call /\ proc'[p].mask = proc[p].mask
      /\ proc'[p].again = proc[p].again
  BY <1>1, <1>2, MovedIs
<1>4. proc[p].mask = {} /\ ~InLockCall(p) /\ ~proc[p].again
  BY <1>1, <1>2, NoLockCall
<1>5. Unlocking(p)
  BY <1>3, <1>4 DEF Unlocking, LockSteps, InLockCall
<1>6. LockInv'
  BY <1>1, <1>2, <1>3, <1>5, LockInvOf
<1>7. MsgExclusive'
  BY <1>1, <1>2, <1>3 DEF MsgExclusive
<1>8. \A b \in Bufs : InFlight(b)' = InFlight(b)
  <2>1. \A q \in Procs : Same(q) \/ (proc[q].at # "count" /\ proc'[q].at # "count")
    BY <1>1, <1>3 DEF Same
  <2>2. QED
    BY <2>1, InFlightSame
<1>9. CountInv'
  BY <1>1, <1>2, <1>7, <1>8, OverwritesKeep
<1>10. QED
  BY <1>3, <1>6, <1>9 DEF IInv

(* A step in which every process stays as it was.                          *)
LEMMA AllSame ==
  ASSUME IInv, Shaped', \A q \in Procs : Same(q), UNCHANGED <<lock_ctl, lock_holder, holds, msg_holder>>
  PROVE  LockInv' /\ MsgExclusive' /\ \A b \in Bufs : InFlight(b)' = InFlight(b)
<1>1. LockInv'
  BY LockInvKept DEF IInv
<1>2. MsgExclusive'
  BY DEF IInv, CountInv, MsgExclusive, Same
<1>3. QED
  BY <1>1, <1>2, InFlightSame

(* Processes that read a counter and the hardware change no process.       *)
LEMMA HardwareKeeps ==
  ASSUME IInv, NEW b \in Bufs, Receive(b) \/ Send(b)
  PROVE  IInv'
<1>1. /\ UNCHANGED <<lock_ctl, lock_holder, holds, msg_holder, proc>>
      /\ UNCHANGED <<overwritten, reported, discarded>>
      /\ Overwrites(b) \/ UNCHANGED <<flag, raised>>
  BY DEF Receive, Send, locking, counters
<1>2. Shaped' /\ \A q \in Procs : Same(q)
  BY <1>1 DEF IInv, Shaped, Same
<1>3. LockInv' /\ MsgExclusive' /\ \A x \in Bufs : InFlight(x)' = InFlight(x)
  BY <1>1, <1>2, AllSame
<1>4. CountInv'
  <2>1. CASE Overwrites(b)
    BY <1>1, <1>3, <2>1, OverwritesKeep DEF IInv
  <2>2. CASE UNCHANGED <<flag, raised>>
    BY <1>1, <1>3, <2>2 DEF IInv, CountInv, Counted, OverwrittenConserved
  <2>3. QED
    BY <1>1, <2>1, <2>2
<1>5. QED
  BY <1>2, <1>3, <1>4 DEF IInv

(* A counter is read and cleared: its messages are reported.               *)
LEMMA ReadOverwrittenKeeps ==
  ASSUME IInv, NEW p \in Procs, NEW x \in Bufs, ReadOverwritten(p, x)
  PROVE  IInv'
<1>1. /\ reported' = [reported EXCEPT ![x] = @ + overwritten[x]]
      /\ overwritten' = [overwritten EXCEPT ![x] = 0]
      /\ UNCHANGED <<flag, raised, discarded>>
      /\ UNCHANGED <<lock_ctl, lock_holder, holds, msg_holder, proc>>
  BY DEF ReadOverwritten, CounterCleared, hardware, locking
<1>2. Shaped' /\ \A q \in Procs : Same(q)
  BY <1>1 DEF IInv, Shaped, Same
<1>3. LockInv' /\ MsgExclusive' /\ \A b \in Bufs : InFlight(b)' = InFlight(b)
  BY <1>1, <1>2, AllSame
<1>4. overwritten \in [Bufs -> Nat] /\ reported \in [Bufs -> Nat] /\ MsgExclusive
  BY DEF IInv, CountInv, Counted
<1>5. /\ reported'[x] = reported[x] + overwritten[x] /\ overwritten'[x] = 0
      /\ \A b \in Bufs \ {x} : reported'[b] = reported[b] /\ overwritten'[b] = overwritten[b]
  BY <1>1, <1>4
<1>6. overwritten' \in [Bufs -> Nat] /\ reported' \in [Bufs -> Nat]
  <2>1. \A b \in Bufs : overwritten'[b] \in Nat /\ reported'[b] \in Nat
    BY <1>4, <1>5
  <2>2. QED
    BY <1>1, <1>4, <2>1
<1>7. ASSUME NEW b \in Bufs
      PROVE  raised'[b] = (IF flag'[b] THEN 1 ELSE 0) + InFlight(b)' + overwritten'[b] + reported'[b] + discarded'[b]
  <2>1. /\ raised[b] = (IF flag[b] THEN 1 ELSE 0) + InFlight(b) + overwritten[b] + reported[b] + discarded[b]
        /\ overwritten[b] \in Nat /\ reported[b] \in Nat /\ discarded[b] \in Nat
    BY DEF IInv, CountInv, Counted, OverwrittenConserved
  <2>2. /\ flag'[b] = flag[b] /\ raised'[b] = raised[b] /\ discarded'[b] = discarded[b]
        /\ overwritten'[b] + reported'[b] = overwritten[b] + reported[b]
        /\ overwritten'[b] \in Nat /\ reported'[b] \in Nat
    BY <1>1, <1>4, <1>5
  <2>3. PICK n \in {0, 1} : n = InFlight(b) /\ n = InFlight(b)'
    BY <1>3, <1>4, InFlightOnce
  <2>4. QED
    BY <2>1, <2>2, <2>3
<1>8. CountInv'
  BY <1>1, <1>3, <1>6, <1>7 DEF IInv, CountInv, Counted, OverwrittenConserved
<1>9. QED
  BY <1>2, <1>3, <1>8 DEF IInv

-----------------------------------------------------------------------------
(* The steps that apply a configuration.                                   *)

(* Most of them leave locks and counters alone.                            *)
LEMMA ConfigureKeeps ==
  ASSUME IInv,
         \/ ApplyConfig \/ Deactivate \/ ClearDescriptor \/ SetState \/ WriteDescriptor \/ Activate
  PROVE  IInv'
<1>1. /\ Disturb
      /\ UNCHANGED <<locking, flag, counters, msg_holder>>
  BY DEF ApplyConfig, Deactivate, ClearDescriptor, SetState, WriteDescriptor, Activate, hardware
<1>2. /\ UNCHANGED <<lock_ctl, lock_holder, holds, msg_holder>>
      /\ UNCHANGED <<flag, overwritten, raised, reported, discarded>>
  BY <1>1 DEF locking, counters
<1>3. Shaped' /\ \A q \in Procs : Same(q)
  BY <1>1, DisturbSame DEF IInv
<1>4. LockInv' /\ MsgExclusive' /\ \A b \in Bufs : InFlight(b)' = InFlight(b)
  BY <1>2, <1>3, AllSame
<1>5. CountInv'
  BY <1>2, <1>4 DEF IInv, CountInv, Counted, OverwrittenConserved
<1>6. QED
  BY <1>3, <1>4, <1>5 DEF IInv

(* The status of a removed buffer is read: OVERWRITTEN is counted.         *)
LEMMA ClearStatusKeeps ==
  ASSUME IInv, ClearStatus
  PROVE  IInv'
<1> DEFINE x == B
<1>1. /\ Disturb
      /\ flag' = [flag EXCEPT ![x] = FALSE]
      /\ overwritten' = [overwritten EXCEPT ![x] = IF flag[x] THEN @ + 1 ELSE @]
      /\ UNCHANGED <<lock_ctl, lock_holder, holds, msg_holder>>
      /\ UNCHANGED <<raised, reported, discarded>>
  BY DEF ClearStatus, locking
<1> HIDE DEF x
<1>2. Shaped' /\ \A q \in Procs : Same(q)
  BY <1>1, DisturbSame DEF IInv
<1>3. LockInv' /\ MsgExclusive' /\ \A b \in Bufs : InFlight(b)' = InFlight(b)
  BY <1>1, <1>2, AllSame
<1>4. flag \in [Bufs -> BOOLEAN] /\ overwritten \in [Bufs -> Nat] /\ MsgExclusive
  BY DEF IInv, CountInv, Counted
<1>5. ASSUME NEW b \in Bufs
      PROVE  /\ flag'[b] \in BOOLEAN /\ overwritten'[b] \in Nat
             /\ (IF flag'[b] THEN 1 ELSE 0) + overwritten'[b] = (IF flag[b] THEN 1 ELSE 0) + overwritten[b]
  <2>1. flag[b] \in BOOLEAN /\ overwritten[b] \in Nat
    BY <1>4
  <2>2. CASE b = x
    <3>1. flag'[b] = FALSE
      BY <1>1, <1>4, <2>2
    <3>2. CASE flag[b]
      <4>1. overwritten'[b] = overwritten[b] + 1
        BY <1>1, <1>4, <2>2, <3>2
      <4>2. (IF flag'[b] THEN 1 ELSE 0) = 0 /\ (IF flag[b] THEN 1 ELSE 0) = 1
        BY <3>1, <3>2
      <4>3. 0 + overwritten'[b] = 1 + overwritten[b] /\ overwritten'[b] \in Nat
        BY <2>1, <4>1
      <4>4. QED
        BY <3>1, <4>2, <4>3
    <3>3. CASE ~flag[b]
      <4>1. overwritten'[b] = overwritten[b]
        BY <1>1, <1>4, <2>2, <3>3
      <4>2. QED
        BY <2>1, <3>1, <3>3, <4>1
    <3>4. QED
      BY <3>2, <3>3
  <2>3. CASE b # x
    BY <1>1, <1>4, <2>1, <2>3
  <2>4. QED
    BY <2>2, <2>3
<1>6. flag' \in [Bufs -> BOOLEAN] /\ overwritten' \in [Bufs -> Nat]
  <2>1. DOMAIN flag' = Bufs /\ DOMAIN overwritten' = Bufs
    BY <1>1, <1>4
  <2>2. flag' = [b \in Bufs |-> flag'[b]] /\ overwritten' = [b \in Bufs |-> overwritten'[b]]
    BY <1>1, <1>4
  <2>3. QED
    BY <1>5, <2>2
<1>7. ASSUME NEW b \in Bufs
      PROVE  raised'[b] = (IF flag'[b] THEN 1 ELSE 0) + InFlight(b)' + overwritten'[b] + reported'[b] + discarded'[b]
  <2>1. /\ raised[b] = (IF flag[b] THEN 1 ELSE 0) + InFlight(b) + overwritten[b] + reported[b] + discarded[b]
        /\ flag[b] \in BOOLEAN
        /\ overwritten[b] \in Nat /\ reported[b] \in Nat /\ discarded[b] \in Nat
        /\ reported'[b] = reported[b] /\ discarded'[b] = discarded[b] /\ raised'[b] = raised[b]
    BY <1>1 DEF IInv, CountInv, Counted, OverwrittenConserved
  <2>2. PICK n \in {0, 1} : n = InFlight(b) /\ n = InFlight(b)'
    BY <1>3, <1>4, InFlightOnce
  <2>3. PICK f \in {0, 1}, g \in {0, 1} : f = (IF flag[b] THEN 1 ELSE 0) /\ g = (IF flag'[b] THEN 1 ELSE 0)
    OBVIOUS
  <2>4. g + overwritten'[b] = f + overwritten[b] /\ overwritten'[b] \in Nat
    BY <1>5, <2>3
  <2>5. raised[b] = f + n + overwritten[b] + reported[b] + discarded[b]
    BY <2>1, <2>2, <2>3
  <2>6. raised'[b] = g + n + overwritten'[b] + reported'[b] + discarded'[b]
    BY <2>1, <2>4, <2>5
  <2>7. QED
    BY <2>2, <2>3, <2>6
<1>8. CountInv'
  BY <1>1, <1>3, <1>6, <1>7 DEF IInv, CountInv, Counted, OverwrittenConserved
<1>9. QED
  BY <1>2, <1>3, <1>8 DEF IInv

(* The counter of a removed buffer is cleared: its messages are discarded. *)
LEMMA ClearCounterKeeps ==
  ASSUME IInv, ClearCounter
  PROVE  IInv'
<1> DEFINE x == B
<1>1. /\ Disturb
      /\ discarded' = [discarded EXCEPT ![x] = @ + overwritten[x]]
      /\ overwritten' = [overwritten EXCEPT ![x] = 0]
      /\ UNCHANGED <<lock_ctl, lock_holder, holds, msg_holder>>
      /\ UNCHANGED <<flag, raised, reported>>
  BY DEF ClearCounter, locking, hardware
<1> HIDE DEF x
<1>2. Shaped' /\ \A q \in Procs : Same(q)
  BY <1>1, DisturbSame DEF IInv
<1>3. LockInv' /\ MsgExclusive' /\ \A b \in Bufs : InFlight(b)' = InFlight(b)
  BY <1>1, <1>2, AllSame
<1>4. overwritten \in [Bufs -> Nat] /\ discarded \in [Bufs -> Nat] /\ MsgExclusive
  BY DEF IInv, CountInv, Counted
<1>5. ASSUME NEW b \in Bufs
      PROVE  /\ overwritten'[b] \in Nat /\ discarded'[b] \in Nat
             /\ overwritten'[b] + discarded'[b] = overwritten[b] + discarded[b]
  <2>1. CASE b = x
    BY <1>1, <1>4, <2>1
  <2>2. CASE b # x
    BY <1>1, <1>4, <2>2
  <2>3. QED
    BY <2>1, <2>2
<1>6. overwritten' \in [Bufs -> Nat] /\ discarded' \in [Bufs -> Nat]
  <2>1. overwritten' = [b \in Bufs |-> overwritten'[b]] /\ discarded' = [b \in Bufs |-> discarded'[b]]
    BY <1>1, <1>4
  <2>2. QED
    BY <1>5, <2>1
<1>7. ASSUME NEW b \in Bufs
      PROVE  raised'[b] = (IF flag'[b] THEN 1 ELSE 0) + InFlight(b)' + overwritten'[b] + reported'[b] + discarded'[b]
  <2>1. /\ raised[b] = (IF flag[b] THEN 1 ELSE 0) + InFlight(b) + overwritten[b] + reported[b] + discarded[b]
        /\ overwritten[b] \in Nat /\ reported[b] \in Nat /\ discarded[b] \in Nat
        /\ reported'[b] = reported[b] /\ flag'[b] = flag[b] /\ raised'[b] = raised[b]
    BY <1>1 DEF IInv, CountInv, Counted, OverwrittenConserved
  <2>2. PICK n \in {0, 1} : n = InFlight(b) /\ n = InFlight(b)'
    BY <1>3, <1>4, InFlightOnce
  <2>3. /\ overwritten'[b] \in Nat /\ discarded'[b] \in Nat
        /\ overwritten'[b] + discarded'[b] = overwritten[b] + discarded[b]
    BY <1>5
  <2>4. QED
    BY <2>1, <2>2, <2>3
<1>8. CountInv'
  BY <1>1, <1>3, <1>6, <1>7 DEF IInv, CountInv, Counted, OverwrittenConserved
<1>9. QED
  BY <1>2, <1>3, <1>8 DEF IInv

-----------------------------------------------------------------------------
(* The steps that lock and unlock buffers.                                 *)

(* Quotients are in the order of the numbers: a later bit is in no earlier *)
(* word.                                                                   *)
LEMMA WordOrder ==
  ASSUME NEW x \in Nat, NEW y \in Nat, x <= y, NEW c \in Nat \ {0}
  PROVE  x \div c \in Nat /\ y \div c \in Nat /\ x \div c <= y \div c
<1>1. /\ x \div c \in Nat /\ x % c \in 0 .. c - 1
      /\ y \div c \in Nat /\ y % c \in 0 .. c - 1
  OBVIOUS
<1>2. PICK q \in Nat : q = x \div c
  BY <1>1
<1>3. PICK r \in 0 .. c - 1 : r = x % c
  BY <1>1
<1>4. PICK u \in Nat : u = y \div c
  BY <1>1
<1>5. PICK v \in 0 .. c - 1 : v = y % c
  BY <1>1
<1>6. PICK e \in Nat : e = c * q
  OBVIOUS
<1>7. PICK f \in Nat : f = c * u
  OBVIOUS
<1>8. x = e + r
  BY <1>2, <1>3, <1>6, SMT
<1>9. y = f + v
  BY <1>4, <1>5, <1>7, SMT
<1>10. ASSUME q > u PROVE FALSE
  <2>1. PICK k \in Nat : q = (u + 1) + k
    <3>1. q - (u + 1) \in Nat /\ q = (u + 1) + (q - (u + 1))
      BY <1>10
    <3>2. QED
      BY <3>1
  <2>2. PICK g \in Nat : g = c * k
    OBVIOUS
  <2>3. e = f + c + g
    BY <1>6, <1>7, <2>1, <2>2, SMT
  <2>4. QED
    BY <1>8, <1>9, <2>3
<1>11. QED
  BY <1>1, <1>2, <1>4, <1>10

(* The words hold the bits of all buffers, and no others.                  *)
LEMMA WordsOfBufs ==
  /\ 0 \in Words /\ Words \subseteq Nat
  /\ \A b \in Bufs : WordOf(b) \in Words
  /\ \A w \in Words : w + 1 \in Words \/ \A b \in Bufs : WordOf(b) <= w
<1>1. BufferCount \in Nat \ {0} /\ WordBits \in Nat \ {0}
  BY GranularityAssumption, WordAssumption
<1>2. BufferCount - 1 \in Nat
  BY <1>1
<1>3. PICK n \in Nat : n = (BufferCount - 1) \div WordBits
  BY <1>1, <1>2
<1>4. ASSUME NEW b \in Bufs PROVE WordOf(b) \in Nat /\ WordOf(b) <= n
  <2>1. b \in Nat /\ b <= BufferCount - 1
    BY <1>2 DEF Bufs
  <2>2. b \div WordBits \in Nat /\ b \div WordBits <= (BufferCount - 1) \div WordBits
    BY <1>1, <1>2, <2>1, WordOrder
  <2>3. QED
    BY <1>3, <2>2 DEF WordOf
<1>5. Words = 0 .. n
  BY <1>3 DEF Words
<1>6. QED
  BY <1>4, <1>5

(* A step of one process that is not about messages.                       *)
LEMMA CountInvOf ==
  ASSUME CountInv, NEW p \in Procs, \A q \in Procs \ {p} : proc'[q] = proc[q],
         UNCHANGED <<flag, counters, msg_holder>>, Outside(p)
  PROVE  CountInv'
<1>1. \A q \in Procs : Same(q) \/ Outside(q)
  BY DEF Same
<1>2. QED
  BY <1>1, MsgInvKept DEF counters

(* The buffers of different processes differ.                              *)
LEMMA OwnBuffers ==
  ASSUME CallTyped, NEW p \in Procs, NEW q \in Procs \ {p}
  PROVE  /\ Owns[p] \subseteq Bufs /\ proc[p].mask \subseteq Owns[p]
         /\ Owns[q] \cap proc[p].mask = {}
  BY OwnsAssumption DEF CallTyped, ProcTyped

(* The others go on as they were.                                          *)
LEMMA OthersTyped ==
  ASSUME CallTyped, NEW q \in Procs, proc'[q] = proc[q], holds'[q] = holds[q]
  PROVE  ProcTyped(q)'
<1>1. InLockCall(q)' <=> InLockCall(q)
  BY DEF InLockCall
<1>2. ProcTyped(q)
  BY DEF CallTyped
<1>3. QED
  BY <1>1, <1>2 DEF ProcTyped

(* A call on the lock control vector begins; an unlocking process counts   *)
(* its buffers as unlocked from now on.                                    *)
LEMMA BeginVectorKeeps ==
  ASSUME IInv, NEW p \in Procs,
         BeginVector(p) \/ \E mask \in SUBSET Owns[p] : BeginLock(p, mask) \/ BeginUnlock(p, mask)
  PROVE  IInv'
<1>1. PICK kind \in {"vector", "lock", "unlock"}, mask \in SUBSET Owns[p] :
        /\ Begin(p, kind, 0, mask, "lock_ctl")
        /\ kind = "vector" => mask = {}
        /\ kind = "unlock" => holds' = [holds EXCEPT ![p] = @ \ mask]
        /\ kind # "unlock" => holds' = holds
  <2>1. CASE BeginVector(p)
    BY <2>1 DEF BeginVector, locking
  <2>2. ASSUME NEW mask \in SUBSET Owns[p], BeginLock(p, mask)
        PROVE  Begin(p, "lock", 0, mask, "lock_ctl") /\ holds' = holds
    BY <2>2 DEF BeginLock, locking
  <2>3. ASSUME NEW mask \in SUBSET Owns[p], BeginUnlock(p, mask)
        PROVE  Begin(p, "unlock", 0, mask, "lock_ctl") /\ holds' = [holds EXCEPT ![p] = @ \ mask]
    BY <2>3 DEF BeginUnlock
  <2>4. QED
    BY <2>1, <2>2, <2>3
<1>2. /\ UNCHANGED <<lock_ctl, lock_holder>>
      /\ UNCHANGED <<flag, counters, msg_holder>>
  BY DEF BeginVector, BeginLock, BeginUnlock, locking, hardware
<1>3. Shaped /\ LockInv /\ CountInv
  BY DEF IInv
<1>4. /\ Shaped' /\ proc[p] = IdleProc /\ \A q \in Procs \ {p} : proc'[q] = proc[q]
      /\ proc'[p].call = kind /\ proc'[p].at = "lock_ctl" /\ proc'[p].b = 0 /\ proc'[p].mask = mask
      /\ (proc'[p].again <=> kind = "unlock")
  <2>1. Begin(p, kind, 0, mask, "lock_ctl")
    BY <1>1
  <2>2. QED
    BY <1>3, <2>1 DEF Begin, Shaped, FieldNames, IdleProc
<1>5. proc[p].mask = {} /\ proc[p].at = "idle" /\ proc[p].call = "none"
  BY <1>4 DEF IdleProc
<1>6. CountInv'
  BY <1>2, <1>3, <1>4, <1>5, CountInvOf DEF Outside, MsgSteps
<1>7. /\ lock_ctl \subseteq Bufs /\ holds \in [Procs -> SUBSET Bufs]
      /\ \A q \in Procs : holds[q] \subseteq Owns[q]
      /\ lock_ctl \cap Owns[p] = holds[p]
  BY <1>3, <1>5 DEF LockInv, CallTyped, ProcTyped, HeldIsLocked
<1>8. /\ holds' \in [Procs -> SUBSET Bufs]
      /\ \A q \in Procs \ {p} : holds'[q] = holds[q]
      /\ holds'[p] = IF kind = "unlock" THEN holds[p] \ mask ELSE holds[p]
  <2>1. CASE kind = "unlock"
    BY <1>1, <1>7, <2>1
  <2>2. CASE kind # "unlock"
    BY <1>1, <1>7, <2>2
  <2>3. QED
    BY <2>1, <2>2
<1>9. CallTyped'
  <2>1. InLockCall(p)' <=> kind # "vector"
    BY <1>1, <1>4 DEF InLockCall
  <2>2. holds'[p] \subseteq Owns[p]
    BY <1>7, <1>8
  <2>3. ProcTyped(p)'
    BY <1>1, <1>4, <2>1, <2>2 DEF ProcTyped
  <2>4. \A q \in Procs \ {p} : ProcTyped(q)'
    BY <1>3, <1>4, <1>8, OthersTyped DEF LockInv
  <2>5. QED
    BY <1>2, <1>7, <1>8, <2>3, <2>4 DEF CallTyped
<1>10. LockExclusive' /\ ReadSoFar' /\ WrittenSoFar'
  BY <1>2, <1>3, <1>4 DEF LockInv, LockExclusive, ReadSoFar, WrittenSoFar, At, NewVector
<1>11. HeldIsLocked'
  <2>1. ASSUME NEW q \in Procs \ {p}
        PROVE  /\ (lock_ctl' \cap Owns[q]) \ proc'[q].mask = holds'[q] \ proc'[q].mask
               /\ proc'[q].call = "unlock" => holds'[q] \cap proc'[q].mask = {}
    BY <1>2, <1>3, <1>4, <1>8 DEF LockInv, HeldIsLocked
  <2>2. /\ (lock_ctl' \cap Owns[p]) \ proc'[p].mask = holds'[p] \ proc'[p].mask
        /\ proc'[p].call = "unlock" => holds'[p] \cap proc'[p].mask = {}
    BY <1>2, <1>4, <1>7, <1>8
  <2>3. QED
    BY <2>1, <2>2 DEF HeldIsLocked
<1>12. QED
  BY <1>4, <1>6, <1>9, <1>10, <1>11 DEF IInv, LockInv

(* lock_ctl_lock is taken: nobody else is reading or writing the vector.   *)
LEMMA TakeLockCtlKeeps ==
  ASSUME IInv, NEW p \in Procs, TakeLockCtl(p)
  PROVE  IInv'
<1>1. /\ proc[p].at = "lock_ctl" /\ lock_holder = Nobody /\ lock_holder' = p
      /\ proc' = [proc EXCEPT ![p].at = "read_ctl", ![p].b = 0, ![p].vector = {}]
      /\ UNCHANGED <<lock_ctl, holds>>
      /\ UNCHANGED <<flag, counters, msg_holder>>
  BY DEF TakeLockCtl, At, LockCtlFree, hardware
<1>2. Shaped /\ LockInv /\ CountInv
  BY DEF IInv
<1>3. /\ Shaped' /\ \A q \in Procs \ {p} : proc'[q] = proc[q]
      /\ proc'[p].at = "read_ctl" /\ proc'[p].b = 0 /\ proc'[p].vector = {}
      /\ proc'[p].call = proc[p].call /\ proc'[p].mask = proc[p].mask
      /\ proc'[p].again = proc[p].again
  BY <1>1, <1>2 DEF Shaped, FieldNames
<1>4. CountInv'
  BY <1>1, <1>2, <1>3, CountInvOf DEF Outside, MsgSteps
<1>5. \A q \in Procs : proc[q].at \notin {"read_ctl", "write_ctl", "masked"}
  BY <1>1, <1>2, NobodyAssumption DEF LockInv, LockExclusive
<1>6. CallTyped'
  <2>1. InLockCall(p)' <=> InLockCall(p)
    BY <1>3 DEF InLockCall
  <2>2. ProcTyped(p) /\ 0 \in Words
    BY <1>2, WordsOfBufs DEF LockInv, CallTyped
  <2>3. ProcTyped(p)'
    BY <1>1, <1>3, <2>1, <2>2 DEF ProcTyped
  <2>4. \A q \in Procs \ {p} : ProcTyped(q)'
    BY <1>1, <1>2, <1>3, OthersTyped DEF LockInv
  <2>5. QED
    BY <1>1, <1>2, <2>3, <2>4 DEF LockInv, CallTyped
<1>7. LockExclusive' /\ WrittenSoFar'
  BY <1>1, <1>3, <1>5 DEF LockExclusive, WrittenSoFar, At
<1>8. ReadSoFar'
  <2>1. {b \in lock_ctl' : WordOf(b) < proc'[p].b} = {}
    BY <1>1, <1>2, <1>3, WordsOfBufs DEF LockInv, CallTyped, ProcTyped
  <2>2. QED
    BY <1>3, <1>5, <2>1 DEF ReadSoFar, At
<1>9. HeldIsLocked'
  <2>1. \A q \in Procs : proc'[q].call = proc[q].call /\ proc'[q].mask = proc[q].mask
    BY <1>3
  <2>2. HeldIsLocked /\ lock_ctl' = lock_ctl /\ holds' = holds
    BY <1>1, <1>2 DEF LockInv
  <2>3. QED
    BY <2>1, <2>2 DEF HeldIsLocked
<1>10. QED
  BY <1>3, <1>4, <1>6, <1>7, <1>8, <1>9 DEF IInv, LockInv

(* A word of the vector is read.                                           *)
LEMMA ReadLockCtlKeeps ==
  ASSUME IInv, NEW p \in Procs, ReadLockCtl(p)
  PROVE  IInv'
<1> DEFINE w == proc[p].b
<1>1. /\ proc[p].at = "read_ctl"
      /\ UNCHANGED <<lock_ctl, lock_holder, holds>>
      /\ UNCHANGED <<flag, counters, msg_holder>>
  BY DEF ReadLockCtl, At, hardware, locking
<1>2. Shaped /\ LockInv /\ CountInv
  BY DEF IInv
<1>3. /\ Shaped' /\ \A q \in Procs \ {p} : proc'[q] = proc[q]
      /\ proc'[p].vector = proc[p].vector \cup (lock_ctl \cap InWord(w))
      /\ proc'[p].call = proc[p].call /\ proc'[p].mask = proc[p].mask
      /\ proc'[p].again = proc[p].again
      /\ LastWord(p) => proc'[p].b = 0
      /\ LastWord(p) => proc'[p].at = IF proc[p].call = "vector" THEN "masked" ELSE "write_ctl"
      /\ ~LastWord(p) => proc'[p].b = w + 1 /\ proc'[p].at = "read_ctl"
  BY <1>2 DEF ReadLockCtl, Shaped, FieldNames
<1>4. CountInv'
  BY <1>1, <1>2, <1>3, CountInvOf DEF Outside, MsgSteps
<1>5. lock_holder = p /\ \A q \in Procs \ {p} : proc[q].at \notin {"read_ctl", "write_ctl", "masked"}
  BY <1>1, <1>2 DEF LockInv, LockExclusive
<1>6. /\ w \in Words /\ w \in Nat
      /\ lock_ctl \subseteq Bufs /\ \A b \in lock_ctl : WordOf(b) \in Nat
      /\ LastWord(p) => \A b \in lock_ctl : WordOf(b) <= w
  BY <1>1, <1>2, WordsOfBufs DEF LockInv, CallTyped, ProcTyped, LastWord
<1>7. proc[p].vector = {b \in lock_ctl : WordOf(b) < w}
  BY <1>1, <1>2 DEF LockInv, ReadSoFar, At
<1>8. proc'[p].vector = {b \in lock_ctl : WordOf(b) < w + 1}
  <2>1. \A b \in lock_ctl : WordOf(b) < w + 1 <=> WordOf(b) < w \/ WordOf(b) = w
    BY <1>6
  <2>2. lock_ctl \cap InWord(w) = {b \in lock_ctl : WordOf(b) = w}
    BY <1>6 DEF InWord
  <2>3. QED
    BY <1>3, <1>7, <2>1, <2>2
<1> HIDE DEF w
<1>9. LockExclusive'
  BY <1>1, <1>3, <1>5 DEF LockExclusive
<1>10. CallTyped'
  <2>1. InLockCall(p)' <=> InLockCall(p)
    BY <1>3 DEF InLockCall
  <2>2. ProcTyped(p) /\ 0 \in Words /\ (~LastWord(p) => w + 1 \in Words)
    BY <1>2, WordsOfBufs DEF LockInv, CallTyped, LastWord, w
  <2>3. ProcTyped(p)'
    <3>1. CASE LastWord(p)
      BY <1>1, <1>3, <2>1, <2>2, <3>1 DEF ProcTyped, InLockCall
    <3>2. CASE ~LastWord(p)
      BY <1>1, <1>3, <2>1, <2>2, <3>2 DEF ProcTyped
    <3>3. QED
      BY <3>1, <3>2
  <2>4. \A q \in Procs \ {p} : ProcTyped(q)'
    BY <1>1, <1>2, <1>3, OthersTyped DEF LockInv
  <2>5. QED
    BY <1>1, <1>2, <2>3, <2>4 DEF LockInv, CallTyped
<1>11. ReadSoFar'
  <2>1. CASE LastWord(p)
    BY <1>3, <1>5, <2>1 DEF ReadSoFar, At
  <2>2. CASE ~LastWord(p)
    <3>1. proc'[p].b = w + 1
      BY <1>3, <2>2
    <3>2. QED
      BY <1>1, <1>3, <1>5, <1>8, <3>1 DEF ReadSoFar, At
  <2>3. QED
    BY <2>1, <2>2
<1>12. WrittenSoFar'
  <2>1. CASE LastWord(p)
    <3>1. \A b \in lock_ctl : WordOf(b) < w + 1 /\ ~(WordOf(b) < 0) /\ WordOf(b) >= 0
      BY <1>6, <2>1 DEF w
    <3>2. proc'[p].vector = lock_ctl
      BY <1>8, <3>1
    <3>3. NewVector(p)' \subseteq Bufs
      BY <1>2, <1>3, <1>6, <3>2, OwnsAssumption DEF NewVector, LockInv, CallTyped, ProcTyped
    <3>4. {b \in NewVector(p)' : WordOf(b) < 0} = {}
      <4>1. \A b \in Bufs : WordOf(b) \in Nat
        BY WordsOfBufs
      <4>2. \A b \in Bufs : ~(WordOf(b) < 0)
        BY <4>1
      <4>3. QED
        BY <3>3, <4>2
    <3>5. {b \in proc'[p].vector : WordOf(b) >= 0} = lock_ctl
      BY <3>1, <3>2
    <3>6. proc'[p].b = 0 /\ lock_ctl' = lock_ctl /\ proc'[p].vector \subseteq Bufs
      BY <1>1, <1>3, <1>6, <2>1, <3>2
    <3>7. QED
      BY <1>3, <1>5, <3>4, <3>5, <3>6 DEF WrittenSoFar, At
  <2>2. CASE ~LastWord(p)
    BY <1>3, <1>5, <2>2 DEF WrittenSoFar, At
  <2>3. QED
    BY <2>1, <2>2
<1>13. HeldIsLocked'
  <2>1. \A q \in Procs : proc'[q].call = proc[q].call /\ proc'[q].mask = proc[q].mask
    BY <1>3
  <2>2. HeldIsLocked /\ lock_ctl' = lock_ctl /\ holds' = holds
    BY <1>1, <1>2 DEF LockInv
  <2>3. QED
    BY <2>1, <2>2 DEF HeldIsLocked
<1>14. QED
  BY <1>3, <1>4, <1>9, <1>10, <1>11, <1>12, <1>13 DEF IInv, LockInv

(* A word of the vector is written; with the last word all bits are.       *)
LEMMA WriteLockCtlKeeps ==
  ASSUME IInv, NEW p \in Procs, WriteLockCtl(p)
  PROVE  IInv'
<1> DEFINE w == proc[p].b
           N == NewVector(p)
           V == proc[p].vector
           M == proc[p].mask
<1>1. /\ proc[p].at = "write_ctl"
      /\ lock_ctl' = (lock_ctl \ InWord(w)) \cup (N \cap InWord(w))
      /\ UNCHANGED <<flag, counters, msg_holder>>
  BY DEF WriteLockCtl, At, hardware
<1>2. Shaped /\ LockInv /\ CountInv
  BY DEF IInv
<1>3. \/ /\ ~LastWord(p) /\ UNCHANGED <<lock_holder, holds>>
         /\ proc' = [proc EXCEPT ![p].b = @ + 1]
      \/ /\ LastWord(p) /\ lock_holder' = Nobody /\ proc[p].again /\ holds' = holds
         /\ proc' = [proc EXCEPT ![p].at = "lock_ctl", ![p].again = FALSE]
      \/ /\ LastWord(p) /\ lock_holder' = Nobody /\ ~proc[p].again
         /\ holds' = IF proc[p].call = "lock" THEN [holds EXCEPT ![p] = @ \cup M] ELSE holds
         /\ proc' = [proc EXCEPT ![p] = IdleProc]
  BY DEF WriteLockCtl, Ended
<1>4. /\ Shaped' /\ \A q \in Procs \ {p} : proc'[q] = proc[q]
      /\ \/ /\ ~LastWord(p) /\ UNCHANGED <<lock_holder, holds>>
            /\ proc'[p].at = "write_ctl" /\ proc'[p].b = w + 1 /\ proc'[p].vector = V
            /\ proc'[p].call = proc[p].call /\ proc'[p].mask = M /\ proc'[p].again = proc[p].again
         \/ /\ LastWord(p) /\ lock_holder' = Nobody /\ proc[p].again /\ holds' = holds
            /\ proc'[p].at = "lock_ctl" /\ ~proc'[p].again
            /\ proc'[p].call = proc[p].call /\ proc'[p].mask = M
         \/ /\ LastWord(p) /\ lock_holder' = Nobody /\ ~proc[p].again
            /\ holds' = IF proc[p].call = "lock" THEN [holds EXCEPT ![p] = @ \cup M] ELSE holds
            /\ proc'[p].at = "idle" /\ proc'[p].call = "none" /\ proc'[p].mask = {} /\ ~proc'[p].again
  <2>1. CASE proc' = [proc EXCEPT ![p].b = @ + 1] /\ ~LastWord(p) /\ UNCHANGED <<lock_holder, holds>>
    <3>1. /\ Shaped' /\ \A q \in Procs \ {p} : proc'[q] = proc[q]
      BY <1>2, <2>1 DEF Shaped, FieldNames
    <3>2. /\ proc'[p].at = proc[p].at /\ proc'[p].b = w + 1 /\ proc'[p].vector = V
          /\ proc'[p].call = proc[p].call /\ proc'[p].mask = M /\ proc'[p].again = proc[p].again
      BY <1>2, <2>1 DEF Shaped, FieldNames
    <3>3. QED
      BY <1>1, <2>1, <3>1, <3>2
  <2>2. CASE proc' = [proc EXCEPT ![p].at = "lock_ctl", ![p].again = FALSE] /\ holds' = holds
             /\ LastWord(p) /\ lock_holder' = Nobody /\ proc[p].again
    <3>1. /\ Shaped' /\ \A q \in Procs \ {p} : proc'[q] = proc[q]
          /\ proc'[p].at = "lock_ctl" /\ proc'[p].again = FALSE
          /\ proc'[p].call = proc[p].call /\ proc'[p].mask = M
      BY <1>2, <2>2 DEF Shaped, FieldNames
    <3>2. QED
      BY <2>2, <3>1
  <2>3. CASE proc' = [proc EXCEPT ![p] = IdleProc] /\ LastWord(p) /\ lock_holder' = Nobody /\ ~proc[p].again
             /\ holds' = IF proc[p].call = "lock" THEN [holds EXCEPT ![p] = @ \cup M] ELSE holds
    <3>1. /\ Shaped' /\ \A q \in Procs \ {p} : proc'[q] = proc[q]
          /\ proc'[p].at = "idle" /\ proc'[p].call = "none" /\ proc'[p].mask = {} /\ proc'[p].again = FALSE
      BY <1>2, <2>3, EndedIs
    <3>2. QED
      BY <2>3, <3>1
  <2>4. QED
    BY <1>3, <2>1, <2>2, <2>3
<1>5. proc'[p].at \in {"write_ctl", "lock_ctl", "idle"}
  BY <1>4
<1>6. CountInv'
  BY <1>1, <1>2, <1>4, <1>5, CountInvOf DEF Outside, MsgSteps
<1>7. \A q \in Procs \ {p} : proc[q].at \notin {"read_ctl", "write_ctl", "masked"}
  BY <1>1, <1>2 DEF LockInv, LockExclusive
<1>8. /\ w \in Words /\ w \in Nat /\ InLockCall(p)
      /\ V \subseteq Bufs /\ M \subseteq Owns[p] /\ Owns[p] \subseteq Bufs /\ N \subseteq Bufs
      /\ \A b \in Bufs : WordOf(b) \in Nat
      /\ LastWord(p) => \A b \in Bufs : WordOf(b) <= w
      /\ ~LastWord(p) => w + 1 \in Words
      /\ lock_ctl = {b \in N : WordOf(b) < w} \cup {b \in V : WordOf(b) >= w}
  BY <1>1, <1>2, WordsOfBufs, OwnsAssumption
     DEF LockInv, CallTyped, ProcTyped, WrittenSoFar, At, LastWord, NewVector
<1>9. \A b : b \notin M => (b \in N <=> b \in V)
  BY DEF NewVector
<1>10. proc[p].call = "lock" => N = V \cup M
  BY DEF NewVector
<1>11. proc[p].call # "lock" => N = V \ M
  BY DEF NewVector
<1> HIDE DEF w, N, V, M
<1>12. lock_ctl' = {b \in N : WordOf(b) < w + 1} \cup {b \in V : WordOf(b) >= w + 1}
  <2>1. InWord(w) = {b \in Bufs : WordOf(b) = w}
    BY DEF InWord
  <2>2. \A b \in Bufs : /\ WordOf(b) < w + 1 <=> WordOf(b) < w \/ WordOf(b) = w
                        /\ WordOf(b) >= w + 1 <=> WordOf(b) >= w /\ WordOf(b) # w
                        /\ WordOf(b) = w => WordOf(b) >= w /\ ~(WordOf(b) < w)
    BY <1>8
  <2>3. QED
    BY <1>1, <1>8, <2>1, <2>2
<1>13. LastWord(p) => lock_ctl' = N
  <2>1. ASSUME LastWord(p), NEW b \in Bufs PROVE WordOf(b) < w + 1 /\ ~(WordOf(b) >= w + 1)
    BY <1>8, <2>1
  <2>2. QED
    BY <1>8, <1>12, <2>1
<1>14. lock_ctl' \subseteq Bufs
  BY <1>8, <1>12
<1>15. \A b : b \notin M => (b \in lock_ctl' <=> b \in lock_ctl)
  <2>1. \A b \in Bufs : WordOf(b) < w \/ WordOf(b) >= w
    BY <1>8
  <2>2. \A b \in Bufs : WordOf(b) < w + 1 \/ WordOf(b) >= w + 1
    BY <1>8
  <2>3. \A b : b \notin M => (b \in lock_ctl <=> b \in V)
    BY <1>8, <1>9, <2>1
  <2>4. \A b : b \notin M => (b \in lock_ctl' <=> b \in V)
    BY <1>8, <1>9, <1>12, <2>2
  <2>5. QED
    BY <2>3, <2>4
<1>16. /\ holds \in [Procs -> SUBSET Bufs] /\ holds[p] \subseteq Owns[p]
       /\ (lock_ctl \cap Owns[p]) \ M = holds[p] \ M
       /\ proc[p].call = "unlock" => holds[p] \cap M = {}
  BY <1>2 DEF LockInv, CallTyped, ProcTyped, HeldIsLocked, M
<1>17. \A q \in Procs \ {p} : M \cap Owns[q] = {}
  BY <1>2, OwnBuffers DEF LockInv, M
<1>18. /\ holds' \in [Procs -> SUBSET Bufs] /\ \A q \in Procs \ {p} : holds'[q] = holds[q]
       /\ holds'[p] \subseteq Owns[p]
       /\ holds'[p] = holds[p] \/ (proc[p].call = "lock" /\ holds'[p] = holds[p] \cup M)
  <2>1. CASE holds' = [holds EXCEPT ![p] = @ \cup M] /\ proc[p].call = "lock"
    BY <1>8, <1>16, <2>1
  <2>2. CASE holds' = holds
    BY <1>16, <2>2
  <2>3. QED
    BY <1>4, <2>1, <2>2
<1>19. CallTyped'
  <2>1. ProcTyped(p)
    BY <1>2 DEF LockInv, CallTyped
  <2>2. ProcTyped(p)'
    <3>1. CASE proc'[p].at = "idle"
      BY <1>4, <1>18, <3>1 DEF ProcTyped, InLockCall
    <3>2. CASE proc'[p].at # "idle"
      <4>1. proc'[p].call = proc[p].call /\ proc'[p].mask = M /\ (proc'[p].again => proc[p].again)
        BY <1>4, <3>2
      <4>2. proc'[p].at = "write_ctl" => proc'[p].b \in Words
        BY <1>4, <1>8
      <4>3. InLockCall(p)'
        BY <1>8, <4>1 DEF InLockCall
      <4>4. QED
        BY <1>5, <1>8, <1>18, <2>1, <3>2, <4>1, <4>2, <4>3 DEF ProcTyped
    <3>3. QED
      BY <3>1, <3>2
  <2>3. \A q \in Procs \ {p} : ProcTyped(q)'
    BY <1>2, <1>4, <1>18, OthersTyped DEF LockInv
  <2>4. QED
    BY <1>14, <1>18, <2>2, <2>3 DEF CallTyped
<1>20. LockExclusive' /\ ReadSoFar'
  <2>1. \A q \in Procs \ {p} : proc'[q].at \notin {"read_ctl", "write_ctl", "masked"}
    BY <1>4, <1>7
  <2>2. proc'[p].at = "write_ctl" => lock_holder' = p
    BY <1>1, <1>2, <1>4 DEF LockInv, LockExclusive
  <2>3. QED
    BY <1>5, <2>1, <2>2 DEF LockExclusive, ReadSoFar, At
<1>21. WrittenSoFar'
  <2>1. CASE LastWord(p)
    BY <1>4, <1>7, <2>1 DEF WrittenSoFar, At
  <2>2. CASE ~LastWord(p)
    <3>1. proc'[p].b = w + 1 /\ proc'[p].vector = V
      BY <1>4, <2>2
    <3>2. NewVector(p)' = N
      BY <1>4, <2>2 DEF NewVector, N, V, M
    <3>3. QED
      BY <1>4, <1>7, <1>8, <1>12, <3>1, <3>2 DEF WrittenSoFar, At
  <2>3. QED
    BY <2>1, <2>2
<1>22. HeldIsLocked'
  <2>1. ASSUME NEW q \in Procs \ {p}
        PROVE  /\ (lock_ctl' \cap Owns[q]) \ proc'[q].mask = holds'[q] \ proc'[q].mask
               /\ proc'[q].call = "unlock" => holds'[q] \cap proc'[q].mask = {}
    <3>1. lock_ctl' \cap Owns[q] = lock_ctl \cap Owns[q]
      BY <1>15, <1>17
    <3>2. QED
      BY <1>2, <1>4, <1>18, <3>1 DEF LockInv, HeldIsLocked
  <2>2. /\ (lock_ctl' \cap Owns[p]) \ proc'[p].mask = holds'[p] \ proc'[p].mask
        /\ proc'[p].call = "unlock" => holds'[p] \cap proc'[p].mask = {}
    <3>1. CASE proc'[p].at # "idle"
      <4>1. proc'[p].mask = M /\ proc'[p].call = proc[p].call /\ holds'[p] = holds[p]
        BY <1>4, <3>1
      <4>2. QED
        BY <1>15, <1>16, <4>1
    <3>2. CASE proc'[p].at = "idle"
      <4>1. /\ LastWord(p) /\ proc'[p].call = "none" /\ proc'[p].mask = {}
            /\ holds' = IF proc[p].call = "lock" THEN [holds EXCEPT ![p] = @ \cup M] ELSE holds
        BY <1>4, <3>2
      <4>2. lock_ctl' = N
        BY <1>13, <4>1
      <4>3. CASE proc[p].call = "lock"
        <5>1. holds'[p] = holds[p] \cup M
          BY <1>16, <4>1, <4>3
        <5>2. lock_ctl' \cap Owns[p] = holds[p] \cup M
          BY <1>8, <1>10, <1>15, <1>16, <4>2, <4>3
        <5>3. QED
          BY <4>1, <5>1, <5>2
      <4>4. CASE proc[p].call = "unlock"
        <5>1. holds'[p] = holds[p]
          BY <4>1, <4>4
        <5>2. lock_ctl' \cap Owns[p] = holds[p]
          BY <1>11, <1>15, <1>16, <4>2, <4>4
        <5>3. QED
          BY <4>1, <5>1, <5>2
      <4>5. QED
        BY <1>8, <4>3, <4>4 DEF InLockCall
    <3>3. QED
      BY <3>1, <3>2
  <2>3. QED
    BY <2>1, <2>2 DEF HeldIsLocked
<1>23. QED
  BY <1>4, <1>6, <1>19, <1>20, <1>21, <1>22 DEF IInv, LockInv

(* The vector was read and is returned.                                    *)
LEMMA FinishVectorKeeps ==
  ASSUME IInv, NEW p \in Procs, FinishVector(p)
  PROVE  IInv'
<1>1. /\ proc[p].at = "masked" /\ lock_holder' = Nobody
      /\ proc' = [proc EXCEPT ![p].at = "returned", ![p].ret = 0]
      /\ UNCHANGED <<lock_ctl, holds>>
      /\ UNCHANGED <<flag, counters, msg_holder>>
  BY DEF FinishVector, Returned, At, hardware
<1>2. Shaped /\ LockInv /\ CountInv
  BY DEF IInv
<1>3. /\ Shaped' /\ \A q \in Procs \ {p} : proc'[q] = proc[q]
      /\ proc'[p].at = "returned"
      /\ proc'[p].call = proc[p].call /\ proc'[p].mask = proc[p].mask
      /\ proc'[p].again = proc[p].again
  BY <1>1, <1>2 DEF Shaped, FieldNames
<1>4. CountInv'
  BY <1>1, <1>2, <1>3, CountInvOf DEF Outside, MsgSteps
<1>5. \A q \in Procs \ {p} : proc[q].at \notin {"read_ctl", "write_ctl", "masked"}
  BY <1>1, <1>2 DEF LockInv, LockExclusive
<1>6. CallTyped'
  <2>1. ProcTyped(p)
    BY <1>2 DEF LockInv, CallTyped
  <2>2. ~InLockCall(p) /\ ~InLockCall(p)'
    BY <1>1, <1>3, <2>1 DEF ProcTyped, InLockCall
  <2>3. ProcTyped(p)'
    BY <1>1, <1>3, <2>1, <2>2 DEF ProcTyped
  <2>4. \A q \in Procs \ {p} : ProcTyped(q)'
    BY <1>1, <1>2, <1>3, OthersTyped DEF LockInv
  <2>5. QED
    BY <1>1, <1>2, <2>3, <2>4 DEF LockInv, CallTyped
<1>7. LockExclusive' /\ ReadSoFar' /\ WrittenSoFar'
  BY <1>3, <1>5 DEF LockExclusive, ReadSoFar, WrittenSoFar, At
<1>8. HeldIsLocked'
  <2>1. \A q \in Procs : proc'[q].call = proc[q].call /\ proc'[q].mask = proc[q].mask
    BY <1>3
  <2>2. HeldIsLocked /\ lock_ctl' = lock_ctl /\ holds' = holds
    BY <1>1, <1>2 DEF LockInv
  <2>3. QED
    BY <2>1, <2>2 DEF HeldIsLocked
<1>9. QED
  BY <1>3, <1>4, <1>6, <1>7, <1>8 DEF IInv, LockInv

-----------------------------------------------------------------------------
(* The invariant holds, and what follows from it.                          *)

(* Nobody has called anything yet.                                         *)
LEMMA InitIInv ==
  ASSUME Init
  PROVE  IInv
<1>1. /\ lock_ctl = {} /\ proc = [p \in Procs |-> IdleProc] /\ holds = [p \in Procs |-> {}]
      /\ flag = [b \in Bufs |-> FALSE] /\ overwritten = [b \in Bufs |-> 0]
      /\ raised = [b \in Bufs |-> 0] /\ reported = [b \in Bufs |-> 0] /\ discarded = [b \in Bufs |-> 0]
  BY DEF Init
<1>2. Shaped
  BY <1>1 DEF Shaped, IdleProc, FieldNames
<1>3. \A p \in Procs : /\ proc[p].call = "none" /\ proc[p].at = "idle" /\ proc[p].mask = {}
                       /\ proc[p].again = FALSE /\ holds[p] = {}
  BY <1>1 DEF IdleProc
<1>4. CallTyped
  <2>1. holds \in [Procs -> SUBSET Bufs]
    BY <1>1
  <2>2. \A p \in Procs : ProcTyped(p)
    BY <1>3 DEF ProcTyped, InLockCall
  <2>3. QED
    BY <1>1, <2>1, <2>2 DEF CallTyped
<1>5. LockExclusive /\ ReadSoFar /\ WrittenSoFar /\ HeldIsLocked
  BY <1>1, <1>3 DEF LockExclusive, ReadSoFar, WrittenSoFar, HeldIsLocked, At
<1>6. Counted /\ MsgExclusive
  BY <1>1, <1>3 DEF Counted, MsgExclusive
<1>7. \A b \in Bufs : InFlight(b) = 0
  <2>1. \A b \in Bufs : Counting(b) = {}
    BY <1>3 DEF Counting, At
  <2>2. QED
    BY <2>1, FS_EmptySet DEF InFlight, Counting
<1>8. OverwrittenConserved
  <2>1. ASSUME NEW b \in Bufs
        PROVE  raised[b] = (IF flag[b] THEN 1 ELSE 0) + InFlight(b) + overwritten[b] + reported[b] + discarded[b]
    <3>1. /\ raised[b] = 0 /\ flag[b] = FALSE /\ overwritten[b] = 0 /\ reported[b] = 0 /\ discarded[b] = 0
          /\ InFlight(b) = 0
      BY <1>1, <1>7
    <3>2. QED
      BY <3>1
  <2>2. QED
    BY <2>1 DEF OverwrittenConserved
<1>9. QED
  BY <1>2, <1>4, <1>5, <1>6, <1>8 DEF IInv, LockInv, CountInv

(* Nothing the invariant looks at changes in a stuttering step.            *)
LEMMA StutterKeeps ==
  ASSUME IInv, UNCHANGED vars
  PROVE  IInv'
<1>1. /\ UNCHANGED <<lock_ctl, lock_holder, holds, msg_holder, proc>>
      /\ UNCHANGED <<flag, overwritten, raised, reported, discarded>>
  BY DEF vars, hardware, locking, counters
<1>2. Shaped' /\ \A q \in Procs : Same(q)
  BY <1>1 DEF IInv, Shaped, Same
<1>3. LockInv' /\ MsgExclusive' /\ \A b \in Bufs : InFlight(b)' = InFlight(b)
  BY <1>1, <1>2, AllSame
<1>4. CountInv'
  BY <1>1, <1>3 DEF IInv, CountInv, Counted, OverwrittenConserved
<1>5. QED
  BY <1>2, <1>3, <1>4 DEF IInv

(* The invariant of the locks and counters is inductive.                   *)
LEMMA NextKeeps ==
  ASSUME IInv, [Next]_vars
  PROVE  IInv'
<1>1. ASSUME NEW p \in Procs, Calls(p)
      PROVE  IInv'
  <2>1. ASSUME NEW mask \in SUBSET Owns[p] \ {{}}, BeginLock(p, mask) \/ BeginUnlock(p, mask)
        PROVE  IInv'
    <3>1. mask \in SUBSET Owns[p]
      OBVIOUS
    <3>2. QED
      BY <2>1, <3>1, BeginVectorKeeps
  <2>2. ASSUME BeginVector(p) PROVE IInv'
    BY <2>2, BeginVectorKeeps
  <2>3. ASSUME NEW kind \in {"read", "write"}, NEW b \in Bufs, BeginAccess(p, kind, b)
        PROVE  IInv'
    BY <2>3, BeginKeeps
  <2>4. ASSUME NEW b \in Bufs, ReadOverwritten(p, b) \/ BeginAlias(p, b)
        PROVE  IInv'
    BY <2>4, ReadOverwrittenKeeps, BeginKeeps
  <2>5. QED
    BY <1>1, <2>1, <2>2, <2>3, <2>4 DEF Calls
<1>2. ASSUME NEW p \in Procs, Proceed(p)
      PROVE  IInv'
  BY <1>2, TakeLockCtlKeeps, ReadLockCtlKeeps, WriteLockCtlKeeps, FinishVectorKeeps, ProceedKeeps,
     TakeMsgbufKeeps, ReadStatusKeeps, CountOverwrittenKeeps, CopyOutKeeps, CopyInKeeps DEF Proceed
<1>3. ASSUME ApplyConfig \/ Configure
      PROVE  IInv'
  BY <1>3, ConfigureKeeps, ClearStatusKeeps, ClearCounterKeeps DEF Configure
<1>4. ASSUME NEW b \in Bufs, Receive(b) \/ Send(b)
      PROVE  IInv'
  BY <1>4, HardwareKeeps
<1>5. QED
  BY <1>1, <1>2, <1>3, <1>4, StutterKeeps DEF Next

(* Locks and counters agree with what the processes do, in every state.    *)
THEOREM InvariantHolds == Spec => []IInv
<1>1. Init => IInv
  BY InitIInv
<1>2. IInv /\ [Next]_vars => IInv'
  BY NextKeeps
<1>3. QED
  BY <1>1, <1>2, PTL DEF Spec

(* lock_msg_bufs_write(), unlock_msg_bufs_write(): whatever others lock    *)
(* and unlock at the same time, a process that does neither finds exactly  *)
(* those of its buffers locked that it locked and did not unlock.          *)
THEOREM LocksFollowCalls == Spec => []LocksAsCalled
<1>1. ASSUME IInv, NEW p \in Procs, ~InLockCall(p)
      PROVE  lock_ctl \cap Owns[p] = holds[p]
  <2>1. proc[p].mask = {}
    BY <1>1 DEF IInv, LockInv, CallTyped, ProcTyped
  <2>2. (lock_ctl \cap Owns[p]) \ proc[p].mask = holds[p] \ proc[p].mask
    BY <1>1 DEF IInv, LockInv, HeldIsLocked
  <2>3. QED
    BY <2>1, <2>2
<1>2. IInv => LocksAsCalled
  BY <1>1 DEF LocksAsCalled
<1>3. QED
  BY <1>2, InvariantHolds, PTL

(* msgbuf_read_status(), overwritten_read(), acm_dev_deactivate(): an      *)
(* overwritten message is in the status register, known to one process,    *)
(* counted, reported or discarded with its configuration, and only once.   *)
THEOREM OverwrittenIsConserved == Spec => []OverwrittenConserved
<1>1. IInv => OverwrittenConserved
  BY DEF IInv, CountInv
<1>2. QED
  BY <1>1, InvariantHolds, PTL

-----------------------------------------------------------------------------
(* Loops.  What a loop computes is a function of the number of rounds.     *)

(* A set of natural numbers has a least one.                               *)
LEMMA Least ==
  ASSUME NEW S \in SUBSET Nat, S # {}
  PROVE  \E x \in S : \A y \in S : x <= y
<1> DEFINE R == OpToRel(<, Nat)
           Q == {ss \in Nat \X Nat : ss[1] < ss[2]}
<1>1. IsWellFoundedOn(R, Nat)
  BY NatLessThanWellFounded, Zenon
<1>2. R = Q
  BY Zenon DEF OpToRel
<1> HIDE DEF R
<1>3. PICK x \in S : \A y \in S : ~(<<y, x>> \in Q)
  BY <1>1, <1>2, WFMin, Zenon
<1>4. ASSUME NEW y \in S PROVE x <= y
  <2>1. <<y, x>> \in Nat \X Nat
    OBVIOUS
  <2>2. ~(y < x)
    BY <1>3, <2>1
  <2> QED
    BY <2>2
<1> QED
  BY <1>4

(* What holds before the first round and after every further one holds     *)
(* after all of them.                                                      *)
LEMMA RoundsInduction ==
  ASSUME NEW n \in Nat, NEW P \in SUBSET Nat, 0 \in P, \A k \in 1 .. n : k - 1 \in P => k \in P
  PROVE  0 .. n \subseteq P
<1> SUFFICES ASSUME (0 .. n) \ P # {} PROVE FALSE
  OBVIOUS
<1>1. PICK k \in (0 .. n) \ P : \A y \in (0 .. n) \ P : k <= y
  <2> DEFINE S == (0 .. n) \ P
  <2>1. S \in SUBSET Nat /\ S # {}
    OBVIOUS
  <2> HIDE DEF S
  <2>2. \E x \in S : \A y \in S : x <= y
    BY <2>1, Least
  <2> QED
    BY <2>2 DEF S
<1>2. k # 0 /\ k - 1 \in 0 .. n /\ k \in 1 .. n
  BY <1>1
<1>3. k - 1 \in P
  BY <1>1, <1>2
<1> QED
  BY <1>1, <1>2, <1>3

(* The values of a loop of n rounds, from a.                               *)
Rounds(n, S, a, round) ==
    { f \in [0 .. n -> S] : f[0] = a /\ \A k \in 1 .. n : f[k] = round[k][f[k - 1]] }

(* A loop over a list of n elements computes something: the function of    *)
(* the rounds done exists.                                                 *)
LEMMA RoundsExist ==
  ASSUME NEW n \in Nat, NEW S, NEW a \in S, NEW round \in [1 .. n -> [S -> S]]
  PROVE  Rounds(n, S, a, round) # {}
<1> DEFINE P == { m \in 0 .. n : \E f \in [0 .. m -> S] :
                    f[0] = a /\ \A k \in 1 .. m : f[k] = round[k][f[k - 1]] }
<1>1. 0 \in P
  <2> DEFINE f == [k \in 0 .. 0 |-> a]
  <2>1. f \in [0 .. 0 -> S] /\ f[0] = a /\ \A k \in 1 .. 0 : f[k] = round[k][f[k - 1]]
    OBVIOUS
  <2> HIDE DEF f
  <2> QED
    BY <2>1
<1>2. ASSUME NEW m \in 1 .. n, m - 1 \in P
      PROVE  m \in P
  <2>1. PICK f \in [0 .. m - 1 -> S] : f[0] = a /\ \A k \in 1 .. m - 1 : f[k] = round[k][f[k - 1]]
    BY <1>2
  <2> DEFINE g == [k \in 0 .. m |-> IF k = m THEN round[m][f[m - 1]] ELSE f[k]]
  <2>2. m - 1 \in 0 .. m - 1 /\ f[m - 1] \in S /\ round[m][f[m - 1]] \in S
    BY <2>1
  <2>3. g \in [0 .. m -> S] /\ g[0] = a
    BY <2>1, <2>2
  <2>4. \A k \in 1 .. m : g[k] = round[k][g[k - 1]]
    <3> TAKE k \in 1 .. m
    <3>1. k - 1 \in 0 .. m - 1 /\ g[k - 1] = f[k - 1]
      OBVIOUS
    <3>2. CASE k = m
      BY <3>1, <3>2
    <3>3. CASE k # m
      <4>1. k \in 1 .. m - 1 /\ g[k] = f[k]
        BY <3>3
      <4> QED
        BY <2>1, <3>1, <4>1
    <3> QED
      BY <3>2, <3>3
  <2> HIDE DEF g
  <2>5. \E h \in [0 .. m -> S] : h[0] = a /\ \A k \in 1 .. m : h[k] = round[k][h[k - 1]]
    BY <2>3, <2>4
  <2>6. m \in 0 .. n
    OBVIOUS
  <2> QED
    BY <2>5, <2>6, Zenon
<1>3. P \subseteq Nat
  OBVIOUS
<1> HIDE DEF P
<1>4. n \in P
  <2>1. 0 .. n \subseteq P
    BY <1>1, <1>2, <1>3, RoundsInduction
  <2> QED
    BY <2>1
<1>5. PICK f \in [0 .. n -> S] : f[0] = a /\ \A k \in 1 .. n : f[k] = round[k][f[k - 1]]
  BY <1>4 DEF P
<1> QED
  BY <1>5 DEF Rounds

-----------------------------------------------------------------------------
(* The layout of the buffers of a configuration.                           *)

BufferRecords == [name : Names, dir : {"RX", "TX"}, offset : Nat, size : Nat]
Lists == [buffers : Seq(BufferRecords), offset : Nat, failed : BOOLEAN]

End(buffer) == buffer.offset + buffer.size

(* Each name has one buffer, and each buffer starts where the one before   *)
(* it ends.                                                                *)
LaidOut(list) ==
    /\ \A i, j \in DOMAIN list.buffers : list.buffers[i].name = list.buffers[j].name => i = j
    /\ \A j \in DOMAIN list.buffers :
         End(list.buffers[j]) = IF j = Len(list.buffers) THEN list.offset ELSE list.buffers[j + 1].offset
    /\ \A i, j \in DOMAIN list.buffers : i < j => End(list.buffers[i]) <= list.buffers[j].offset
    /\ \A j \in DOMAIN list.buffers : End(list.buffers[j]) <= list.offset

LaidLists == { list \in Lists : LaidOut(list) }

(* The list has a buffer for what op reads or inserts.                     *)
Serves(list, op) ==
    op.opcode = "FORWARD" \/ list.failed \/
    \E k \in NamedAs(list.buffers, op) :
      list.buffers[k].dir = Direction(op) /\ Units(op) <= list.buffers[k].size

(* After a list has grown it has the buffers it had, and they are as large.*)
Extends(list, longer) ==
    /\ list.failed => longer.failed
    /\ DOMAIN list.buffers \subseteq DOMAIN longer.buffers
    /\ \A k \in DOMAIN list.buffers :
         /\ longer.buffers[k].name = list.buffers[k].name
         /\ longer.buffers[k].dir = list.buffers[k].dir
         /\ longer.buffers[k].size >= list.buffers[k].size

(* What a list of buffers consists of.                                     *)
LEMMA RecordsTyped ==
  ASSUME NEW list \in Lists
  PROVE  /\ list.buffers \in Seq(BufferRecords) /\ list.offset \in Nat /\ list.failed \in BOOLEAN
         /\ Len(list.buffers) \in Nat /\ DOMAIN list.buffers = 1 .. Len(list.buffers)
         /\ \A k \in DOMAIN list.buffers :
              /\ list.buffers[k] \in BufferRecords /\ list.buffers[k].dir \in {"RX", "TX"}
              /\ list.buffers[k].offset \in Nat /\ list.buffers[k].size \in Nat
<1>1. list.buffers \in Seq(BufferRecords) /\ list.offset \in Nat /\ list.failed \in BOOLEAN
  BY DEF Lists
<1>2. Len(list.buffers) \in Nat /\ DOMAIN list.buffers = 1 .. Len(list.buffers)
      /\ \A k \in DOMAIN list.buffers : list.buffers[k] \in BufferRecords
  BY <1>1
<1>3. \A k \in DOMAIN list.buffers : /\ list.buffers[k].dir \in {"RX", "TX"}
        /\ list.buffers[k].offset \in Nat /\ list.buffers[k].size \in Nat
  BY <1>2 DEF BufferRecords
<1> QED
  BY <1>1, <1>2, <1>3

(* An operation that finds its buffer in a list finds it in a longer one:  *)
(* buffers are added at the end and grow.                                  *)
LEMMA ServesLonger ==
  ASSUME NEW list \in Lists, NEW longer \in Lists, Extends(list, longer), NEW op \in Operations,
         Units(op) \in Nat, Serves(list, op)
  PROVE  Serves(longer, op)
<1>1. CASE op.opcode = "FORWARD" \/ list.failed
  BY <1>1 DEF Serves, Extends
<1>2. CASE ~(op.opcode = "FORWARD" \/ list.failed)
  <2>1. PICK k \in NamedAs(list.buffers, op) :
          list.buffers[k].dir = Direction(op) /\ Units(op) <= list.buffers[k].size
    BY <1>2 DEF Serves
  <2>2. k \in DOMAIN list.buffers /\ list.buffers[k].name = op.name
    BY DEF NamedAs
  <2>3. k \in DOMAIN longer.buffers /\ longer.buffers[k].name = op.name
        /\ longer.buffers[k].dir = Direction(op) /\ longer.buffers[k].size >= list.buffers[k].size
    BY <2>1, <2>2 DEF Extends
  <2>4. list.buffers[k].size \in Nat /\ longer.buffers[k].size \in Nat
    BY <2>2, <2>3, RecordsTyped
  <2>5. Units(op) <= longer.buffers[k].size
    BY <2>1, <2>3, <2>4
  <2>6. k \in NamedAs(longer.buffers, op)
    BY <2>3 DEF NamedAs
  <2> QED
    BY <2>3, <2>5, <2>6 DEF Serves
<1> QED
  BY <1>1, <1>2

(* The units of an operation hold it.                                      *)
LEMMA UnitsHold ==
  ASSUME NEW op \in Operations
  PROVE  /\ Units(op) \in Nat /\ OpLen(op) \in Nat /\ Direction(op) \in {"RX", "TX"}
         /\ \A size \in Nat : Units(op) <= size => OpLen(op) <= size * Granularity
<1>1. OpLen(op) \in Nat /\ Direction(op) \in {"RX", "TX"}
  BY DEF Operations, OpLen, SIZE_TIMESTAMP, Direction
<1> DEFINE x == OpLen(op)
           q == x \div Granularity
           r == x % Granularity
<1>2. q \in Nat /\ r \in Nat /\ x = q * Granularity + r /\ r < Granularity
  BY <1>1, GranularityAssumption
<1>3. Units(op) = q + (IF r > 0 THEN 1 ELSE 0)
  BY DEF Units
<1> HIDE DEF x, q, r
<1>4. ASSUME NEW size \in Nat, Units(op) <= size
      PROVE  x <= size * Granularity
  <2>1. PICK n \in Nat : size = Units(op) + n
    <3>1. Units(op) \in Nat
      BY <1>2, <1>3
    <3>2. size - Units(op) \in Nat /\ size = Units(op) + (size - Units(op))
      BY <1>4, <3>1
    <3> QED
      BY <3>2
  <2>2. Granularity \in Nat /\ n * Granularity \in Nat
    BY GranularityAssumption
  <2>3. CASE r > 0
    <3>1. size = q + 1 + n
      BY <1>3, <2>1, <2>3
    <3>2. size * Granularity = q * Granularity + Granularity + n * Granularity
      BY <1>2, <2>2, <3>1
    <3>3. q * Granularity \in Nat
      BY <1>2, <2>2
    <3> QED
      BY <1>2, <2>2, <3>2, <3>3
  <2>4. CASE ~(r > 0)
    <3>1. size = q + n /\ r = 0
      BY <1>2, <1>3, <2>1, <2>4
    <3>2. size * Granularity = q * Granularity + n * Granularity
      BY <1>2, <2>2, <3>1
    <3>3. q * Granularity \in Nat
      BY <1>2, <2>2
    <3> QED
      BY <1>2, <2>2, <3>1, <3>2, <3>3
  <2> QED
    BY <2>3, <2>4
<1> QED
  BY <1>1, <1>2, <1>3, <1>4 DEF x

(* When buffers[k] grows, those behind it start later by as much.          *)
LEMMA OffsetsShift ==
  ASSUME NEW list \in LaidLists, NEW k \in DOMAIN list.buffers, NEW u \in Nat, u > list.buffers[k].size
  PROVE  OffsetsAfter([list.buffers EXCEPT ![k].size = u], k) =
           [j \in DOMAIN list.buffers |->
              IF j < k THEN list.buffers[j]
              ELSE IF j = k THEN [list.buffers[k] EXCEPT !.size = u]
              ELSE [list.buffers[j] EXCEPT !.offset = list.buffers[j].offset + (u - list.buffers[k].size)]]
<1> DEFINE bs == list.buffers
           n == Len(bs)
           grown == [bs EXCEPT ![k].size = u]
           d == u - bs[k].size
<1>1. bs \in Seq(BufferRecords) /\ n \in Nat /\ DOMAIN bs = 1 .. n /\ LaidOut(list)
  BY RecordsTyped DEF LaidLists
<1>2. \A j \in 1 .. n : bs[j] \in BufferRecords /\ bs[j].offset \in Nat /\ bs[j].size \in Nat
  BY <1>1, RecordsTyped DEF LaidLists
<1>3. k \in 1 .. n /\ d \in Nat
  BY <1>1, <1>2
<1>4. \A j \in 1 .. n : j # n => bs[j].offset + bs[j].size = bs[j + 1].offset
  BY <1>1 DEF LaidOut, End
<1>5. Len(grown) = n /\ DOMAIN grown = 1 .. n
  BY <1>1
<1>6. grown[k] = [bs[k] EXCEPT !.size = u] /\ \A j \in 1 .. n : j # k => grown[j] = bs[j]
  BY <1>1, <1>3
<1>7. grown[k].offset = bs[k].offset /\ grown[k].size = u
  BY <1>2, <1>3, <1>6 DEF BufferRecords
<1> DEFINE w == [j \in 0 .. n |-> IF j < k THEN 0 ELSE bs[j].offset + bs[j].size + d]
           C == ChangedOffset(grown, k)
<1> HIDE DEF bs, n, grown, d
<1>8. w = [j \in 0 .. n |-> IF j < k THEN 0
                           ELSE IF j = k THEN grown[k].offset + grown[k].size
                           ELSE w[j - 1] + grown[j].size]
  <2>1. \A j \in 0 .. n : w[j] = IF j < k THEN 0
                                 ELSE IF j = k THEN grown[k].offset + grown[k].size
                                 ELSE w[j - 1] + grown[j].size
    <3> TAKE j \in 0 .. n
    <3>1. CASE j < k
      BY <3>1
    <3>2. CASE j = k
      <4>1. w[k] = bs[k].offset + bs[k].size + d
        BY <1>3
      <4>2. bs[k].offset \in Nat /\ bs[k].size \in Nat /\ bs[k].size + d = u
        BY <1>2, <1>3 DEF d, bs
      <4> QED
        BY <1>3, <1>7, <3>2, <4>1, <4>2
    <3>3. CASE j > k
      <4>1. j \in 1 .. n /\ j - 1 \in 1 .. n /\ j - 1 # n /\ ~(j - 1 < k) /\ j # k
        BY <1>1, <1>3, <3>3
      <4>2. w[j - 1] = bs[j - 1].offset + bs[j - 1].size + d /\ w[j] = bs[j].offset + bs[j].size + d
        BY <1>1, <1>3, <3>3, <4>1
      <4>3. bs[j - 1].offset + bs[j - 1].size = bs[j].offset
        BY <1>4, <4>1
      <4>4. grown[j] = bs[j] /\ bs[j].offset \in Nat /\ bs[j].size \in Nat /\ d \in Nat
            /\ bs[j - 1].offset \in Nat /\ bs[j - 1].size \in Nat
        BY <1>2, <1>3, <1>6, <4>1
      <4>5. w[j] = w[j - 1] + grown[j].size
        <5> HIDE DEF w
        <5> QED
          BY <4>2, <4>3, <4>4
      <4> QED
        BY <3>3, <4>5
    <3> QED
      BY <1>1, <1>3, <3>1, <3>2, <3>3
  <2> DEFINE v == [j \in 0 .. n |-> IF j < k THEN 0
                                    ELSE IF j = k THEN grown[k].offset + grown[k].size
                                    ELSE w[j - 1] + grown[j].size]
  <2>2. \A j \in 0 .. n : w[j] = v[j]
    BY <2>1
  <2>3. w = [j \in 0 .. n |-> w[j]] /\ v = [j \in 0 .. n |-> v[j]]
    OBVIOUS
  <2> HIDE DEF w, v
  <2>4. w = v
    BY <2>2, <2>3
  <2> QED
    BY <2>4 DEF v
<1>9. C = [j \in 0 .. n |-> IF j < k THEN 0
                           ELSE IF j = k THEN grown[k].offset + grown[k].size
                           ELSE C[j - 1] + grown[j].size]
  <2>1. C = CHOOSE f : f = [j \in 0 .. n |-> IF j < k THEN 0
                                            ELSE IF j = k THEN grown[k].offset + grown[k].size
                                            ELSE f[j - 1] + grown[j].size]
    BY <1>5 DEF ChangedOffset
  <2> HIDE DEF C, w
  <2> QED
    BY <1>8, <2>1, Zenon
<1> DEFINE P == { j \in 0 .. n : C[j] = w[j] }
<1>10. 0 .. n \subseteq P
  <2> HIDE DEF C, w
  <2>1. P \subseteq Nat
    BY <1>1
  <2>2. 0 \in P
    BY <1>1, <1>3, <1>8, <1>9
  <2>3. \A j \in 1 .. n : j - 1 \in P => j \in P
    <3> TAKE j \in 1 .. n
    <3> HAVE j - 1 \in P
    <3>1. j \in 0 .. n /\ C[j - 1] = w[j - 1]
      BY <1>1
    <3>2. C[j] = w[j]
      BY <1>8, <1>9, <3>1
    <3> QED
      BY <3>1, <3>2
  <2> HIDE DEF P
  <2> QED
    BY <1>1, <2>1, <2>2, <2>3, RoundsInduction
<1>11. \A j \in 1 .. n : j > k => C[j - 1] = bs[j].offset + d
  <2> TAKE j \in 1 .. n
  <2> HAVE j > k
  <2>1. j - 1 \in 0 .. n /\ j - 1 \in 1 .. n /\ j - 1 # n /\ ~(j - 1 < k)
    BY <1>1, <1>3
  <2>2. C[j - 1] = w[j - 1]
    BY <1>10, <2>1
  <2>3. w[j - 1] = bs[j - 1].offset + bs[j - 1].size + d
    BY <2>1
  <2>4. bs[j - 1].offset + bs[j - 1].size = bs[j].offset
    BY <1>4, <2>1
  <2> QED
    BY <2>2, <2>3, <2>4
<1> HIDE DEF C, w
<1>12. OffsetsAfter(grown, k) = [j \in 1 .. n |-> IF j <= k THEN grown[j] ELSE [grown[j] EXCEPT !.offset = C[j - 1]]]
  BY <1>5 DEF OffsetsAfter, C
<1>13. \A j \in 1 .. n :
         (IF j <= k THEN grown[j] ELSE [grown[j] EXCEPT !.offset = C[j - 1]]) =
         (IF j < k THEN bs[j] ELSE IF j = k THEN [bs[k] EXCEPT !.size = u] ELSE [bs[j] EXCEPT !.offset = bs[j].offset + d])
  <2> TAKE j \in 1 .. n
  <2>1. CASE j < k
    BY <1>3, <1>6, <2>1
  <2>2. CASE j = k
    BY <1>3, <1>6, <2>2
  <2>3. CASE j > k
    <3>1. C[j - 1] = bs[j].offset + d /\ grown[j] = bs[j]
      BY <1>3, <1>6, <1>11, <2>3
    <3> QED
      BY <1>3, <2>3, <3>1
  <2> QED
    BY <1>3, <2>1, <2>2, <2>3
<1>14. OffsetsAfter(grown, k) =
         [j \in 1 .. n |-> IF j < k THEN bs[j] ELSE IF j = k THEN [bs[k] EXCEPT !.size = u]
                           ELSE [bs[j] EXCEPT !.offset = bs[j].offset + d]]
  BY <1>12, <1>13
<1> QED
  BY <1>1, <1>14 DEF bs, grown, d

(* A shared buffer grows: the list stays laid out.                         *)
LEMMA GrownLaid ==
  ASSUME NEW list \in LaidLists, NEW k \in DOMAIN list.buffers, NEW op \in Operations
  PROVE  /\ Grown(list, k, op) \in LaidLists /\ Extends(list, Grown(list, k, op))
         /\ Units(op) <= Grown(list, k, op).buffers[k].size
         /\ Grown(list, k, op).failed = list.failed
<1> DEFINE bs == list.buffers
           n == Len(bs)
           u == Units(op)
           d == u - bs[k].size
           longer == Grown(list, k, op)
<1>1. /\ bs \in Seq(BufferRecords) /\ n \in Nat /\ DOMAIN bs = 1 .. n
      /\ list \in Lists /\ LaidOut(list) /\ list.offset \in Nat /\ u \in Nat
  BY RecordsTyped, UnitsHold DEF LaidLists
<1>2. \A j \in 1 .. n : bs[j] \in BufferRecords /\ bs[j].offset \in Nat /\ bs[j].size \in Nat
  BY <1>1, RecordsTyped
<1>3. CASE u <= bs[k].size
  <2>1. longer = list
    BY <1>3 DEF Grown
  <2>2. Extends(list, list)
    BY <1>1, <1>2 DEF Extends
  <2> QED
    BY <1>3, <2>1, <2>2
<1>4. CASE ~(u <= bs[k].size)
  <2>1. k \in 1 .. n /\ d \in Nat /\ u > bs[k].size
    BY <1>1, <1>2, <1>4
  <2> DEFINE new == [j \in DOMAIN bs |-> IF j < k THEN bs[j]
                       ELSE IF j = k THEN [bs[k] EXCEPT !.size = u]
                       ELSE [bs[j] EXCEPT !.offset = bs[j].offset + d]]
  <2>2. longer = [list EXCEPT !.buffers = new, !.offset = list.offset + d]
    <3>1. OffsetsAfter([bs EXCEPT ![k].size = u], k) = new
      <4>1. u \in Nat /\ u > bs[k].size
        BY <1>1, <2>1
      <4> QED
        BY <4>1, OffsetsShift, Zenon
    <3>2. longer = [list EXCEPT !.buffers = OffsetsAfter([bs EXCEPT ![k].size = u], k),
                                !.offset = list.offset + d]
      BY <1>4 DEF Grown
    <3> HIDE DEF new
    <3> QED
      BY <3>1, <3>2
  <2>0. u = bs[k].size + d
    BY <1>1, <1>2, <2>1
  <2>3. \A j \in 1 .. n :
          /\ new[j] \in BufferRecords
          /\ new[j].name = bs[j].name /\ new[j].dir = bs[j].dir
          /\ new[j].offset = bs[j].offset + (IF j > k THEN d ELSE 0)
          /\ new[j].size = bs[j].size + (IF j = k THEN d ELSE 0)
    <3> TAKE j \in 1 .. n
    <3>1. CASE j < k
      <4>1. new[j] = bs[j]
        BY <3>1
      <4> QED
        BY <1>2, <2>1, <3>1, <4>1
    <3>2. CASE j = k
      <4>1. new[j] = [bs[j] EXCEPT !.size = u] /\ bs[j] \in BufferRecords /\ u \in Nat
        BY <1>1, <1>2, <2>1, <3>2
      <4> HIDE DEF new, d, bs, u
      <4>2. u = bs[j].size + d /\ bs[j].offset = bs[j].offset + 0
        BY <1>1, <1>2, <2>0, <2>1, <3>2
      <4>3. new[j] \in BufferRecords /\ new[j].name = bs[j].name /\ new[j].dir = bs[j].dir
            /\ new[j].offset = bs[j].offset /\ new[j].size = u
        BY <4>1 DEF BufferRecords
      <4> QED
        BY <2>1, <3>2, <4>2, <4>3
    <3>3. CASE j > k
      <4>1. new[j] = [bs[j] EXCEPT !.offset = bs[j].offset + d] /\ bs[j] \in BufferRecords
        BY <1>2, <2>1, <3>3
      <4> HIDE DEF new, d, bs, u
      <4>3. bs[j].offset + d \in Nat /\ bs[j].size = bs[j].size + 0
        BY <1>2, <2>1
      <4>2. new[j] \in BufferRecords /\ new[j].name = bs[j].name /\ new[j].dir = bs[j].dir
            /\ new[j].offset = bs[j].offset + d /\ new[j].size = bs[j].size
        BY <4>1, <4>3 DEF BufferRecords
      <4> QED
        BY <2>1, <3>3, <4>2, <4>3
    <3> QED
      BY <2>1, <3>1, <3>2, <3>3
  <2>4. new \in Seq(BufferRecords) /\ Len(new) = n /\ DOMAIN new = 1 .. n
    <3>1. new \in [1 .. n -> BufferRecords]
      BY <1>1, <2>3
    <3> HIDE DEF new
    <3> QED
      BY <1>1, <3>1
  <2> HIDE DEF new, d, bs, n, u
  <2>5. longer.buffers = new /\ longer.offset = list.offset + d /\ longer.failed = list.failed /\ longer \in Lists
    <3>1. list.offset + d \in Nat
      BY <1>1, <2>1
    <3>2. list \in Lists /\ new \in Seq(BufferRecords)
      BY <1>1, <2>4
    <3> DEFINE o == list.offset + d
    <3>3. longer = [list EXCEPT !.buffers = new, !.offset = o] /\ o \in Nat
      BY <2>2, <3>1
    <3> HIDE DEF o, longer
    <3>4. longer \in Lists /\ longer.buffers = new /\ longer.offset = o /\ longer.failed = list.failed
      BY <3>2, <3>3 DEF Lists
    <3> QED
      BY <3>4 DEF o
  <2> HIDE DEF longer
  <2>6. LaidOut(longer)
    <3>1. \A i, j \in 1 .. n : new[i].name = new[j].name => i = j
      BY <1>1, <2>3 DEF LaidOut, bs
    <3>2. \A j \in 1 .. n : End(new[j]) = End(bs[j]) + (IF j >= k THEN d ELSE 0)
      <4> TAKE j \in 1 .. n
      <4>1. new[j].offset = bs[j].offset + (IF j > k THEN d ELSE 0)
            /\ new[j].size = bs[j].size + (IF j = k THEN d ELSE 0)
            /\ bs[j].offset \in Nat /\ bs[j].size \in Nat
        BY <1>2, <2>3
      <4> QED
        BY <2>1, <4>1 DEF End
    <3>3. \A j \in 1 .. n : End(bs[j]) = IF j = n THEN list.offset ELSE bs[j + 1].offset
      BY <1>1 DEF LaidOut, bs, n
    <3>4. \A i, j \in 1 .. n : i < j => End(bs[i]) <= bs[j].offset
      BY <1>1 DEF LaidOut, bs
    <3>5. \A j \in 1 .. n : End(bs[j]) <= list.offset /\ End(bs[j]) \in Nat
      <4> TAKE j \in 1 .. n
      <4>1. End(bs[j]) <= list.offset
        BY <1>1 DEF LaidOut, bs
      <4>2. End(bs[j]) \in Nat
        BY <1>2 DEF End
      <4> QED
        BY <4>1, <4>2
    <3>6. \A j \in 1 .. n : new[j].offset = bs[j].offset + (IF j > k THEN d ELSE 0) /\ bs[j].offset \in Nat
      BY <1>2, <2>3
    <3>7. \A j \in 1 .. n : End(new[j]) = IF j = n THEN list.offset + d ELSE new[j + 1].offset
      <4> TAKE j \in 1 .. n
      <4>1. CASE j = n
        BY <1>1, <2>1, <3>2, <3>3, <4>1
      <4>2. CASE j # n
        <5>1. j + 1 \in 1 .. n /\ End(bs[j]) = bs[j + 1].offset
          BY <1>1, <3>3, <4>2
        <5>2. new[j + 1].offset = bs[j + 1].offset + (IF j + 1 > k THEN d ELSE 0)
          BY <3>6, <5>1
        <5>3. End(new[j]) = End(bs[j]) + (IF j >= k THEN d ELSE 0)
          BY <3>2
        <5> QED
          BY <2>1, <4>2, <5>1, <5>2, <5>3
      <4> QED
        BY <4>1, <4>2
    <3>8. \A i, j \in 1 .. n : i < j => End(new[i]) <= new[j].offset
      <4> TAKE i, j \in 1 .. n
      <4> HAVE i < j
      <4>1. End(bs[i]) <= bs[j].offset /\ End(bs[i]) \in Nat /\ bs[j].offset \in Nat
        BY <3>4, <3>5, <3>6
      <4>2. End(new[i]) = End(bs[i]) + (IF i >= k THEN d ELSE 0)
            /\ new[j].offset = bs[j].offset + (IF j > k THEN d ELSE 0)
        BY <3>2, <3>6
      <4>3. i >= k => j > k
        BY <2>1
      <4> QED
        BY <2>1, <4>1, <4>2, <4>3
    <3>9. \A j \in 1 .. n : End(new[j]) <= list.offset + d
      <4> TAKE j \in 1 .. n
      <4>1. End(new[j]) = End(bs[j]) + (IF j >= k THEN d ELSE 0)
            /\ End(bs[j]) <= list.offset /\ End(bs[j]) \in Nat
        BY <3>2, <3>5
      <4> QED
        BY <1>1, <2>1, <4>1
    <3> QED
      BY <2>4, <2>5, <3>1, <3>7, <3>8, <3>9 DEF LaidOut
  <2>7. Extends(list, longer)
    <3>1. \A j \in 1 .. n : new[j].name = bs[j].name /\ new[j].dir = bs[j].dir /\ new[j].size >= bs[j].size
      <4> TAKE j \in 1 .. n
      <4>1. new[j].name = bs[j].name /\ new[j].dir = bs[j].dir
            /\ new[j].size = bs[j].size + (IF j = k THEN d ELSE 0) /\ bs[j].size \in Nat
        BY <1>2, <2>3
      <4> QED
        BY <2>1, <4>1
    <3> QED
      BY <1>1, <2>4, <2>5, <3>1 DEF Extends, bs
  <2>8. u <= longer.buffers[k].size
    <3>1. new[k].size = bs[k].size + d /\ bs[k].size \in Nat /\ u \in Nat /\ d = u - bs[k].size
      BY <1>1, <1>2, <2>1, <2>3 DEF d
    <3> QED
      BY <2>5, <3>1
  <2> QED
    BY <2>5, <2>6, <2>7, <2>8 DEF LaidLists, longer, u
<1> QED
  BY <1>3, <1>4

(* A new buffer is put behind the others.                                  *)
LEMMA AppendedLaid ==
  ASSUME NEW list \in LaidLists, NEW op \in Operations, NamedAs(list.buffers, op) = {}
  PROVE  /\ Appended(list, op) \in LaidLists /\ Extends(list, Appended(list, op))
         /\ Serves(Appended(list, op), op)
<1> DEFINE bs == list.buffers
           n == Len(bs)
           u == Units(op)
           rec == [name |-> op.name, dir |-> Direction(op), offset |-> list.offset, size |-> u]
           new == Append(bs, rec)
           longer == Appended(list, op)
<1>1. /\ bs \in Seq(BufferRecords) /\ n \in Nat /\ DOMAIN bs = 1 .. n
      /\ list \in Lists /\ LaidOut(list) /\ list.offset \in Nat /\ u \in Nat
      /\ Direction(op) \in {"RX", "TX"} /\ op.name \in Names
  BY RecordsTyped, UnitsHold DEF LaidLists, Operations
<1>2. \A j \in 1 .. n : bs[j] \in BufferRecords /\ bs[j].offset \in Nat /\ bs[j].size \in Nat /\ bs[j].name # op.name
  BY <1>1, RecordsTyped DEF NamedAs
<1>3. rec \in BufferRecords
  BY <1>1 DEF BufferRecords
<1>4. longer = [list EXCEPT !.buffers = new, !.offset = list.offset + u]
  BY DEF Appended
<1>5. rec.name = op.name /\ rec.dir = Direction(op) /\ rec.offset = list.offset /\ rec.size = u
  OBVIOUS
<1> HIDE DEF rec
<1>6. new \in Seq(BufferRecords) /\ Len(new) = n + 1 /\ DOMAIN new = 1 .. n + 1
      /\ new[n + 1] = rec /\ \A j \in 1 .. n : new[j] = bs[j]
  BY <1>1, <1>3
<1> HIDE DEF new, bs, n, u
<1>7. longer.buffers = new /\ longer.offset = list.offset + u /\ longer.failed = list.failed /\ longer \in Lists
  <2>1. list.offset + u \in Nat
    BY <1>1
  <2>2. list \in Lists /\ new \in Seq(BufferRecords)
    BY <1>1, <1>6
  <2> DEFINE o == list.offset + u
  <2>3. longer = [list EXCEPT !.buffers = new, !.offset = o] /\ o \in Nat
    BY <1>4, <2>1
  <2> HIDE DEF o, longer
  <2>4. longer \in Lists /\ longer.buffers = new /\ longer.offset = o /\ longer.failed = list.failed
    BY <2>2, <2>3 DEF Lists
  <2> QED
    BY <2>4 DEF o
<1> HIDE DEF longer
<1>8. \A j \in 1 .. n : End(bs[j]) <= list.offset /\ End(bs[j]) \in Nat
      /\ End(bs[j]) = (IF j = n THEN list.offset ELSE bs[j + 1].offset)
  BY <1>1, <1>2 DEF LaidOut, End, bs, n
<1>9. LaidOut(longer)
  <2>1. \A i, j \in 1 .. n + 1 : new[i].name = new[j].name => i = j
    <3>1. \A i, j \in 1 .. n : bs[i].name = bs[j].name => i = j
      BY <1>1 DEF LaidOut, bs
    <3>2. \A i \in 1 .. n + 1 : i \in 1 .. n \/ i = n + 1
      BY <1>1
    <3> QED
      BY <1>2, <1>5, <1>6, <3>1, <3>2
  <2>2. End(rec) = list.offset + u
    BY <1>5 DEF End
  <2>3. \A j \in 1 .. n + 1 : End(new[j]) = IF j = n + 1 THEN list.offset + u ELSE new[j + 1].offset
    <3> TAKE j \in 1 .. n + 1
    <3>1. CASE j = n + 1
      BY <1>6, <2>2, <3>1
    <3>2. CASE j = n
      <4>1. j \in 1 .. n /\ new[j + 1].offset = list.offset /\ End(new[j]) = list.offset
        BY <1>1, <1>5, <1>6, <1>8, <3>2
      <4> QED
        BY <1>1, <3>2, <4>1
    <3>3. CASE j # n /\ j # n + 1
      <4>1. j \in 1 .. n /\ j + 1 \in 1 .. n
        BY <1>1, <3>3
      <4> QED
        BY <1>6, <1>8, <3>3, <4>1
    <3> QED
      BY <3>1, <3>2, <3>3
  <2>4. \A i, j \in 1 .. n + 1 : i < j => End(new[i]) <= new[j].offset
    <3> TAKE i, j \in 1 .. n + 1
    <3> HAVE i < j
    <3>1. i \in 1 .. n /\ new[i] = bs[i] /\ End(bs[i]) <= list.offset
      BY <1>1, <1>6, <1>8
    <3>2. CASE j = n + 1
      BY <1>5, <1>6, <3>1, <3>2
    <3>3. CASE j \in 1 .. n
      <4>1. End(bs[i]) <= bs[j].offset
        BY <1>1, <3>1, <3>3 DEF LaidOut, bs
      <4> QED
        BY <1>6, <3>1, <3>3, <4>1
    <3> QED
      BY <1>1, <3>2, <3>3
  <2>5. \A j \in 1 .. n + 1 : End(new[j]) <= list.offset + u
    <3> TAKE j \in 1 .. n + 1
    <3>1. CASE j = n + 1
      BY <1>1, <1>6, <2>2, <3>1
    <3>2. CASE j \in 1 .. n
      <4>1. End(new[j]) = End(bs[j]) /\ End(bs[j]) <= list.offset /\ End(bs[j]) \in Nat
        BY <1>6, <1>8, <3>2
      <4> QED
        BY <1>1, <4>1
    <3> QED
      BY <1>1, <3>1, <3>2
  <2> QED
    BY <1>6, <1>7, <2>1, <2>3, <2>4, <2>5 DEF LaidOut
<1>10. Extends(list, longer)
  <2>1. \A j \in 1 .. n : j \in 1 .. n + 1 /\ new[j].size >= bs[j].size
    BY <1>1, <1>2, <1>6
  <2> QED
    BY <1>1, <1>6, <1>7, <2>1 DEF Extends, bs
<1>11. Serves(longer, op)
  <2>1. n + 1 \in NamedAs(longer.buffers, op) /\ longer.buffers[n + 1].dir = Direction(op)
        /\ u <= longer.buffers[n + 1].size
    BY <1>1, <1>5, <1>6, <1>7 DEF NamedAs
  <2> QED
    BY <2>1 DEF Serves, u
<1> QED
  BY <1>7, <1>9, <1>10, <1>11 DEF LaidLists, longer

(* What one operation does to the list.                                    *)
LEMMA WithOperationLaid ==
  ASSUME NEW list \in LaidLists, NEW op \in Operations
  PROVE  /\ WithOperation(list, op) \in LaidLists /\ Extends(list, WithOperation(list, op))
         /\ Serves(WithOperation(list, op), op)
<1> DEFINE same == NamedAs(list.buffers, op)
<1>1. list \in Lists /\ LaidOut(list)
  BY DEF LaidLists
<1>2. Extends(list, list)
  BY <1>1, RecordsTyped DEF Extends
<1>3. CASE list.failed \/ op.opcode = "FORWARD"
  <2>1. WithOperation(list, op) = list
    BY <1>3 DEF WithOperation
  <2> QED
    BY <1>2, <1>3, <2>1 DEF Serves
<1>4. CASE ~(list.failed \/ op.opcode = "FORWARD") /\ \E k \in same : list.buffers[k].dir # Direction(op)
  <2>1. WithOperation(list, op) = [list EXCEPT !.failed = TRUE]
    BY <1>4 DEF WithOperation
  <2> DEFINE longer == [list EXCEPT !.failed = TRUE]
  <2>2. longer \in Lists /\ longer.buffers = list.buffers /\ longer.offset = list.offset /\ longer.failed = TRUE
    BY <1>1 DEF Lists
  <2> HIDE DEF longer
  <2>3. LaidOut(longer)
    BY <1>1, <2>2 DEF LaidOut
  <2>4. Extends(list, longer) /\ Serves(longer, op)
    BY <1>2, <2>2 DEF Extends, Serves
  <2> QED
    BY <2>1, <2>2, <2>3, <2>4 DEF LaidLists, longer
<1>5. CASE /\ ~(list.failed \/ op.opcode = "FORWARD") /\ ~\E k \in same : list.buffers[k].dir # Direction(op)
           /\ same # {}
  <2> DEFINE k == CHOOSE i \in same : TRUE
  <2>1. k \in same
    BY <1>5
  <2>2. WithOperation(list, op) = Grown(list, k, op)
    BY <1>5 DEF WithOperation
  <2> HIDE DEF k
  <2>3. k \in DOMAIN list.buffers /\ list.buffers[k].name = op.name /\ list.buffers[k].dir = Direction(op)
    BY <1>5, <2>1 DEF NamedAs
  <2> DEFINE longer == Grown(list, k, op)
  <2>4. /\ longer \in LaidLists /\ Extends(list, longer) /\ Units(op) <= longer.buffers[k].size
    BY <2>3, GrownLaid
  <2> HIDE DEF longer
  <2>5. k \in NamedAs(longer.buffers, op) /\ longer.buffers[k].dir = Direction(op)
    BY <2>3, <2>4 DEF Extends, NamedAs
  <2>6. Serves(longer, op)
    BY <2>4, <2>5 DEF Serves
  <2> QED
    BY <2>2, <2>4, <2>6 DEF longer
<1>6. CASE ~(list.failed \/ op.opcode = "FORWARD") /\ same = {}
  <2>1. WithOperation(list, op) = Appended(list, op)
    BY <1>6 DEF WithOperation
  <2> QED
    BY <1>6, <2>1, AppendedLaid
<1> QED
  BY <1>3, <1>4, <1>5, <1>6

(* A list that got longer twice.                                           *)
LEMMA ExtendsOn ==
  ASSUME NEW a \in Lists, NEW b \in Lists, NEW c \in Lists, Extends(a, b), Extends(b, c)
  PROVE  Extends(a, c)
<1>1. \A k \in DOMAIN a.buffers : /\ k \in DOMAIN b.buffers /\ k \in DOMAIN c.buffers
        /\ a.buffers[k].size \in Nat /\ b.buffers[k].size \in Nat /\ c.buffers[k].size \in Nat
  BY RecordsTyped DEF Extends
<1>2. \A k \in DOMAIN a.buffers : c.buffers[k].size >= a.buffers[k].size
  <2> TAKE k \in DOMAIN a.buffers
  <2>1. b.buffers[k].size >= a.buffers[k].size /\ c.buffers[k].size >= b.buffers[k].size
    BY <1>1 DEF Extends
  <2> QED
    BY <1>1, <2>1
<1>3. \A k \in DOMAIN a.buffers : c.buffers[k].name = a.buffers[k].name /\ c.buffers[k].dir = a.buffers[k].dir
  BY <1>1 DEF Extends
<1>4. (a.failed => c.failed) /\ DOMAIN a.buffers \subseteq DOMAIN c.buffers
  BY DEF Extends
<1> QED
  BY <1>2, <1>3, <1>4 DEF Extends

(* All operations of a module have their buffers.                          *)
LEMMA FilledLaid ==
  ASSUME NEW list \in LaidLists, NEW ops \in Seq(Operations)
  PROVE  /\ Filled(list, ops) \in LaidLists /\ Extends(list, Filled(list, ops))
         /\ \A i \in DOMAIN ops : Serves(Filled(list, ops), ops[i])
<1> DEFINE n == Len(ops)
           F == FilledUpTo(list, ops)
           round == [k \in 1 .. n |-> [l \in LaidLists |-> WithOperation(l, ops[k])]]
<1>1. n \in Nat /\ DOMAIN ops = 1 .. n /\ \A k \in 1 .. n : ops[k] \in Operations
  OBVIOUS
<1>2. round \in [1 .. n -> [LaidLists -> LaidLists]]
  BY <1>1, WithOperationLaid
<1>3. \E f : f = [k \in 0 .. n |-> IF k = 0 THEN list ELSE WithOperation(f[k - 1], ops[k])]
  <2> HIDE DEF n
  <2>1. PICK f \in [0 .. n -> LaidLists] : f[0] = list /\ \A k \in 1 .. n : f[k] = round[k][f[k - 1]]
    <3> HIDE DEF round
    <3>1. Rounds(n, LaidLists, list, round) # {}
      BY <1>1, <1>2, RoundsExist
    <3> QED
      BY <3>1 DEF Rounds
  <2>2. \A k \in 1 .. n : round[k][f[k - 1]] = WithOperation(f[k - 1], ops[k])
    <3> TAKE k \in 1 .. n
    <3>1. k - 1 \in 0 .. n /\ f[k - 1] \in LaidLists
      BY <1>1, <2>1
    <3> QED
      BY <3>1
  <2> HIDE DEF round
  <2>3. f = [k \in 0 .. n |-> IF k = 0 THEN list ELSE WithOperation(f[k - 1], ops[k])]
    BY <1>1, <2>1, <2>2
  <2> QED
    BY <2>3
<1>4. F = [k \in 0 .. n |-> IF k = 0 THEN list ELSE WithOperation(F[k - 1], ops[k])]
  <2>1. F = CHOOSE f : f = [k \in 0 .. n |-> IF k = 0 THEN list ELSE WithOperation(f[k - 1], ops[k])]
    BY DEF FilledUpTo
  <2> HIDE DEF F, n
  <2> QED
    BY <1>3, <2>1, Zenon
<1> DEFINE Good(k) == F[k] \in LaidLists /\ Extends(list, F[k]) /\ \A i \in 1 .. k : Serves(F[k], ops[i])
           P == { k \in 0 .. n : Good(k) }
<1> HIDE DEF F, n
<1>5. 0 \in P
  <2>1. 0 \in 0 .. n /\ F[0] = list /\ 1 .. 0 = {}
    BY <1>1, <1>4
  <2>2. Extends(list, list)
    BY RecordsTyped DEF Extends, LaidLists
  <2> QED
    BY <2>1, <2>2
<1>6. \A k \in 1 .. n : k - 1 \in P => k \in P
  <2> TAKE k \in 1 .. n
  <2> HAVE k - 1 \in P
  <2> DEFINE l == F[k - 1]
  <2>1. k \in 0 .. n /\ k # 0 /\ l \in LaidLists /\ Extends(list, l) /\ \A i \in 1 .. k - 1 : Serves(l, ops[i])
    BY <1>1
  <2>2. F[k] = WithOperation(l, ops[k])
    BY <1>4, <2>1
  <2> HIDE DEF l, P
  <2>3. F[k] \in LaidLists /\ Extends(l, F[k]) /\ Serves(F[k], ops[k])
    BY <1>1, <2>1, <2>2, WithOperationLaid
  <2>4. l \in Lists /\ F[k] \in Lists /\ list \in Lists
    BY <2>1, <2>3 DEF LaidLists
  <2>5. Extends(list, F[k])
    BY <2>1, <2>3, <2>4, ExtendsOn
  <2>6. \A i \in 1 .. k : Serves(F[k], ops[i])
    <3> TAKE i \in 1 .. k
    <3>1. CASE i = k
      BY <2>3, <3>1
    <3>2. CASE i # k
      <4>1. i \in 1 .. k - 1 /\ i \in 1 .. n
        BY <1>1, <2>1, <3>2
      <4>2. Units(ops[i]) \in Nat /\ ops[i] \in Operations
        BY <1>1, <4>1, UnitsHold
      <4> QED
        BY <2>1, <2>3, <2>4, <4>1, <4>2, ServesLonger
    <3> QED
      BY <3>1, <3>2
  <2> QED
    BY <2>1, <2>3, <2>5, <2>6 DEF P
<1>7. n \in P
  <2>1. P \in SUBSET Nat
    BY <1>1
  <2> HIDE DEF P
  <2>2. 0 .. n \subseteq P
    BY <1>1, <1>5, <1>6, <2>1, RoundsInduction
  <2> QED
    BY <1>1, <2>2
<1> QED
  BY <1>1, <1>7 DEF Filled, F, n

(* The memory is large enough for what was not refused.                    *)
Fits(list) == list.failed \/ list.buffers = <<>> \/ (list.offset + 1) * Granularity < MemorySize

(* create_hw_msg_buf_list_module(): the buffers stay one after the other,  *)
(* and all operations of the module find theirs unless there was an error. *)
LEMMA WithModuleLaid ==
  ASSUME NEW list \in LaidLists, NEW ops \in Seq(Operations)
  PROVE  /\ WithModule(list, ops) \in LaidLists /\ Extends(list, WithModule(list, ops))
         /\ \A i \in DOMAIN ops : Serves(WithModule(list, ops), ops[i])
         /\ Fits(list) => Fits(WithModule(list, ops))
<1> DEFINE filled == Filled(list, ops)
           longer == WithModule(list, ops)
           full == filled.failed \/ (filled.offset + 1) * Granularity >= MemorySize
<1>1. filled \in LaidLists /\ Extends(list, filled) /\ \A i \in DOMAIN ops : Serves(filled, ops[i])
  BY FilledLaid
<1>2. list \in Lists /\ filled \in Lists /\ LaidOut(filled)
  BY <1>1 DEF LaidLists
<1>3. CASE list.failed
  <2>1. longer = list
    BY <1>3 DEF WithModule
  <2>2. Extends(list, list)
    BY <1>2, RecordsTyped DEF Extends
  <2> QED
    BY <1>3, <2>1, <2>2 DEF Serves
<1>4. CASE ~list.failed
  <2>1. longer = [filled EXCEPT !.failed = full]
    BY <1>4 DEF WithModule
  <2> HIDE DEF filled
  <2>2. full \in BOOLEAN
    BY <1>2, RecordsTyped
  <2>3. /\ longer \in Lists /\ longer.buffers = filled.buffers /\ longer.offset = filled.offset
        /\ longer.failed = full
    <3> HIDE DEF full, longer
    <3> QED
      BY <1>2, <2>1, <2>2 DEF Lists
  <2>4. filled.failed => longer.failed
    BY <2>3
  <2>5. Fits(longer)
    <3>1. filled.offset \in Nat
      BY <1>2, RecordsTyped
    <3>2. (filled.offset + 1) * Granularity \in Nat
      BY <3>1, GranularityAssumption
    <3>3. full \/ (filled.offset + 1) * Granularity < MemorySize
      BY <3>2, GranularityAssumption
    <3> HIDE DEF full, longer
    <3> QED
      BY <2>3, <3>3 DEF Fits
  <2> HIDE DEF longer, full
  <2>6. LaidOut(longer)
    BY <1>2, <2>3 DEF LaidOut
  <2>7. Extends(list, longer)
    BY <1>1, <1>4, <2>3 DEF Extends
  <2>8. \A i \in DOMAIN ops : Serves(longer, ops[i])
    BY <1>1, <2>3, <2>4 DEF Serves
  <2> QED
    BY <2>3, <2>5, <2>6, <2>7, <2>8 DEF LaidLists, longer
<1> QED
  BY <1>3, <1>4

(* create_hw_msg_buf_list(): the buffers are laid out one behind the       *)
(* other, fit the memory and serve all operations of all modules.          *)
LEMMA BufferListLaid ==
  ASSUME NEW config \in Seq(Seq(Operations))
  PROVE  /\ BufferList(config) \in LaidLists /\ Fits(BufferList(config))
         /\ \A m \in DOMAIN config : \A i \in DOMAIN config[m] : Serves(BufferList(config), config[m][i])
<1> DEFINE n == Len(config)
           F == ListUpTo(config)
           round == [m \in 1 .. n |-> [l \in LaidLists |-> WithModule(l, config[m])]]
<1>1. n \in Nat /\ DOMAIN config = 1 .. n /\ \A m \in 1 .. n : config[m] \in Seq(Operations)
  OBVIOUS
<1>2. round \in [1 .. n -> [LaidLists -> LaidLists]]
  BY <1>1, WithModuleLaid
<1>3. EmptyList \in LaidLists /\ Fits(EmptyList)
  <2>1. EmptyList \in Lists /\ EmptyList.buffers = <<>> /\ DOMAIN EmptyList.buffers = {}
    BY DEF EmptyList, Lists
  <2>2. LaidOut(EmptyList)
    BY <2>1 DEF LaidOut
  <2> QED
    BY <2>1, <2>2 DEF LaidLists, Fits
<1>4. \E f : f = [m \in 0 .. n |-> IF m = 0 THEN EmptyList ELSE WithModule(f[m - 1], config[m])]
  <2> HIDE DEF n
  <2>1. PICK f \in [0 .. n -> LaidLists] : f[0] = EmptyList /\ \A m \in 1 .. n : f[m] = round[m][f[m - 1]]
    <3> HIDE DEF round
    <3>1. Rounds(n, LaidLists, EmptyList, round) # {}
      BY <1>1, <1>2, <1>3, RoundsExist
    <3> QED
      BY <3>1 DEF Rounds
  <2>2. \A m \in 1 .. n : round[m][f[m - 1]] = WithModule(f[m - 1], config[m])
    <3> TAKE m \in 1 .. n
    <3>1. m - 1 \in 0 .. n /\ f[m - 1] \in LaidLists
      BY <1>1, <2>1
    <3> QED
      BY <3>1
  <2> HIDE DEF round
  <2>3. f = [m \in 0 .. n |-> IF m = 0 THEN EmptyList ELSE WithModule(f[m - 1], config[m])]
    BY <1>1, <2>1, <2>2
  <2> QED
    BY <2>3
<1>5. F = [m \in 0 .. n |-> IF m = 0 THEN EmptyList ELSE WithModule(F[m - 1], config[m])]
  <2>1. F = CHOOSE f : f = [m \in 0 .. n |-> IF m = 0 THEN EmptyList ELSE WithModule(f[m - 1], config[m])]
    BY DEF ListUpTo
  <2> HIDE DEF F, n
  <2> QED
    BY <1>4, <2>1, Zenon
<1> DEFINE Good(m) == /\ F[m] \in LaidLists /\ Fits(F[m])
                      /\ \A k \in 1 .. m : \A i \in DOMAIN config[k] : Serves(F[m], config[k][i])
           P == { m \in 0 .. n : Good(m) }
<1> HIDE DEF F, n
<1>6. 0 \in P
  <2>1. 0 \in 0 .. n /\ F[0] = EmptyList /\ 1 .. 0 = {}
    BY <1>1, <1>5
  <2> QED
    BY <1>3, <2>1
<1>7. \A m \in 1 .. n : m - 1 \in P => m \in P
  <2> TAKE m \in 1 .. n
  <2> HAVE m - 1 \in P
  <2> DEFINE l == F[m - 1]
  <2>1. m \in 0 .. n /\ m # 0 /\ l \in LaidLists /\ Fits(l)
        /\ \A k \in 1 .. m - 1 : \A i \in DOMAIN config[k] : Serves(l, config[k][i])
    BY <1>1
  <2>2. F[m] = WithModule(l, config[m])
    BY <1>5, <2>1
  <2> HIDE DEF l, P
  <2>3. F[m] \in LaidLists /\ Extends(l, F[m]) /\ Fits(F[m])
        /\ \A i \in DOMAIN config[m] : Serves(F[m], config[m][i])
    BY <1>1, <2>1, <2>2, WithModuleLaid
  <2>4. l \in Lists /\ F[m] \in Lists
    BY <2>1, <2>3 DEF LaidLists
  <2>5. \A k \in 1 .. m : \A i \in DOMAIN config[k] : Serves(F[m], config[k][i])
    <3> TAKE k \in 1 .. m
    <3> TAKE i \in DOMAIN config[k]
    <3>1. CASE k = m
      BY <2>3, <3>1
    <3>2. CASE k # m
      <4>1. k \in 1 .. m - 1 /\ k \in 1 .. n
        BY <1>1, <2>1, <3>2
      <4>2. Units(config[k][i]) \in Nat /\ config[k][i] \in Operations
        <5>1. config[k] \in Seq(Operations)
          BY <1>1, <4>1
        <5>2. config[k][i] \in Operations
          BY <5>1
        <5> QED
          BY <5>2, UnitsHold
      <4> QED
        BY <2>1, <2>3, <2>4, <4>1, <4>2, ServesLonger
    <3> QED
      BY <3>1, <3>2
  <2> QED
    BY <2>1, <2>3, <2>5 DEF P
<1>8. n \in P
  <2>1. P \in SUBSET Nat
    BY <1>1
  <2> HIDE DEF P
  <2>2. 0 .. n \subseteq P
    BY <1>1, <1>6, <1>7, <2>1, RoundsInduction
  <2> QED
    BY <1>1, <2>2
<1> QED
  BY <1>1, <1>8 DEF BufferList, F, n

-----------------------------------------------------------------------------
(* The second inductive invariant: what the configuring process has done   *)
(* and what it still has to do, and what an undisturbed call may rely on.  *)

Whats == {"deactivate", "status", "counter", "clear", "init", "desc", "activate", "run"}
Steps == [do : Whats, b : Bufs]
Rank(what) == IF what = "desc" THEN 2 ELSE IF what = "activate" THEN 3 ELSE IF what = "run" THEN 4 ELSE 1

Has(s, x) == \E i \in DOMAIN s : s[i] = x
Pending(what, b) == Has(todo, Do(what, b))

Ordered(s) == \A i, j \in DOMAIN s : i <= j => Rank(s[i].do) <= Rank(s[j].do)

InUse(b) == b + 1 \in DOMAIN msg_buffs
IsDescribed(b) == InUse(b) /\ desc_cache[b] = Described(msg_buffs[b + 1])
IsSized(b) == dev[b].size = msg_buffs[b + 1].size

Applicable == { c \in Layouts \cup {NoLayout} : BuffersValid(c) }

LayoutInv == layout \in Applicable /\ msg_buffs = BufferList(layout).buffers

(* The steps are done in this order: all is removed, descriptors are       *)
(* written, devices activated, and then the hardware is started.           *)
ScriptInv ==
    /\ todo \in Seq(Steps) /\ Ordered(todo)
    /\ \A i \in DOMAIN todo : todo[i].do = "run" => i = Len(todo)
    /\ \A i \in DOMAIN todo : todo[i].do \in {"desc", "activate"} => InUse(todo[i].b)

(* The valid descriptors are from one configuration: the one that is       *)
(* applied as soon as those of the last one are cleared.                   *)
FromOne(c) ==
    \A b \in Bufs : desc_cache[b].valid =>
      b + 1 \in DOMAIN BufferList(c).buffers /\ desc_cache[b] = Described(BufferList(c).buffers[b + 1])

DescInv ==
    /\ DOMAIN desc_cache = Bufs
    /\ \A b \in Bufs : desc_cache[b].valid \in BOOLEAN /\ (desc_cache[b].valid \/ desc_cache[b] = Invalid)
    /\ \E c \in Applicable : FromOne(c)
    /\ \A b \in Bufs : desc_cache[b].valid => Pending("clear", b) \/ IsDescribed(b)
    /\ todo # <<>> => \A b \in Bufs : InUse(b) =>
         Pending("desc", b) \/ (IsDescribed(b) /\ ~Pending("clear", b))

DevInv ==
    /\ dev \in [Bufs -> [active : BOOLEAN, size : Nat]]
    /\ todo # <<>> => \A b \in Bufs : InUse(b) => Pending("activate", b) \/ IsSized(b)
    /\ \A b \in Bufs : dev[b].active =>
         Pending("deactivate", b) \/ (desc_cache[b].valid /\ ~Pending("clear", b))
    /\ running => \/ Pending("init", 0)
                  \/ todo = <<>> /\ \A b \in Bufs : InUse(b) => IsDescribed(b) /\ IsSized(b)

(* A message is for the buffer it is in.                                   *)
MessageInv ==
    /\ DOMAIN message = Bufs
    /\ \A b \in Bufs : message[b] = NoMessage \/ message[b] = desc_cache[b].name

(* What a call that was not disturbed found is still so.                   *)
ReadInv(p) ==
    LET b == proc[p].b
    IN  /\ proc[p].at \in {"desc", "msgbuf", "status", "count", "copy"} /\ InUse(b) =>
             proc[p].size = msg_buffs[b + 1].size
        /\ proc[p].at \in {"msgbuf", "status", "count", "copy"} => desc_cache[b].dir = "RX"
        /\ proc[p].at = "copy" \/ (proc[p].at = "count" /\ proc[p].data # NoMessage) =>
             message[b] # NoMessage

AliasInv(p) == proc[p].at = "name" => dev[proc[p].b].active

Answer(p) ==
    proc[p].at = "returned" /\ proc[p].ret > 0 =>
      /\ InUse(proc[p].b)
      /\ proc[p].call = "read" => proc[p].ret = msg_buffs[proc[p].b + 1].size
      /\ proc[p].data = msg_buffs[proc[p].b + 1].name

AccessAt == {"cdev", "desc", "msgbuf", "status", "count", "copy", "name"}

CallRight(p) ==
    /\ proc[p].call \in {"read", "write", "alias"} => proc[p].b \in Bufs
    /\ proc[p].at \in AccessAt => proc[p].call \in {"read", "write", "alias"}
    /\ proc[p].at = "name" => proc[p].call = "alias"
    /\ proc[p].call = "alias" => proc[p].at \in {"name", "returned"}
    /\ proc[p].call \in {"read", "alias"} /\ ~proc[p].disturbed =>
         /\ todo = <<>>
         /\ proc[p].call = "read" => ReadInv(p)
         /\ AliasInv(p) /\ Answer(p)

CallInv == \A p \in Procs : CallRight(p)

(* What applying a configuration keeps.                                    *)
AppliedInv == LayoutInv /\ ScriptInv /\ DescInv /\ DevInv

ConfInv == AppliedInv /\ MessageInv /\ CallInv

(* What the configurations that are applied have of buffers.               *)
LEMMA ApplicableLaid ==
  ASSUME NEW c \in Applicable
  PROVE  /\ BufferList(c) \in LaidLists /\ ~BufferList(c).failed /\ Fits(BufferList(c))
         /\ Len(BufferList(c).buffers) <= BufferCount
         /\ \A m \in DOMAIN c : \A i \in DOMAIN c[m] :
              c[m][i] \in Operations /\ Serves(BufferList(c), c[m][i])
<1>1. c \in Seq(Seq(Operations))
  <2>1. CASE c \in Layouts
    BY <2>1, LayoutsAssumption
  <2>2. CASE c = <<>>
    BY <2>2
  <2> QED
    BY <2>1, <2>2 DEF Applicable, NoLayout
<1>2. \A m \in DOMAIN c : \A i \in DOMAIN c[m] : c[m][i] \in Operations
  <2> TAKE m \in DOMAIN c
  <2>1. c[m] \in Seq(Operations)
    BY <1>1
  <2> QED
    BY <2>1
<1>3. BuffersValid(c)
  BY DEF Applicable
<1> QED
  BY <1>1, <1>2, <1>3, BufferListLaid DEF BuffersValid

(* A buffer of a configuration exists.                                     *)
LEMMA BuffersExist ==
  ASSUME NEW c \in Applicable
  PROVE  \A k \in DOMAIN BufferList(c).buffers :
           /\ k - 1 \in Bufs /\ (k - 1) + 1 = k
           /\ BufferList(c).buffers[k].size \in Nat /\ BufferList(c).buffers[k].offset \in Nat
<1>1. BufferList(c) \in Lists /\ Len(BufferList(c).buffers) <= BufferCount
  BY ApplicableLaid DEF LaidLists
<1>2. DOMAIN BufferList(c).buffers = 1 .. Len(BufferList(c).buffers) /\ Len(BufferList(c).buffers) \in Nat
  BY <1>1, RecordsTyped
<1>3. \A k \in 1 .. Len(BufferList(c).buffers) : k - 1 \in Bufs /\ (k - 1) + 1 = k
  BY <1>1, <1>2, GranularityAssumption DEF Bufs
<1> QED
  BY <1>1, <1>2, <1>3, RecordsTyped

-----------------------------------------------------------------------------
(* The steps of applying a configuration.                                  *)

(* Steps of ranks from lo to hi, in that order.                            *)
Ranked(s, lo, hi) ==
    s \in Seq(Steps) /\ Ordered(s) /\ \A i \in DOMAIN s : lo <= Rank(s[i].do) /\ Rank(s[i].do) <= hi

(* Steps have a place in the order.                                        *)
LEMMA RankTyped == \A what : Rank(what) \in 1 .. 4
  BY DEF Rank

(* One sequence of steps after another, none of whose steps comes before.  *)
LEMMA Joined ==
  ASSUME NEW s, NEW t, NEW lo \in Nat, NEW mid \in Nat, NEW hi \in Nat, lo <= mid, mid <= hi,
         Ranked(s, lo, mid), Ranked(t, mid, hi)
  PROVE  Ranked(s \o t, lo, hi) /\ \A x : Has(s \o t, x) <=> Has(s, x) \/ Has(t, x)
<1> DEFINE n == Len(s)
           m == Len(t)
           j == s \o t
<1>1. s \in Seq(Steps) /\ t \in Seq(Steps) /\ n \in Nat /\ m \in Nat /\ DOMAIN s = 1 .. n /\ DOMAIN t = 1 .. m
  BY DEF Ranked
<1>2. j \in Seq(Steps) /\ Len(j) = n + m /\ DOMAIN j = 1 .. n + m
  BY <1>1
<1>3. \A i \in 1 .. n + m : j[i] = IF i <= n THEN s[i] ELSE t[i - n]
  BY <1>1
<1> HIDE DEF j, n, m
<1>4. \A i \in 1 .. n + m : IF i <= n THEN i \in 1 .. n /\ j[i] = s[i] ELSE i - n \in 1 .. m /\ j[i] = t[i - n]
  BY <1>1, <1>3
<1>5. \A x : Has(j, x) <=> Has(s, x) \/ Has(t, x)
  <2> TAKE x
  <2>1. ASSUME Has(j, x) PROVE Has(s, x) \/ Has(t, x)
    <3>1. PICK i \in 1 .. n + m : j[i] = x
      BY <1>2, <2>1 DEF Has
    <3> QED
      BY <1>1, <1>4, <3>1 DEF Has
  <2>2. ASSUME Has(s, x) PROVE Has(j, x)
    <3>1. PICK i \in 1 .. n : s[i] = x
      BY <1>1, <2>2 DEF Has
    <3>2. i \in 1 .. n + m /\ j[i] = x
      BY <1>1, <1>4, <3>1
    <3> QED
      BY <1>2, <3>2 DEF Has
  <2>3. ASSUME Has(t, x) PROVE Has(j, x)
    <3>1. PICK i \in 1 .. m : t[i] = x
      BY <1>1, <2>3 DEF Has
    <3>2. i + n \in 1 .. n + m /\ ~(i + n <= n) /\ (i + n) - n = i
      BY <1>1
    <3>3. j[i + n] = x
      BY <1>3, <3>1, <3>2
    <3> QED
      BY <1>2, <3>2, <3>3 DEF Has
  <2> QED
    BY <2>1, <2>2, <2>3
<1>6. \A i \in 1 .. n : lo <= Rank(s[i].do) /\ Rank(s[i].do) <= mid
  BY <1>1 DEF Ranked
<1>7. \A i \in 1 .. m : mid <= Rank(t[i].do) /\ Rank(t[i].do) <= hi
  BY <1>1 DEF Ranked
<1>8. \A i \in 1 .. n + m : lo <= Rank(j[i].do) /\ Rank(j[i].do) <= hi
  <2> TAKE i \in 1 .. n + m
  <2>1. CASE i <= n
    BY <1>4, <1>6, <2>1, RankTyped
  <2>2. CASE ~(i <= n)
    BY <1>4, <1>7, <2>2, RankTyped
  <2> QED
    BY <2>1, <2>2
<1>9. \A a, b \in 1 .. n + m : a <= b => Rank(j[a].do) <= Rank(j[b].do)
  <2> TAKE a, b \in 1 .. n + m
  <2> HAVE a <= b
  <2>1. CASE b <= n
    <3>1. a \in 1 .. n /\ b \in 1 .. n /\ j[a] = s[a] /\ j[b] = s[b]
      BY <1>1, <1>4, <2>1
    <3> QED
      BY <1>1, <3>1 DEF Ranked, Ordered
  <2>2. CASE a <= n /\ ~(b <= n)
    <3>1. a \in 1 .. n /\ b - n \in 1 .. m /\ j[a] = s[a] /\ j[b] = t[b - n]
      BY <1>1, <1>4, <2>2
    <3>2. Rank(s[a].do) <= mid /\ mid <= Rank(t[b - n].do)
      BY <1>6, <1>7, <3>1
    <3> QED
      BY <3>1, <3>2, RankTyped
  <2>3. CASE ~(a <= n) /\ ~(b <= n)
    <3>1. a - n \in 1 .. m /\ b - n \in 1 .. m /\ j[a] = t[a - n] /\ j[b] = t[b - n] /\ a - n <= b - n
      BY <1>1, <1>4, <2>3
    <3> QED
      BY <1>1, <3>1 DEF Ranked, Ordered
  <2> QED
    BY <1>1, <2>1, <2>2, <2>3
<1> QED
  BY <1>2, <1>5, <1>8, <1>9 DEF Ranked, Ordered, j

(* Steps of one kind, for the first n buffers.                             *)
LEMMA StepsForEach ==
  ASSUME NEW what \in Whats, NEW n \in 0 .. BufferCount
  PROVE  LET s == [i \in 1 .. n |-> Do(what, i - 1)]
         IN  /\ Ranked(s, Rank(what), Rank(what))
             /\ \A x : Has(s, x) <=> \E b \in Bufs : x = Do(what, b) /\ b + 1 \in 1 .. n
<1> DEFINE s == [i \in 1 .. n |-> Do(what, i - 1)]
<1>1. \A i \in 1 .. n : s[i] = Do(what, i - 1) /\ i - 1 \in Bufs /\ s[i] \in Steps /\ s[i].do = what
  BY GranularityAssumption DEF Do, Steps, Bufs
<1>2. s \in Seq(Steps) /\ DOMAIN s = 1 .. n
  <2>1. s \in [1 .. n -> Steps] /\ n \in Nat
    BY <1>1, GranularityAssumption
  <2> HIDE DEF s
  <2> QED
    BY <2>1
<1> HIDE DEF s
<1>3. Ranked(s, Rank(what), Rank(what))
  <2>1. \A i \in 1 .. n : Rank(s[i].do) = Rank(what)
    BY <1>1
  <2>2. Rank(what) \in Nat
    BY RankTyped
  <2> QED
    BY <1>2, <2>1, <2>2 DEF Ranked, Ordered
<1>4. ASSUME NEW x, Has(s, x)
      PROVE  \E b \in Bufs : x = Do(what, b) /\ b + 1 \in 1 .. n
  <2>1. PICK i \in 1 .. n : s[i] = x
    BY <1>2, <1>4 DEF Has
  <2>2. i - 1 \in Bufs /\ x = Do(what, i - 1) /\ (i - 1) + 1 \in 1 .. n
    BY <1>1, <2>1
  <2> QED
    BY <2>2
<1>5. ASSUME NEW b \in Bufs, b + 1 \in 1 .. n
      PROVE  Has(s, Do(what, b))
  <2>1. s[b + 1] = Do(what, (b + 1) - 1) /\ (b + 1) - 1 = b
    BY <1>1, <1>5, GranularityAssumption DEF Bufs
  <2> QED
    BY <1>2, <1>5, <2>1 DEF Has
<1> QED
  BY <1>3, <1>4, <1>5 DEF s

(* What removes the devices.                                               *)
LEMMA StepsOfDevices ==
  /\ Ranked(RemoveDevices, 1, 1)
  /\ \A b \in Bufs : Has(RemoveDevices, Do("deactivate", b))
  /\ \A x : Has(RemoveDevices, x) => x.do \in {"deactivate", "status", "counter"}
<1> DEFINE n == 3 * BufferCount
           s == RemoveDevices
<1>1. n \in Nat /\ DOMAIN s = 1 .. n
  BY GranularityAssumption DEF RemoveDevices
<1>2. \A i \in 1 .. n : (i - 1) \div 3 \in Bufs /\ 1 + ((i - 1) % 3) \in {1, 2, 3}
  BY GranularityAssumption DEF Bufs
<1>3. \A b \in Bufs : \A k \in {1, 2, 3} :
        RemoveDevice(b)[k] = Do(IF k = 1 THEN "deactivate" ELSE IF k = 2 THEN "status" ELSE "counter", b)
  BY DEF RemoveDevice
<1>4. \A i \in 1 .. n : s[i] \in Steps /\ s[i].do \in {"deactivate", "status", "counter"}
  <2> TAKE i \in 1 .. n
  <2> DEFINE b == (i - 1) \div 3
             k == 1 + ((i - 1) % 3)
  <2>1. s[i] = RemoveDevice(b)[k]
    BY DEF RemoveDevices
  <2>2. b \in Bufs /\ k \in {1, 2, 3}
    BY <1>2
  <2> HIDE DEF b, k, s
  <2>3. s[i] = Do(IF k = 1 THEN "deactivate" ELSE IF k = 2 THEN "status" ELSE "counter", b)
    BY <1>3, <2>1, <2>2
  <2> QED
    BY <2>2, <2>3 DEF Do, Steps, Whats
<1>5. \A b \in Bufs : Has(s, Do("deactivate", b))
  <2> TAKE b \in Bufs
  <2> DEFINE i == 3 * b + 1
  <2>1. i \in 1 .. n /\ (i - 1) \div 3 = b /\ 1 + ((i - 1) % 3) = 1
    BY GranularityAssumption DEF Bufs
  <2>2. s[i] = RemoveDevice((i - 1) \div 3)[1 + ((i - 1) % 3)]
    BY <2>1 DEF RemoveDevices
  <2> HIDE DEF i, s
  <2>3. s[i] = Do("deactivate", b)
    BY <1>3, <2>1, <2>2
  <2> QED
    BY <1>1, <2>1, <2>3 DEF Has
<1>6. s \in Seq(Steps)
  <2>1. s = [i \in 1 .. n |-> s[i]]
    BY DEF RemoveDevices
  <2> HIDE DEF s, n
  <2>2. s \in [1 .. n -> Steps]
    BY <1>4, <2>1
  <2> QED
    BY <1>1, <2>2
<1> HIDE DEF s, n
<1>7. \A i \in 1 .. n : Rank(s[i].do) = 1
  BY <1>4 DEF Rank
<1>8. \A x : Has(s, x) => x.do \in {"deactivate", "status", "counter"}
  BY <1>1, <1>4 DEF Has
<1> QED
  BY <1>1, <1>5, <1>6, <1>7, <1>8 DEF Ranked, Ordered, s

(* Two sequences of steps one after the other.                             *)
LEMMA Concatenated ==
  ASSUME NEW s \in Seq(Steps), NEW t \in Seq(Steps)
  PROVE  /\ Len(s) \in Nat /\ DOMAIN s = 1 .. Len(s)
         /\ Len(s \o t) = Len(s) + Len(t) /\ DOMAIN (s \o t) = 1 .. Len(s) + Len(t)
         /\ \A i \in 1 .. Len(s) : (s \o t)[i] = s[i]
<1>1. Len(s) \in Nat /\ DOMAIN s = 1 .. Len(s)
  OBVIOUS
<1>2. s \o t \in Seq(Steps) /\ Len(s \o t) = Len(s) + Len(t)
  OBVIOUS
<1>3. DOMAIN (s \o t) = 1 .. Len(s) + Len(t)
  BY <1>2
<1>4. \A i \in 1 .. Len(s) : (s \o t)[i] = s[i]
  OBVIOUS
<1> QED
  BY <1>1, <1>2, <1>3, <1>4

(* The script of a configuration.                                          *)
Script(c) == RemoveSteps \o <<Do("init", 0)>> \o RemoveSteps \o BufferSteps(c) \o <<Do("run", 0)>>

(* What acm_apply_config() has to do: all is removed first, and of what is *)
(* used all is written, descriptors before devices.                        *)
LEMMA ScriptIsRight ==
  ASSUME NEW c \in Applicable
  PROVE  LET s == Script(c)
             used == DOMAIN BufferList(c).buffers
         IN  /\ s \in Seq(Steps) /\ Ordered(s)
             /\ \A i \in DOMAIN s : s[i].do = "run" => i = Len(s)
             /\ \A i \in DOMAIN s : s[i].do \in {"desc", "activate"} => s[i].b + 1 \in used
             /\ \A b \in Bufs : Has(s, Do("deactivate", b)) /\ Has(s, Do("clear", b))
             /\ \A b \in Bufs : b + 1 \in used => Has(s, Do("desc", b)) /\ Has(s, Do("activate", b))
             /\ Has(s, Do("init", 0))
<1> DEFINE n == Len(BufferList(c).buffers)
           used == DOMAIN BufferList(c).buffers
<1>1. n \in 0 .. BufferCount /\ used = 1 .. n
  BY ApplicableLaid, RecordsTyped, GranularityAssumption DEF LaidLists
<1>2. 0 \in Bufs /\ BufferCount \in Nat /\ BufferCount \in 0 .. BufferCount
  BY GranularityAssumption DEF Bufs
<1>3. Rank("clear") = 1 /\ Rank("init") = 1 /\ Rank("desc") = 2 /\ Rank("activate") = 3 /\ Rank("run") = 4
  BY DEF Rank
<1>4. Ranked(ForEach("clear"), 1, 1) /\ (\A b \in Bufs : Has(ForEach("clear"), Do("clear", b)))
      /\ \A x : Has(ForEach("clear"), x) => x.do = "clear"
  <2>1. "clear" \in Whats /\ \A b \in Bufs : b + 1 \in 1 .. BufferCount
    BY <1>2 DEF Whats, Bufs
  <2> DEFINE s == [i \in 1 .. BufferCount |-> Do("clear", i - 1)]
  <2>2. /\ Ranked(s, Rank("clear"), Rank("clear"))
        /\ \A x : Has(s, x) <=> \E b \in Bufs : x = Do("clear", b) /\ b + 1 \in 1 .. BufferCount
    BY <1>2, <2>1, StepsForEach
  <2>3. s = ForEach("clear")
    BY DEF ForEach
  <2> HIDE DEF s
  <2> QED
    BY <1>3, <2>1, <2>2, <2>3 DEF Do
<1>5. /\ Ranked(RemoveSteps, 1, 1)
      /\ \A b \in Bufs : Has(RemoveSteps, Do("deactivate", b)) /\ Has(RemoveSteps, Do("clear", b))
      /\ \A x : Has(RemoveSteps, x) => x.do \notin {"desc", "activate", "run"}
  <2>1. Ranked(RemoveSteps, 1, 1) /\ \A x : Has(RemoveSteps, x) <=> Has(RemoveDevices, x) \/ Has(ForEach("clear"), x)
    BY <1>4, StepsOfDevices, Joined DEF RemoveSteps
  <2> QED
    BY <1>4, <2>1, StepsOfDevices
<1> DEFINE One(what) == <<Do(what, 0)>>
<1>6. \A what \in Whats : Ranked(One(what), Rank(what), Rank(what)) /\ \A x : Has(One(what), x) <=> x = Do(what, 0)
  <2> TAKE what \in Whats
  <2>1. Do(what, 0) \in Steps /\ Do(what, 0).do = what /\ Rank(what) \in Nat
    BY <1>2, RankTyped DEF Do, Steps
  <2>2. One(what) \in Seq(Steps) /\ DOMAIN One(what) = {1} /\ One(what)[1] = Do(what, 0)
    BY <2>1
  <2> HIDE DEF One
  <2> QED
    BY <2>1, <2>2 DEF Ranked, Ordered, Has
<1>7. \A what \in {"desc", "activate"} :
        /\ Ranked(SubSeq(ForEach(what), 1, n), Rank(what), Rank(what))
        /\ \A x : Has(SubSeq(ForEach(what), 1, n), x) <=> \E b \in Bufs : x = Do(what, b) /\ b + 1 \in 1 .. n
  <2> TAKE what \in {"desc", "activate"}
  <2>1. what \in Whats
    BY DEF Whats
  <2> DEFINE s == [i \in 1 .. n |-> Do(what, i - 1)]
  <2>2. SubSeq(ForEach(what), 1, n) = s
    <3> HIDE DEF n
    <3>1. SubSeq(ForEach(what), 1, n) = [i \in 1 .. n |-> ForEach(what)[i]]
      BY <1>1, <1>2 DEF ForEach
    <3>2. \A i \in 1 .. n : ForEach(what)[i] = Do(what, i - 1)
      BY <1>1, <1>2 DEF ForEach
    <3> QED
      BY <3>1, <3>2
  <2> HIDE DEF s
  <2>3. Ranked(s, Rank(what), Rank(what)) /\ \A x : Has(s, x) <=> \E b \in Bufs : x = Do(what, b) /\ b + 1 \in 1 .. n
    BY <1>1, <2>1, StepsForEach DEF s
  <2> QED
    BY <2>2, <2>3
<1> DEFINE descs == SubSeq(ForEach("desc"), 1, n)
           acts == SubSeq(ForEach("activate"), 1, n)
           s1 == RemoveSteps \o One("init")
           s2 == s1 \o RemoveSteps
           s3 == s2 \o BufferSteps(c)
           s == s3 \o One("run")
<1>8. Script(c) = s
  BY DEF Script
<1>9. BufferSteps(c) = descs \o acts
  BY DEF BufferSteps
<1> HIDE DEF One
<1>10. "init" \in Whats /\ "run" \in Whats
  BY DEF Whats
<1>11. Ranked(s1, 1, 1) /\ \A x : Has(s1, x) <=> Has(RemoveSteps, x) \/ x = Do("init", 0)
  <2>1. Ranked(One("init"), 1, 1) /\ \A x : Has(One("init"), x) <=> x = Do("init", 0)
    BY <1>3, <1>6, <1>10
  <2>2. Ranked(s1, 1, 1) /\ \A x : Has(s1, x) <=> Has(RemoveSteps, x) \/ Has(One("init"), x)
    BY <1>5, <2>1, Joined
  <2> QED
    BY <2>1, <2>2
<1> HIDE DEF s1
<1>12. Ranked(s2, 1, 1) /\ \A x : Has(s2, x) <=> Has(s1, x) \/ Has(RemoveSteps, x)
  BY <1>5, <1>11, Joined
<1> HIDE DEF s2
<1>13. Ranked(descs, 2, 2) /\ Ranked(acts, 3, 3)
       /\ (\A x : Has(descs, x) <=> \E b \in Bufs : x = Do("desc", b) /\ b + 1 \in 1 .. n)
       /\ (\A x : Has(acts, x) <=> \E b \in Bufs : x = Do("activate", b) /\ b + 1 \in 1 .. n)
  BY <1>3, <1>7
<1> HIDE DEF descs, acts
<1>14. Ranked(BufferSteps(c), 2, 3) /\ \A x : Has(BufferSteps(c), x) <=> Has(descs, x) \/ Has(acts, x)
  <2>1. Ranked(descs, 2, 3)
    BY <1>13, RankTyped DEF Ranked
  <2> QED
    BY <1>9, <1>13, <2>1, Joined
<1>15. Ranked(s3, 1, 3) /\ \A x : Has(s3, x) <=> Has(s2, x) \/ Has(BufferSteps(c), x)
  <2>1. Ranked(s2, 1, 2)
    BY <1>12, RankTyped DEF Ranked
  <2> QED
    BY <1>14, <2>1, Joined
<1> HIDE DEF s3
<1>16. Ranked(One("run"), 4, 4) /\ \A x : Has(One("run"), x) <=> x = Do("run", 0)
  BY <1>3, <1>6, <1>10
<1>17. Ranked(s, 1, 4) /\ \A x : Has(s, x) <=> Has(s3, x) \/ x = Do("run", 0)
  <2>1. Ranked(s3, 1, 4)
    BY <1>15, RankTyped DEF Ranked
  <2>2. Ranked(s, 1, 4) /\ \A x : Has(s, x) <=> Has(s3, x) \/ Has(One("run"), x)
    BY <1>16, <2>1, Joined
  <2> QED
    BY <1>16, <2>2
<1>18. \A i \in DOMAIN s : s[i].do = "run" => i = Len(s)
  <2>1. s3 \in Seq(Steps) /\ One("run") \in Seq(Steps) /\ Len(One("run")) = 1
    BY <1>15, <1>16 DEF Ranked, One
  <2>2. Len(s3) \in Nat /\ DOMAIN s3 = 1 .. Len(s3) /\ Len(s) = Len(s3) + 1 /\ DOMAIN s = 1 .. Len(s3) + 1
        /\ \A i \in 1 .. Len(s3) : s[i] = s3[i]
    BY <2>1, Concatenated
  <2>3. \A i \in 1 .. Len(s3) : s[i].do # "run"
    <3> TAKE i \in 1 .. Len(s3)
    <3>1. Rank(s3[i].do) <= 3
      BY <1>15, <2>2 DEF Ranked
    <3> QED
      BY <1>3, <2>2, <3>1
  <2> QED
    BY <2>2, <2>3
<1> HIDE DEF s
<1>19. \A i \in DOMAIN s : s[i].do \in {"desc", "activate"} => s[i].b + 1 \in used
  <2> TAKE i \in DOMAIN s
  <2> HAVE s[i].do \in {"desc", "activate"}
  <2>1. Has(s, s[i])
    BY DEF Has
  <2>2. ~Has(RemoveSteps, s[i]) /\ s[i] # Do("init", 0) /\ s[i] # Do("run", 0)
    BY <1>5 DEF Do
  <2>3. Has(descs, s[i]) \/ Has(acts, s[i])
    BY <1>11, <1>12, <1>14, <1>15, <1>17, <2>1, <2>2
  <2>4. PICK what : \E b \in Bufs : s[i] = Do(what, b) /\ b + 1 \in 1 .. n
    <3>1. CASE Has(descs, s[i])
      <4>1. \E b \in Bufs : s[i] = Do("desc", b) /\ b + 1 \in 1 .. n
        BY <1>13, <3>1
      <4> QED
        BY <4>1
    <3>2. CASE Has(acts, s[i])
      <4>1. \E b \in Bufs : s[i] = Do("activate", b) /\ b + 1 \in 1 .. n
        BY <1>13, <3>2
      <4> QED
        BY <4>1
    <3> QED
      BY <2>3, <3>1, <3>2
  <2> QED
    BY <1>1, <2>4 DEF Do
<1>20. \A b \in Bufs : Has(s, Do("deactivate", b)) /\ Has(s, Do("clear", b))
  BY <1>5, <1>11, <1>12, <1>15, <1>17
<1>21. \A b \in Bufs : b + 1 \in used => Has(s, Do("desc", b)) /\ Has(s, Do("activate", b))
  BY <1>1, <1>13, <1>14, <1>15, <1>17
<1>22. Has(s, Do("init", 0))
  BY <1>11, <1>12, <1>15, <1>17
<1> QED
  BY <1>8, <1>17, <1>18, <1>19, <1>20, <1>21, <1>22 DEF Ranked

-----------------------------------------------------------------------------
(* One step of the script is done.                                         *)

(* The first step is one of those to do, and none of the others comes      *)
(* before it.                                                              *)
LEMMA TailIs ==
  ASSUME ScriptInv, todo # <<>>
  PROVE  /\ Head(todo) = Do(Head(todo).do, B) /\ Head(todo).do \in Whats /\ B \in Bufs
         /\ Tail(todo) \in Seq(Steps) /\ Ordered(Tail(todo))
         /\ \A x : Has(todo, x) <=> x = Head(todo) \/ Has(Tail(todo), x)
         /\ \A x : Has(todo, x) => Rank(Head(todo).do) <= Rank(x.do)
         /\ \A i \in DOMAIN Tail(todo) : Tail(todo)[i].do = "run" => i = Len(Tail(todo))
         /\ \A i \in DOMAIN Tail(todo) : Tail(todo)[i].do \in {"desc", "activate"} => InUse(Tail(todo)[i].b)
         /\ Head(todo).do \in {"desc", "activate"} => InUse(B)
         /\ Head(todo).do = "run" => Tail(todo) = <<>>
<1> DEFINE n == Len(todo)
           t == Tail(todo)
<1>1. todo \in Seq(Steps) /\ n \in Nat /\ DOMAIN todo = 1 .. n
  BY DEF ScriptInv
<1>2. 1 \in 1 .. n /\ n - 1 \in Nat /\ Head(todo) = todo[1]
  BY <1>1
<1>3. t \in Seq(Steps) /\ Len(t) = n - 1 /\ DOMAIN t = 1 .. n - 1
  BY <1>1, <1>2
<1>4. \A i \in 1 .. n - 1 : t[i] = todo[i + 1] /\ i + 1 \in 1 .. n
  BY <1>1, <1>2
<1>5. \A i \in 1 .. n : todo[i] \in Steps
  BY <1>1
<1>6. Head(todo) = Do(Head(todo).do, B) /\ Head(todo).do \in Whats /\ B \in Bufs
  <2>1. Head(todo) \in Steps
    BY <1>2, <1>5
  <2> QED
    BY <2>1 DEF Steps, Do, B
<1> HIDE DEF n, t
<1>7. Ordered(t)
  <2>1. \A i, j \in 1 .. n - 1 : i <= j => i + 1 <= j + 1
    BY <1>2
  <2> QED
    BY <1>1, <1>3, <1>4, <2>1 DEF ScriptInv, Ordered
<1>8. \A x : Has(todo, x) <=> x = Head(todo) \/ Has(t, x)
  <2> TAKE x
  <2>1. ASSUME Has(todo, x), x # Head(todo) PROVE Has(t, x)
    <3>1. PICK i \in 1 .. n : todo[i] = x
      BY <1>1, <2>1 DEF Has
    <3>2. i - 1 \in 1 .. n - 1 /\ (i - 1) + 1 = i
      BY <1>1, <1>2, <2>1, <3>1
    <3>3. t[i - 1] = x
      BY <1>4, <3>1, <3>2
    <3> QED
      BY <1>3, <3>2, <3>3 DEF Has
  <2>2. ASSUME Has(t, x) PROVE Has(todo, x)
    BY <1>1, <1>3, <1>4, <2>2 DEF Has
  <2>3. Has(todo, Head(todo))
    BY <1>1, <1>2 DEF Has
  <2> QED
    BY <2>1, <2>2, <2>3
<1>9. \A x : Has(todo, x) => Rank(Head(todo).do) <= Rank(x.do)
  <2> TAKE x
  <2> HAVE Has(todo, x)
  <2>1. PICK i \in 1 .. n : todo[i] = x
    BY <1>1 DEF Has
  <2>2. 1 <= i
    BY <1>1
  <2> QED
    BY <1>1, <1>2, <2>1, <2>2 DEF ScriptInv, Ordered
<1>10. \A i \in DOMAIN t : t[i].do = "run" => i = Len(t)
  <2> TAKE i \in DOMAIN t
  <2> HAVE t[i].do = "run"
  <2>1. i \in 1 .. n - 1 /\ i + 1 \in DOMAIN todo /\ todo[i + 1].do = "run"
    BY <1>1, <1>3, <1>4
  <2>2. i + 1 = n
    BY <2>1 DEF ScriptInv, n
  <2> QED
    BY <1>1, <1>3, <2>1, <2>2
<1>11. \A i \in DOMAIN t : t[i].do \in {"desc", "activate"} => InUse(t[i].b)
  BY <1>1, <1>3, <1>4 DEF ScriptInv
<1>12. Head(todo).do \in {"desc", "activate"} => InUse(B)
  BY <1>1, <1>2 DEF ScriptInv, B
<1>13. Head(todo).do = "run" => t = <<>>
  <2> HAVE Head(todo).do = "run"
  <2>1. n = 1
    BY <1>1, <1>2 DEF ScriptInv, n
  <2>2. Len(t) = 0
    BY <1>3, <2>1
  <2> QED
    BY <1>3, <2>2
<1> QED
  BY <1>3, <1>6, <1>7, <1>8, <1>9, <1>10, <1>11, <1>12, <1>13 DEF t

(* A step that is done is the only one that is not to do any more.         *)
LEMMA Advanced ==
  ASSUME LayoutInv, ScriptInv, todo # <<>>, Done
  PROVE  /\ LayoutInv' /\ ScriptInv' /\ B \in Bufs /\ msg_buffs' = msg_buffs
         /\ \A what, b : Pending(what, b) <=> Pending(what, b)' \/ (what = Head(todo).do /\ b = B)
         /\ \A what, b : Pending(what, b) => Rank(Head(todo).do) <= Rank(what)
         /\ Head(todo).do \in {"desc", "activate"} => InUse(B)
         /\ Head(todo).do = "run" => todo' = <<>>
<1>1. todo' = Tail(todo) /\ layout' = layout /\ msg_buffs' = msg_buffs
  BY DEF Done
<1>2. LayoutInv'
  BY <1>1 DEF LayoutInv
<1>3. ScriptInv'
  BY <1>1, TailIs DEF ScriptInv, InUse
<1>4. \A what, b : Do(what, b) = Head(todo) <=> (what = Head(todo).do /\ b = B)
  BY TailIs DEF Do
<1>5. \A what, b : Pending(what, b) <=> Pending(what, b)' \/ (what = Head(todo).do /\ b = B)
  <2> TAKE what, b
  <2>1. Has(todo, Do(what, b)) <=> Do(what, b) = Head(todo) \/ Has(Tail(todo), Do(what, b))
    BY TailIs
  <2>2. Pending(what, b)' <=> Has(Tail(todo), Do(what, b))
    BY <1>1 DEF Pending, Has, Do
  <2> QED
    BY <1>4, <2>1, <2>2 DEF Pending
<1>6. \A what, b : Pending(what, b) => Rank(Head(todo).do) <= Rank(what)
  <2> TAKE what, b
  <2> HAVE Pending(what, b)
  <2>1. Rank(Head(todo).do) <= Rank(Do(what, b).do)
    BY TailIs DEF Pending
  <2> QED
    BY <2>1 DEF Do
<1> QED
  BY <1>1, <1>2, <1>3, <1>5, <1>6, TailIs

-----------------------------------------------------------------------------
(* What applying a configuration keeps, step by step.                      *)

(* Reading the invariant while a configuration is applied.                 *)
LEMMA WhileApplying ==
  ASSUME AppliedInv, todo # <<>>
  PROVE  /\ DOMAIN desc_cache = Bufs /\ dev \in [Bufs -> [active : BOOLEAN, size : Nat]]
         /\ \A b \in Bufs : desc_cache[b].valid \in BOOLEAN /\ (desc_cache[b].valid \/ desc_cache[b] = Invalid)
         /\ \A b \in Bufs : desc_cache[b].valid => Pending("clear", b) \/ IsDescribed(b)
         /\ \A b \in Bufs : InUse(b) =>
              /\ Pending("desc", b) \/ (IsDescribed(b) /\ ~Pending("clear", b))
              /\ Pending("activate", b) \/ IsSized(b)
         /\ \A b \in Bufs : dev[b].active =>
              Pending("deactivate", b) \/ (desc_cache[b].valid /\ ~Pending("clear", b))
         /\ running => Pending("init", 0)
         /\ \E c \in Applicable : FromOne(c)
  BY DEF AppliedInv, DescInv, DevInv

(* The steps that change nothing of what the invariant looks at.           *)
LEMMA ClearCountersApplied ==
  ASSUME AppliedInv, ClearStatus \/ ClearCounter
  PROVE  AppliedInv'
<1>1. /\ todo # <<>> /\ Head(todo).do \in {"status", "counter"} /\ Done
      /\ UNCHANGED <<running, desc_cache, dev>>
  BY DEF ClearStatus, ClearCounter, AtStep, devices
<1>2. LayoutInv' /\ ScriptInv' /\ msg_buffs' = msg_buffs
  BY <1>1, Advanced DEF AppliedInv
<1>3. \A what \in {"deactivate", "clear", "desc", "activate", "init"} : \A b : Pending(what, b)' <=> Pending(what, b)
  BY <1>1, Advanced DEF AppliedInv
<1>4. DescInv'
  BY <1>1, <1>2, <1>3, WhileApplying DEF DescInv, FromOne, InUse, IsDescribed
<1>5. DevInv'
  BY <1>1, <1>2, <1>3, WhileApplying DEF DevInv, InUse, IsSized
<1> QED
  BY <1>2, <1>4, <1>5 DEF AppliedInv

(* acm_dev_deactivate()                                                    *)
LEMMA DeactivateApplied ==
  ASSUME AppliedInv, Deactivate
  PROVE  AppliedInv'
<1>1. /\ todo # <<>> /\ Head(todo).do = "deactivate" /\ Done
      /\ UNCHANGED <<running, desc_cache>>
      /\ dev' = [dev EXCEPT ![B].active = FALSE]
  BY DEF Deactivate, AtStep
<1>2. LayoutInv' /\ ScriptInv' /\ msg_buffs' = msg_buffs /\ B \in Bufs
  BY <1>1, Advanced DEF AppliedInv
<1>3. \A what \in {"clear", "desc", "activate", "init"} : \A b : Pending(what, b)' <=> Pending(what, b)
  BY <1>1, Advanced DEF AppliedInv
<1>4. \A b : b # B => (Pending("deactivate", b)' <=> Pending("deactivate", b))
  BY <1>1, Advanced DEF AppliedInv
<1>5. DescInv'
  BY <1>1, <1>2, <1>3, WhileApplying DEF DescInv, FromOne, InUse, IsDescribed
<1>6. /\ dev' \in [Bufs -> [active : BOOLEAN, size : Nat]] /\ ~dev'[B].active
      /\ \A b \in Bufs : dev'[b].size = dev[b].size /\ (b # B => dev'[b] = dev[b])
  BY <1>1, <1>2, WhileApplying
<1>7. DevInv'
  BY <1>1, <1>2, <1>3, <1>4, <1>6, WhileApplying DEF DevInv, InUse, IsSized
<1> QED
  BY <1>2, <1>5, <1>7 DEF AppliedInv

(* msgbuf_cleanup(): a descriptor that is cleared belongs to no active     *)
(* device any more.                                                        *)
LEMMA ClearDescriptorApplied ==
  ASSUME AppliedInv, ClearDescriptor
  PROVE  AppliedInv'
<1>1. /\ todo # <<>> /\ Head(todo).do = "clear" /\ Done
      /\ UNCHANGED <<running, dev>>
      /\ desc_cache' = [desc_cache EXCEPT ![B] = Invalid]
  BY DEF ClearDescriptor, AtStep
<1>2. LayoutInv' /\ ScriptInv' /\ msg_buffs' = msg_buffs /\ B \in Bufs
  BY <1>1, Advanced DEF AppliedInv
<1>3. \A what \in {"deactivate", "desc", "activate", "init"} : \A b : Pending(what, b)' <=> Pending(what, b)
  BY <1>1, Advanced DEF AppliedInv
<1>4. Pending("clear", B) /\ \A b : b # B => (Pending("clear", b)' <=> Pending("clear", b))
  BY <1>1, Advanced DEF AppliedInv
<1>5. /\ DOMAIN desc_cache' = Bufs /\ desc_cache'[B] = Invalid
      /\ \A b \in Bufs : b # B => desc_cache'[b] = desc_cache[b]
      /\ ~Invalid.valid /\ Invalid.valid \in BOOLEAN
  BY <1>1, <1>2, WhileApplying DEF Invalid
<1>6. DescInv'
  <2>1. \A b \in Bufs : InUse(b)' = InUse(b) /\ (b # B => IsDescribed(b)' = IsDescribed(b))
    BY <1>2, <1>5 DEF InUse, IsDescribed
  <2>2. \A b \in Bufs : desc_cache'[b].valid => b # B /\ desc_cache[b].valid
    <3> TAKE b \in Bufs
    <3>1. CASE b = B
      BY <1>5, <3>1
    <3>2. CASE b # B
      BY <1>5, <3>2
    <3> QED
      BY <3>1, <3>2
  <2>3. PICK c \in Applicable : FromOne(c)
    BY <1>1, WhileApplying
  <2>4. FromOne(c)'
    BY <1>5, <2>2, <2>3 DEF FromOne
  <2>5. \A b \in Bufs : desc_cache'[b].valid => Pending("clear", b)' \/ IsDescribed(b)'
    <3> TAKE b \in Bufs
    <3> HAVE desc_cache'[b].valid
    <3>1. b # B /\ (Pending("clear", b) \/ IsDescribed(b))
      BY <1>1, <2>2, WhileApplying
    <3> QED
      BY <1>4, <2>1, <3>1
  <2>6. \A b \in Bufs : InUse(b)' => Pending("desc", b)' \/ (IsDescribed(b)' /\ ~Pending("clear", b)')
    <3> TAKE b \in Bufs
    <3> HAVE InUse(b)'
    <3>1. Pending("desc", b) \/ (IsDescribed(b) /\ ~Pending("clear", b))
      BY <1>1, <2>1, WhileApplying
    <3> QED
      BY <1>3, <1>4, <2>1, <3>1
  <2>7. \A b \in Bufs : desc_cache'[b].valid \in BOOLEAN /\ (desc_cache'[b].valid \/ desc_cache'[b] = Invalid)
    <3> TAKE b \in Bufs
    <3>1. CASE b = B
      BY <1>5, <3>1
    <3>2. CASE b # B
      BY <1>1, <1>5, <3>2, WhileApplying
    <3> QED
      BY <3>1, <3>2
  <2> QED
    BY <1>5, <2>4, <2>5, <2>6, <2>7 DEF DescInv
<1>7. DevInv'
  BY <1>1, <1>2, <1>3, <1>4, <1>5, WhileApplying DEF DevInv, InUse, IsSized
<1> QED
  BY <1>2, <1>6, <1>7 DEF AppliedInv

(* The state at the end of the removal and when all is written: only then  *)
(* the hardware runs.                                                      *)
LEMMA SetStateApplied ==
  ASSUME AppliedInv, SetState
  PROVE  AppliedInv'
<1>1. /\ todo # <<>> /\ Done /\ UNCHANGED <<desc_cache, dev>> /\ running' = AtStep("run")
      /\ Head(todo).do \in {"init", "run"}
  BY DEF SetState, AtStep
<1>2. LayoutInv' /\ ScriptInv' /\ msg_buffs' = msg_buffs
  BY <1>1, Advanced DEF AppliedInv
<1>3. \A what \in {"deactivate", "clear", "desc", "activate"} : \A b : Pending(what, b)' <=> Pending(what, b)
  BY <1>1, Advanced DEF AppliedInv
<1>4. DescInv'
  BY <1>1, <1>2, <1>3, WhileApplying DEF DescInv, FromOne, InUse, IsDescribed
<1>5. CASE Head(todo).do = "init"
  <2>1. ~running'
    BY <1>1, <1>5 DEF AtStep
  <2>2. DevInv'
    BY <1>1, <1>2, <1>3, <2>1, WhileApplying DEF DevInv, InUse, IsSized
  <2> QED
    BY <1>2, <1>4, <2>2 DEF AppliedInv
<1>6. CASE Head(todo).do = "run"
  <2>1. todo' = <<>>
    BY <1>1, <1>6, Advanced DEF AppliedInv
  <2>2. \A what \in {"clear", "desc", "activate", "deactivate"} : \A b : ~Pending(what, b)
    BY <1>1, <1>6, Advanced DEF AppliedInv, Rank
  <2>3. \A b \in Bufs : InUse(b)' => IsDescribed(b)' /\ IsSized(b)'
    BY <1>1, <1>2, <2>2, WhileApplying DEF InUse, IsDescribed, IsSized
  <2>4. DevInv'
    BY <1>1, <1>2, <1>3, <2>1, <2>3, WhileApplying DEF DevInv
  <2> QED
    BY <1>2, <1>4, <2>4 DEF AppliedInv
<1> QED
  BY <1>1, <1>5, <1>6

(* A descriptor of the new configuration: those of the last one are all    *)
(* cleared.                                                                *)
LEMMA WriteDescriptorApplied ==
  ASSUME AppliedInv, WriteDescriptor
  PROVE  AppliedInv'
<1>1. /\ todo # <<>> /\ Head(todo).do = "desc" /\ Done
      /\ UNCHANGED <<running, dev>>
      /\ desc_cache' = [desc_cache EXCEPT ![B] = Described(msg_buffs[B + 1])]
  BY DEF WriteDescriptor, AtStep, TheBuffer
<1>2. LayoutInv' /\ ScriptInv' /\ msg_buffs' = msg_buffs /\ B \in Bufs /\ InUse(B)
  BY <1>1, Advanced DEF AppliedInv
<1>3. \A what \in {"deactivate", "activate", "clear", "init"} : \A b : Pending(what, b)' <=> Pending(what, b)
  BY <1>1, Advanced DEF AppliedInv
<1>4. \A b : b # B => (Pending("desc", b)' <=> Pending("desc", b))
  BY <1>1, Advanced DEF AppliedInv
<1>5. \A what \in {"clear", "deactivate", "init"} : \A b : ~Pending(what, b)
  BY <1>1, Advanced DEF AppliedInv, Rank
<1>6. /\ DOMAIN desc_cache' = Bufs /\ desc_cache'[B] = Described(msg_buffs[B + 1])
      /\ \A b \in Bufs : b # B => desc_cache'[b] = desc_cache[b]
      /\ desc_cache'[B].valid = TRUE
  BY <1>1, <1>2, WhileApplying DEF Described
<1>7. \A b \in Bufs : desc_cache'[b].valid => InUse(b) /\ desc_cache'[b] = Described(msg_buffs[b + 1])
  <2> TAKE b \in Bufs
  <2> HAVE desc_cache'[b].valid
  <2>1. CASE b = B
    BY <1>2, <1>6, <2>1
  <2>2. CASE b # B
    <3>1. IsDescribed(b) /\ desc_cache'[b] = desc_cache[b]
      BY <1>1, <1>5, <1>6, <2>2, WhileApplying
    <3> QED
      BY <3>1 DEF IsDescribed
  <2> QED
    BY <2>1, <2>2
<1>8. DescInv'
  <2>1. FromOne(layout)'
    BY <1>2, <1>7 DEF FromOne, LayoutInv, InUse
  <2>2. layout' \in Applicable
    BY <1>2 DEF LayoutInv
  <2>3. layout' = layout
    BY <1>1 DEF Done
  <2>4. \E c \in Applicable : FromOne(c)'
    BY <2>1, <2>2, <2>3 DEF FromOne
  <2>5. \A b \in Bufs : desc_cache'[b].valid => IsDescribed(b)'
    BY <1>2, <1>7 DEF InUse, IsDescribed
  <2>6. \A b \in Bufs : InUse(b)' => Pending("desc", b)' \/ (IsDescribed(b)' /\ ~Pending("clear", b)')
    <3> TAKE b \in Bufs
    <3> HAVE InUse(b)'
    <3>1. InUse(b) /\ ~Pending("clear", b)'
      BY <1>2, <1>3, <1>5 DEF InUse
    <3>2. CASE b = B
      BY <1>2, <1>6, <3>1, <3>2 DEF InUse, IsDescribed
    <3>3. CASE b # B
      <4>1. Pending("desc", b)' \/ IsDescribed(b)
        BY <1>1, <1>4, <3>1, <3>3, WhileApplying
      <4>2. IsDescribed(b) => IsDescribed(b)'
        BY <1>2, <1>6, <3>3 DEF InUse, IsDescribed
      <4> QED
        BY <3>1, <4>1, <4>2
    <3> QED
      BY <3>2, <3>3
  <2>7. \A b \in Bufs : desc_cache'[b].valid \in BOOLEAN /\ (desc_cache'[b].valid \/ desc_cache'[b] = Invalid)
    <3> TAKE b \in Bufs
    <3>1. CASE b = B
      BY <1>6, <3>1
    <3>2. CASE b # B
      BY <1>1, <1>6, <3>2, WhileApplying
    <3> QED
      BY <3>1, <3>2
  <2> QED
    BY <1>6, <2>4, <2>5, <2>6, <2>7 DEF DescInv
<1>9. DevInv'
  BY <1>1, <1>2, <1>3, <1>5, <1>6, WhileApplying DEF DevInv, InUse, IsSized
<1> QED
  BY <1>2, <1>8, <1>9 DEF AppliedInv

(* acm_dev_activate() takes the size of the descriptor that has been       *)
(* written before.                                                         *)
LEMMA ActivateApplied ==
  ASSUME AppliedInv, Activate
  PROVE  AppliedInv'
<1>1. todo # <<>> /\ Head(todo).do = "activate" /\ UNCHANGED <<running, desc_cache>>
  BY DEF Activate, AtStep
<1>2. B \in Bufs /\ InUse(B)
  BY <1>1, TailIs DEF AppliedInv
<1>3. \A what \in {"deactivate", "clear", "init", "desc"} : \A b : ~Pending(what, b)
  <2> TAKE what \in {"deactivate", "clear", "init", "desc"}
  <2> TAKE b
  <2>1. ASSUME Pending(what, b) PROVE Rank("activate") <= Rank(what)
    <3>1. Has(todo, Do(what, b)) /\ Do(what, b).do = what
      BY <2>1 DEF Pending, Do
    <3>2. Rank(Head(todo).do) <= Rank(Do(what, b).do)
      BY <1>1, <3>1, TailIs DEF AppliedInv
    <3> QED
      BY <1>1, <3>1, <3>2
  <2> QED
    BY <2>1 DEF Rank
<1>4. ~running /\ IsDescribed(B)
  BY <1>1, <1>2, <1>3, WhileApplying
<1>5. DeviceSize(B) = msg_buffs[B + 1].size /\ DeviceSize(B) \in Nat
  <2>1. desc_cache[B].size = msg_buffs[B + 1].size
    BY <1>4 DEF IsDescribed, Described
  <2>2. B + 1 \in DOMAIN msg_buffs /\ msg_buffs = BufferList(layout).buffers /\ layout \in Applicable
    BY <1>2 DEF InUse, AppliedInv, LayoutInv
  <2>3. msg_buffs[B + 1].size \in Nat
    BY <2>2, BuffersExist
  <2> QED
    BY <2>1, <2>3 DEF DeviceSize
<1>6. /\ dev' \in [Bufs -> [active : BOOLEAN, size : Nat]]
      /\ \A b \in Bufs : b # B => dev'[b] = dev[b]
      /\ \/ dev' = dev /\ Failed
         \/ dev'[B].size = msg_buffs[B + 1].size /\ (Failed \/ Done)
  <2>1. dev \in [Bufs -> [active : BOOLEAN, size : Nat]]
    BY <1>1, WhileApplying
  <2>2. CASE dev' = dev /\ Failed
    BY <2>1, <2>2
  <2>3. CASE dev' = [dev EXCEPT ![B].size = DeviceSize(B)] /\ (Failed \/ Done)
    BY <1>2, <1>5, <2>1, <2>3
  <2>4. CASE dev' = [dev EXCEPT ![B] = [active |-> TRUE, size |-> DeviceSize(B)]] /\ Done
    BY <1>2, <1>5, <2>1, <2>4
  <2> QED
    BY <2>2, <2>3, <2>4 DEF Activate
<1>7. \A b \in Bufs : dev'[b].active => desc_cache[b].valid
  <2> TAKE b \in Bufs
  <2> HAVE dev'[b].active
  <2>1. CASE b = B
    BY <1>4, <2>1 DEF IsDescribed, Described
  <2>2. CASE b # B
    BY <1>1, <1>3, <1>6, <2>2, WhileApplying
  <2> QED
    BY <2>1, <2>2
<1>8. CASE Failed
  <2>1. todo' = <<>> /\ layout' = layout /\ msg_buffs' = msg_buffs
    BY <1>8 DEF Failed
  <2>2. LayoutInv'
    BY <2>1 DEF AppliedInv, LayoutInv
  <2>3. ScriptInv'
    BY <2>1 DEF ScriptInv, Ordered
  <2>4. \A what, b : ~Pending(what, b)'
    BY <2>1 DEF Pending, Has
  <2>5. DescInv'
    <3>1. \A b \in Bufs : desc_cache'[b].valid => IsDescribed(b)'
      BY <1>1, <1>3, <2>1, WhileApplying DEF InUse, IsDescribed
    <3>2. \E c \in Applicable : FromOne(c)'
      BY <1>1, WhileApplying DEF FromOne
    <3> QED
      BY <1>1, <2>1, <3>1, <3>2, WhileApplying DEF DescInv
  <2>6. DevInv'
    BY <1>1, <1>4, <1>6, <1>7, <2>1, <2>4 DEF DevInv
  <2> QED
    BY <2>2, <2>3, <2>5, <2>6 DEF AppliedInv
<1>9. CASE Done /\ dev'[B].size = msg_buffs[B + 1].size
  <2>1. LayoutInv' /\ ScriptInv' /\ msg_buffs' = msg_buffs
    BY <1>1, <1>9, Advanced DEF AppliedInv
  <2>2. \A what \in {"deactivate", "clear", "init", "desc"} : \A b : ~Pending(what, b)'
    BY <1>1, <1>3, <1>9, Advanced DEF AppliedInv
  <2>3. \A b : b # B => (Pending("activate", b)' <=> Pending("activate", b))
    BY <1>1, <1>9, Advanced DEF AppliedInv
  <2>4. DescInv'
    <3>1. \A b \in Bufs : desc_cache'[b].valid => IsDescribed(b)'
      BY <1>1, <1>3, <2>1, WhileApplying DEF InUse, IsDescribed
    <3>2. \E c \in Applicable : FromOne(c)'
      BY <1>1, WhileApplying DEF FromOne
    <3>3. \A b \in Bufs : InUse(b)' => IsDescribed(b)' /\ ~Pending("clear", b)'
      BY <1>1, <1>3, <2>1, <2>2, WhileApplying DEF InUse, IsDescribed
    <3> QED
      BY <1>1, <3>1, <3>2, <3>3, WhileApplying DEF DescInv
  <2>5. \A b \in Bufs : InUse(b)' => Pending("activate", b)' \/ IsSized(b)'
    <3> TAKE b \in Bufs
    <3> HAVE InUse(b)'
    <3>1. InUse(b)
      BY <2>1 DEF InUse
    <3>2. CASE b = B
      BY <1>9, <2>1, <3>2 DEF IsSized
    <3>3. CASE b # B
      <4>1. Pending("activate", b)' \/ IsSized(b)
        BY <1>1, <2>3, <3>1, <3>3, WhileApplying
      <4> QED
        BY <1>6, <2>1, <3>3, <4>1 DEF IsSized
    <3> QED
      BY <3>2, <3>3
  <2>6. DevInv'
    BY <1>1, <1>4, <1>6, <1>7, <2>2, <2>5 DEF DevInv
  <2> QED
    BY <2>1, <2>4, <2>6 DEF AppliedInv
<1> QED
  BY <1>6, <1>8, <1>9

(* A call of the library has its steps to do.                              *)
LEMMA ApplyConfigApplied ==
  ASSUME AppliedInv, ApplyConfig
  PROVE  AppliedInv'
<1>1. PICK c \in Layouts :
        /\ BuffersValid(c) /\ layout' = c /\ msg_buffs' = BufferList(c).buffers /\ todo' = Script(c)
        /\ todo = <<>> /\ UNCHANGED <<running, desc_cache, dev>>
  BY DEF ApplyConfig, Script, devices
<1>2. c \in Applicable
  BY <1>1 DEF Applicable
<1>3. LayoutInv'
  BY <1>1, <1>2 DEF LayoutInv
<1>4. \A b \in Bufs : InUse(b)' <=> b + 1 \in DOMAIN BufferList(c).buffers
  BY <1>1 DEF InUse
<1>5. ScriptInv'
  BY <1>1, <1>2, ScriptIsRight DEF ScriptInv, InUse
<1>6. /\ \A b \in Bufs : Pending("deactivate", b)' /\ Pending("clear", b)'
      /\ \A b \in Bufs : InUse(b)' => Pending("desc", b)' /\ Pending("activate", b)'
      /\ Pending("init", 0)'
  <2>1. \A what, b : Pending(what, b)' <=> Has(Script(c), Do(what, b))
    BY <1>1 DEF Pending, Has, Do
  <2> QED
    BY <1>2, <1>4, <2>1, ScriptIsRight
<1>7. DescInv'
  <2>1. \E d \in Applicable : FromOne(d)'
    BY <1>1 DEF AppliedInv, DescInv, FromOne
  <2> QED
    BY <1>1, <1>6, <2>1 DEF AppliedInv, DescInv
<1>8. DevInv'
  BY <1>1, <1>6 DEF AppliedInv, DevInv
<1> QED
  BY <1>3, <1>5, <1>7, <1>8 DEF AppliedInv

(* A step that neither configures nor changes a device.                    *)
LEMMA UnchangedApplied ==
  ASSUME AppliedInv, UNCHANGED <<devices, configuring>>
  PROVE  AppliedInv'
<1>1. UNCHANGED <<running, desc_cache, dev, layout, msg_buffs, todo>>
  BY DEF devices, configuring
<1>2. LayoutInv' /\ ScriptInv'
  BY <1>1 DEF AppliedInv, LayoutInv, ScriptInv, InUse
<1>3. DescInv'
  BY <1>1 DEF AppliedInv, DescInv, FromOne, InUse, IsDescribed, Pending
<1>4. DevInv'
  BY <1>1 DEF AppliedInv, DevInv, InUse, IsDescribed, IsSized, Pending
<1> QED
  BY <1>2, <1>3, <1>4 DEF AppliedInv

(* A configuration without modules has no message buffers.                 *)
LEMMA NothingListed == ListUpTo(<<>>)[0] = EmptyList
<1> DEFINE F == ListUpTo(<<>>)
<1>1. \E f : f = [m \in 0 .. Len(<<>>) |-> IF m = 0 THEN EmptyList ELSE WithModule(f[m - 1], <<>>[m])]
  <2> DEFINE f == [m \in 0 .. Len(<<>>) |-> EmptyList]
  <2>1. \A m \in 0 .. Len(<<>>) : m = 0
    OBVIOUS
  <2>2. f = [m \in 0 .. Len(<<>>) |-> IF m = 0 THEN EmptyList ELSE WithModule(f[m - 1], <<>>[m])]
    BY <2>1
  <2> QED
    BY <2>2
<1>2. F = [m \in 0 .. Len(<<>>) |-> IF m = 0 THEN EmptyList ELSE WithModule(F[m - 1], <<>>[m])]
  <2>1. F = CHOOSE f : f = [m \in 0 .. Len(<<>>) |-> IF m = 0 THEN EmptyList ELSE WithModule(f[m - 1], <<>>[m])]
    BY DEF ListUpTo
  <2> HIDE DEF F
  <2> QED
    BY <1>1, <2>1, Zenon
<1> HIDE DEF F
<1>3. 0 \in 0 .. Len(<<>>)
  OBVIOUS
<1>4. F[0] = EmptyList
  BY <1>2, <1>3
<1> QED
  BY <1>4 DEF F

(* Initially a whole configuration is applied, or none.                    *)
LEMMA InitApplied ==
  ASSUME Init
  PROVE  AppliedInv
<1>1. PICK c \in {NoLayout} \cup {l \in Layouts : BuffersValid(l)} : Configured(c)
  BY DEF Init
<1>2. todo = <<>> /\ layout = c
  BY <1>1 DEF Init, Configured
<1>3. BufferList(NoLayout).buffers = <<>> /\ BuffersValid(NoLayout)
  <2>1. ListUpTo(<<>>)[0] = EmptyList
    BY NothingListed
  <2> QED
    BY <2>1, GranularityAssumption DEF BufferList, NoLayout, BuffersValid, EmptyList
<1> DEFINE buffers == BufferList(c).buffers
           used == {b \in Bufs : b + 1 \in DOMAIN buffers}
<1>4. c \in Applicable
  BY <1>1, <1>3 DEF Applicable
<1>5. msg_buffs = buffers
  BY <1>1, <1>3 DEF Configured
<1>6. /\ running = (c # NoLayout)
      /\ desc_cache = [b \in Bufs |-> IF b \in used THEN Described(buffers[b + 1]) ELSE Invalid]
      /\ dev = [b \in Bufs |-> [active |-> b \in used, size |-> IF b \in used THEN buffers[b + 1].size ELSE 0]]
  BY <1>1, <1>3 DEF Configured
<1>7. \A b \in Bufs : b \in used <=> InUse(b)
  BY <1>5 DEF InUse
<1>8. LayoutInv /\ ScriptInv
  BY <1>2, <1>4, <1>5 DEF LayoutInv, ScriptInv, Ordered
<1> HIDE DEF used
<1>9. \A b \in Bufs :
        /\ desc_cache[b].valid \in BOOLEAN /\ (desc_cache[b].valid \/ desc_cache[b] = Invalid)
        /\ desc_cache[b].valid => b \in used /\ desc_cache[b] = Described(buffers[b + 1])
        /\ b \in used => desc_cache[b] = Described(buffers[b + 1]) /\ desc_cache[b].valid
  <2> TAKE b \in Bufs
  <2>1. CASE b \in used
    BY <1>6, <2>1 DEF Described
  <2>2. CASE b \notin used
    BY <1>6, <2>2 DEF Invalid
  <2> QED
    BY <2>1, <2>2
<1>10. DescInv
  <2>1. FromOne(c)
    BY <1>9 DEF FromOne, used
  <2>2. \A b \in Bufs : desc_cache[b].valid => IsDescribed(b)
    BY <1>5, <1>7, <1>9 DEF IsDescribed
  <2>3. DOMAIN desc_cache = Bufs
    BY <1>6
  <2> QED
    BY <1>2, <1>4, <1>9, <2>1, <2>2, <2>3 DEF DescInv
<1>11. DevInv
  <2>1. \A b \in Bufs : b \in used => buffers[b + 1].size \in Nat
    BY <1>4, BuffersExist DEF used
  <2>6. \A b \in Bufs : dev[b] \in [active : BOOLEAN, size : Nat] /\ (dev[b].active => b \in used)
    <3> TAKE b \in Bufs
    <3>1. CASE b \in used
      <4>1. dev[b] = [active |-> TRUE, size |-> buffers[b + 1].size]
        BY <1>6, <3>1, Zenon
      <4> QED
        BY <2>1, <3>1, <4>1
    <3>2. CASE b \notin used
      <4>1. dev[b] = [active |-> FALSE, size |-> 0]
        <5>1. (b \in used) = FALSE
          BY <3>2
        <5>2. dev[b] = [active |-> b \in used, size |-> IF b \in used THEN buffers[b + 1].size ELSE 0]
          BY <1>6
        <5> QED
          BY <5>1, <5>2, <3>2, Zenon
      <4> QED
        BY <4>1
    <3> QED
      BY <3>1, <3>2
  <2>2. dev \in [Bufs -> [active : BOOLEAN, size : Nat]] /\ \A b \in Bufs : dev[b].active => b \in used
    <3>1. dev = [b \in Bufs |-> dev[b]]
      BY <1>6
    <3> QED
      BY <2>6, <3>1
  <2>3. \A b \in Bufs : InUse(b) => IsDescribed(b) /\ IsSized(b)
    BY <1>5, <1>6, <1>7, <1>9 DEF IsDescribed, IsSized
  <2>4. \A b \in Bufs : dev[b].active => desc_cache[b].valid /\ ~Pending("clear", b)
    BY <1>2, <1>9, <2>2 DEF Pending, Has
  <2> QED
    BY <1>2, <2>2, <2>3, <2>4 DEF DevInv
<1> QED
  BY <1>8, <1>10, <1>11 DEF AppliedInv

-----------------------------------------------------------------------------
(* The messages and the calls, while a configuration is applied.           *)

(* A call that is disturbed has nothing to promise.                        *)
LEMMA DisturbCalls ==
  ASSUME Shaped, CallInv, Disturb
  PROVE  CallInv'
<1> SUFFICES ASSUME NEW p \in Procs PROVE CallRight(p)'
  BY DEF CallInv
<1>1. CASE proc[p] = IdleProc
  <2>1. proc'[p] = IdleProc
    BY <1>1 DEF Disturb
  <2>2. proc'[p].call = "none" /\ proc'[p].at = "idle"
    BY <2>1 DEF IdleProc
  <2> QED
    BY <2>2 DEF CallRight, AccessAt
<1>2. CASE proc[p] # IdleProc
  <2>1. proc'[p] = [proc[p] EXCEPT !.disturbed = TRUE] /\ DOMAIN proc[p] = FieldNames
    BY <1>2 DEF Disturb, Shaped
  <2>2. proc'[p].disturbed /\ proc'[p].call = proc[p].call /\ proc'[p].at = proc[p].at /\ proc'[p].b = proc[p].b
    BY <2>1 DEF FieldNames
  <2>3. CallRight(p)
    BY DEF CallInv
  <2> QED
    BY <2>2, <2>3 DEF CallRight
<1> QED
  BY <1>1, <1>2

(* A message goes with the descriptor of its buffer.                       *)
LEMMA ConfigureMessages ==
  ASSUME AppliedInv, MessageInv,
         \/ ApplyConfig \/ Deactivate \/ ClearStatus \/ ClearCounter \/ ClearDescriptor \/ SetState
         \/ WriteDescriptor \/ Activate
  PROVE  MessageInv'
<1>1. CASE UNCHANGED <<desc_cache, message>>
  BY <1>1 DEF MessageInv
<1>2. CASE ClearDescriptor
  <2>1. /\ desc_cache' = [desc_cache EXCEPT ![B] = Invalid]
        /\ message' = [message EXCEPT ![B] = NoMessage]
        /\ DOMAIN message = Bufs /\ DOMAIN desc_cache = Bufs
    BY <1>2 DEF ClearDescriptor, MessageInv, AppliedInv, DescInv
  <2> QED
    BY <2>1 DEF MessageInv
<1>3. CASE WriteDescriptor
  <2>1. /\ todo # <<>> /\ Head(todo).do = "desc" /\ Done /\ message' = message
        /\ desc_cache' = [desc_cache EXCEPT ![B] = Described(msg_buffs[B + 1])]
        /\ DOMAIN message = Bufs /\ DOMAIN desc_cache = Bufs
    BY <1>3 DEF WriteDescriptor, AtStep, TheBuffer, hardware, MessageInv, AppliedInv, DescInv
  <2>2. B \in Bufs /\ \A b : ~Pending("clear", b)
    BY <2>1, Advanced DEF AppliedInv, Rank
  <2>3. message[B] = NoMessage \/ desc_cache[B] = Described(msg_buffs[B + 1])
    <3>1. CASE desc_cache[B].valid
      BY <2>1, <2>2, <3>1, WhileApplying DEF IsDescribed
    <3>2. CASE desc_cache[B] = Invalid
      BY <2>2, <3>2 DEF MessageInv, Invalid
    <3> QED
      BY <2>1, <2>2, <3>1, <3>2, WhileApplying
  <2>4. \A b \in Bufs : message'[b] = NoMessage \/ message'[b] = desc_cache'[b].name
    <3> TAKE b \in Bufs
    <3>1. message[b] = NoMessage \/ message[b] = desc_cache[b].name
      BY DEF MessageInv
    <3>2. CASE b = B
      <4>1. desc_cache'[B] = Described(msg_buffs[B + 1])
        BY <2>1, <2>2
      <4> QED
        BY <2>1, <2>3, <3>1, <3>2, <4>1
    <3>3. CASE b # B
      <4>1. desc_cache'[b] = desc_cache[b]
        BY <2>1, <3>3
      <4> QED
        BY <2>1, <3>1, <4>1
    <3> QED
      BY <3>2, <3>3
  <2> QED
    BY <2>1, <2>4 DEF MessageInv
<1> QED
  BY <1>1, <1>2, <1>3
     DEF ApplyConfig, Deactivate, ClearStatus, ClearCounter, SetState, Activate, devices, hardware

(* All steps of the process that configures.                               *)
LEMMA ConfigureConf ==
  ASSUME Shaped, ConfInv,
         \/ ApplyConfig \/ Deactivate \/ ClearStatus \/ ClearCounter \/ ClearDescriptor \/ SetState
         \/ WriteDescriptor \/ Activate
  PROVE  ConfInv'
<1>1. Disturb
  BY DEF ApplyConfig, Deactivate, ClearStatus, ClearCounter, ClearDescriptor, SetState, WriteDescriptor, Activate
<1>2. CallInv'
  BY <1>1, DisturbCalls DEF ConfInv
<1>3. MessageInv'
  BY ConfigureMessages DEF ConfInv
<1>4. AppliedInv'
  BY ApplyConfigApplied, DeactivateApplied, ClearCountersApplied, ClearDescriptorApplied, SetStateApplied,
     WriteDescriptorApplied, ActivateApplied DEF ConfInv
<1> QED
  BY <1>2, <1>3, <1>4 DEF ConfInv

-----------------------------------------------------------------------------
(* The calls.                                                              *)

(* A reader that knows of a message finds it in the buffer after the step. *)
Finds(q) ==
    proc[q].at \in {"count", "copy"} /\ proc[q].call = "read" /\ ~proc[q].disturbed =>
      (message[proc[q].b] # NoMessage => message'[proc[q].b] # NoMessage)

(* A call that waits while others go on.                                   *)
LEMMA WaitingCall ==
  ASSUME NEW q \in Procs, CallRight(q), proc'[q] = proc[q], UNCHANGED <<devices, configuring>>, Finds(q)
  PROVE  CallRight(q)'
<1>1. UNCHANGED <<desc_cache, dev, msg_buffs, todo>>
  BY DEF devices, configuring
<1>2. proc[q].call = "read" /\ ~proc[q].disturbed /\ ReadInv(q) => ReadInv(q)'
  BY <1>1 DEF ReadInv, InUse, Finds
<1>3. AliasInv(q) => AliasInv(q)'
  BY <1>1 DEF AliasInv
<1>4. Answer(q) => Answer(q)'
  BY <1>1 DEF Answer, InUse
<1> QED
  BY <1>1, <1>2, <1>3, <1>4 DEF CallRight, AccessAt

(* A step of one call: the others find what they found.                    *)
LEMMA CallKeepsConf ==
  ASSUME ConfInv, NEW p \in Procs, UNCHANGED <<devices, configuring>>, MessageInv', CallRight(p)',
         \A q \in Procs \ {p} : proc'[q] = proc[q] /\ Finds(q)
  PROVE  ConfInv'
<1>1. AppliedInv'
  BY UnchangedApplied DEF ConfInv
<1>2. \A q \in Procs \ {p} : CallRight(q)'
  BY WaitingCall DEF ConfInv, CallInv
<1>3. CallInv'
  BY <1>2 DEF CallInv
<1> QED
  BY <1>1, <1>3 DEF ConfInv

(* A call that leaves the messages alone.                                  *)
LEMMA QuietKeepsConf ==
  ASSUME ConfInv, NEW p \in Procs, UNCHANGED <<devices, configuring>>, message' = message, CallRight(p)',
         \A q \in Procs \ {p} : proc'[q] = proc[q]
  PROVE  ConfInv'
<1>1. MessageInv'
  BY DEF ConfInv, MessageInv, devices
<1>2. \A q \in Procs \ {p} : Finds(q)
  BY DEF Finds
<1> QED
  BY <1>1, <1>2, CallKeepsConf

(* The calls that lock, and the end of a call.                             *)
LEMMA LockCallIsRight ==
  ASSUME NEW p \in Procs, proc'[p].call \notin {"read", "write", "alias"}, proc'[p].at \notin AccessAt
  PROVE  CallRight(p)'
  BY DEF CallRight, AccessAt

(* Calls begin.                                                            *)
LEMMA BeginConf ==
  ASSUME Shaped, ConfInv, NEW p \in Procs,
         \/ \E mask : BeginLock(p, mask) \/ BeginUnlock(p, mask)
         \/ BeginVector(p)
         \/ \E kind \in {"read", "write"}, b \in Bufs : BeginAccess(p, kind, b)
         \/ \E b \in Bufs : BeginAlias(p, b)
  PROVE  ConfInv'
<1>1. UNCHANGED <<devices, configuring>> /\ message' = message
  BY DEF BeginLock, BeginUnlock, BeginVector, BeginAccess, BeginAlias, hardware
<1>2. PICK kind, b, mask, step :
        /\ Begin(p, kind, b, mask, step)
        /\ \/ kind \in {"lock", "unlock", "vector"} /\ step = "lock_ctl"
           \/ kind \in {"read", "write"} /\ b \in Bufs /\ step = "cdev"
           \/ kind = "alias" /\ b \in Bufs /\ step = IF dev[b].active THEN "name" ELSE "returned"
  BY DEF BeginLock, BeginUnlock, BeginVector, BeginAccess, BeginAlias
<1>3. /\ \A q \in Procs \ {p} : proc'[q] = proc[q]
      /\ proc'[p].call = kind /\ proc'[p].at = step /\ proc'[p].b = b /\ proc'[p].ret = 0
      /\ proc'[p].disturbed = (todo # <<>>)
  BY <1>2 DEF Begin, Shaped, FieldNames, IdleProc
<1>4. CallRight(p)'
  <2>1. CASE kind \in {"lock", "unlock", "vector"} /\ step = "lock_ctl"
    BY <1>3, <2>1, LockCallIsRight DEF AccessAt
  <2>2. CASE kind \in {"read", "write"} /\ b \in Bufs /\ step = "cdev"
    BY <1>1, <1>3, <2>2 DEF CallRight, ReadInv, AliasInv, Answer, AccessAt, configuring
  <2>3. CASE kind = "alias" /\ b \in Bufs /\ step = IF dev[b].active THEN "name" ELSE "returned"
    <3>1. ~(0 > 0) /\ dev' = dev
      BY <1>1 DEF devices
    <3> QED
      BY <1>1, <1>3, <2>3, <3>1 DEF CallRight, AliasInv, Answer, AccessAt, configuring
  <2> QED
    BY <1>2, <2>1, <2>2, <2>3
<1> QED
  BY <1>1, <1>3, <1>4, QuietKeepsConf

(* Calls on the lock control vector, and returns.                          *)
LEMMA LockConf ==
  ASSUME IInv, ConfInv, NEW p \in Procs,
         TakeLockCtl(p) \/ ReadLockCtl(p) \/ WriteLockCtl(p) \/ FinishVector(p) \/ Return(p)
  PROVE  ConfInv'
<1>1. UNCHANGED <<devices, configuring>> /\ message' = message /\ Shaped
  BY DEF TakeLockCtl, ReadLockCtl, WriteLockCtl, FinishVector, Return, hardware, IInv
<1>2. CASE proc' = [proc EXCEPT ![p] = IdleProc]
  <2>1. /\ \A q \in Procs \ {p} : proc'[q] = proc[q]
        /\ proc'[p].call = "none" /\ proc'[p].at = "idle"
    BY <1>1, <1>2, EndedIs
  <2>2. CallRight(p)'
    BY <2>1, LockCallIsRight DEF AccessAt
  <2> QED
    BY <1>1, <2>1, <2>2, QuietKeepsConf
<1>3. CASE TakeLockCtl(p) \/ ReadLockCtl(p) \/ FinishVector(p) \/ (WriteLockCtl(p) /\ ~Ended(p))
  <2>1. /\ \A q \in Procs \ {p} : proc'[q] = proc[q]
        /\ proc'[p].call = proc[p].call
        /\ proc'[p].at \in {"lock_ctl", "read_ctl", "write_ctl", "masked", "returned"}
        /\ proc[p].at \in {"lock_ctl", "read_ctl", "write_ctl", "masked"}
    BY <1>1, <1>3 DEF TakeLockCtl, ReadLockCtl, WriteLockCtl, FinishVector, Returned, At, Shaped, FieldNames
  <2>2. proc[p].call \in {"lock", "unlock", "vector"}
    BY <2>1 DEF IInv, LockInv, CallTyped, ProcTyped, InLockCall
  <2>3. CallRight(p)'
    BY <2>1, <2>2, LockCallIsRight DEF AccessAt
  <2> QED
    BY <1>1, <2>1, <2>3, QuietKeepsConf
<1> QED
  BY <1>2, <1>3 DEF Return, Ended

(* A call on a device that is at one of these steps.                       *)
DeviceSteps == {"cdev", "desc", "msgbuf", "status", "count", "copy"}

(* Calls within the mutex of a device are reads and writes of messages.    *)
LEMMA DeviceCall ==
  ASSUME ConfInv, NEW p \in Procs, proc[p].at \in DeviceSteps
  PROVE  /\ proc[p].call \in {"read", "write"} /\ proc[p].b \in Bufs
         /\ proc[p].call = "read" /\ ~proc[p].disturbed => todo = <<>> /\ ReadInv(p)
  BY DEF ConfInv, CallInv, CallRight, AccessAt, DeviceSteps

(* A call on a device goes on.                                             *)
LEMMA DeviceCallIsRight ==
  ASSUME ConfInv, NEW p \in Procs, proc[p].at \in DeviceSteps, proc'[p].at \in DeviceSteps,
         proc'[p].call = proc[p].call, proc'[p].b = proc[p].b, proc'[p].disturbed = proc[p].disturbed,
         todo' = todo, proc[p].call = "read" /\ ~proc[p].disturbed => ReadInv(p)'
  PROVE  CallRight(p)'
<1>1. /\ proc[p].call \in {"read", "write"} /\ proc[p].b \in Bufs
      /\ proc[p].call = "read" /\ ~proc[p].disturbed => todo = <<>>
  BY DeviceCall
<1> QED
  BY <1>1 DEF CallRight, AliasInv, Answer, AccessAt, DeviceSteps

(* A call that ended.                                                      *)
LEMMA EndedConf ==
  ASSUME Shaped, ConfInv, NEW p \in Procs, Ended(p), UNCHANGED <<devices, configuring>>, message' = message
  PROVE  ConfInv'
<1>1. /\ \A q \in Procs \ {p} : proc'[q] = proc[q]
      /\ proc'[p].call = "none" /\ proc'[p].at = "idle"
  BY EndedIs DEF Ended
<1>2. CallRight(p)'
  BY <1>1, LockCallIsRight DEF AccessAt
<1> QED
  BY <1>1, <1>2, QuietKeepsConf

(* With nothing left to do, the valid descriptors are those of the buffers.*)
LEMMA Settled ==
  ASSUME AppliedInv, todo = <<>>
  PROVE  /\ \A what, b : ~Pending(what, b)
         /\ \A b \in Bufs : desc_cache[b].valid => IsDescribed(b)
         /\ \A b \in Bufs : dev[b].active => desc_cache[b].valid
         /\ running => \A b \in Bufs : InUse(b) => IsDescribed(b) /\ IsSized(b)
<1>1. \A what, b : ~Pending(what, b)
  BY DEF Pending, Has
<1> QED
  BY <1>1 DEF AppliedInv, DescInv, DevInv

(* A read sees the size of the device while nothing is reconfigured: that  *)
(* of its buffer.                                                          *)
LEMMA EnterDeviceConf ==
  ASSUME Shaped, ConfInv, NEW p \in Procs, EnterDevice(p)
  PROVE  ConfInv'
<1>1. UNCHANGED <<devices, configuring>> /\ message' = message /\ proc[p].at = "cdev"
  BY DEF EnterDevice, hardware, At
<1>2. CASE ~running
  BY <1>1, <1>2, EndedConf DEF EnterDevice
<1>3. CASE running
  <2>1. /\ \A q \in Procs \ {p} : proc'[q] = proc[q]
        /\ proc'[p].at = "desc" /\ proc'[p].call = proc[p].call /\ proc'[p].b = proc[p].b
        /\ proc'[p].disturbed = proc[p].disturbed /\ proc'[p].size = dev[proc[p].b].size
    BY <1>3 DEF EnterDevice, Shaped, FieldNames
  <2>2. UNCHANGED <<msg_buffs, todo>>
    BY <1>1 DEF configuring
  <2>3. ASSUME proc[p].call = "read" /\ ~proc[p].disturbed PROVE ReadInv(p)'
    <3>1. todo = <<>> /\ proc[p].b \in Bufs
      BY <1>1, <2>3, DeviceCall DEF DeviceSteps
    <3>2. InUse(proc[p].b) => IsSized(proc[p].b)
      BY <1>3, <3>1, Settled DEF ConfInv
    <3> QED
      BY <2>1, <2>2, <3>2 DEF ReadInv, InUse, IsSized
  <2>4. CallRight(p)'
    BY <1>1, <2>1, <2>2, <2>3, DeviceCallIsRight DEF DeviceSteps
  <2> QED
    BY <1>1, <2>1, <2>4, QuietKeepsConf
<1> QED
  BY <1>2, <1>3

(* ... and the direction in the descriptor.                                *)
LEMMA ReadDescriptorConf ==
  ASSUME Shaped, ConfInv, NEW p \in Procs, ReadDescriptor(p)
  PROVE  ConfInv'
<1>1. UNCHANGED <<devices, configuring>> /\ message' = message /\ proc[p].at = "desc"
  BY DEF ReadDescriptor, hardware, At
<1>2. CASE Ended(p)
  BY <1>1, <1>2, EndedConf
<1>3. CASE GoTo(p, "msgbuf") /\ desc_cache[proc[p].b].dir = IF proc[p].call = "read" THEN "RX" ELSE "TX"
  <2>1. /\ \A q \in Procs \ {p} : proc'[q] = proc[q]
        /\ proc'[p].at = "msgbuf" /\ proc'[p].call = proc[p].call /\ proc'[p].b = proc[p].b
        /\ proc'[p].disturbed = proc[p].disturbed /\ proc'[p].size = proc[p].size
    BY <1>3 DEF GoTo, Shaped, FieldNames
  <2>2. UNCHANGED <<msg_buffs, todo, desc_cache>>
    BY <1>1 DEF configuring, devices
  <2>3. ASSUME proc[p].call = "read" /\ ~proc[p].disturbed PROVE ReadInv(p)'
    <3>1. ReadInv(p)
      BY <1>1, <2>3, DeviceCall DEF DeviceSteps
    <3> QED
      BY <1>1, <1>3, <2>1, <2>2, <2>3, <3>1 DEF ReadInv, InUse
  <2>4. CallRight(p)'
    BY <1>1, <2>1, <2>2, <2>3, DeviceCallIsRight DEF DeviceSteps
  <2> QED
    BY <1>1, <2>1, <2>4, QuietKeepsConf
<1> QED
  BY <1>2, <1>3 DEF ReadDescriptor

(* It waits for the mutex of the buffers.                                  *)
LEMMA TakeMsgbufConf ==
  ASSUME Shaped, ConfInv, NEW p \in Procs, TakeMsgbuf(p)
  PROVE  ConfInv'
<1>1. UNCHANGED <<devices, configuring>> /\ message' = message /\ proc[p].at = "msgbuf"
  BY DEF TakeMsgbuf, hardware, At
<1>2. /\ \A q \in Procs \ {p} : proc'[q] = proc[q]
      /\ proc'[p].at = (IF proc[p].call = "read" THEN "status" ELSE "copy")
      /\ proc'[p].call = proc[p].call /\ proc'[p].b = proc[p].b
      /\ proc'[p].disturbed = proc[p].disturbed /\ proc'[p].size = proc[p].size
  BY DEF TakeMsgbuf, GoTo, Shaped, FieldNames
<1>3. UNCHANGED <<msg_buffs, todo, desc_cache>>
  BY <1>1 DEF configuring, devices
<1>4. ASSUME proc[p].call = "read" /\ ~proc[p].disturbed PROVE ReadInv(p)'
  <2>1. ReadInv(p)
    BY <1>1, <1>4, DeviceCall DEF DeviceSteps
  <2> QED
    BY <1>1, <1>2, <1>3, <1>4, <2>1 DEF ReadInv, InUse
<1>5. CallRight(p)'
  BY <1>1, <1>2, <1>3, <1>4, DeviceCallIsRight DEF DeviceSteps
<1> QED
  BY <1>1, <1>2, <1>5, QuietKeepsConf

(* It reads whether there is a message.                                    *)
LEMMA ReadStatusConf ==
  ASSUME Shaped, ConfInv, NEW p \in Procs, ReadStatus(p)
  PROVE  ConfInv'
<1>1. UNCHANGED <<devices, configuring>> /\ message' = message /\ proc[p].at = "status"
  BY DEF ReadStatus, At
<1>2. /\ \A q \in Procs \ {p} : proc'[q] = proc[q]
      /\ proc'[p].at = "count" /\ proc'[p].call = proc[p].call /\ proc'[p].b = proc[p].b
      /\ proc'[p].disturbed = proc[p].disturbed /\ proc'[p].size = proc[p].size
      /\ proc'[p].data = message[proc[p].b]
  BY DEF ReadStatus, Shaped, FieldNames
<1>3. UNCHANGED <<msg_buffs, todo, desc_cache>>
  BY <1>1 DEF configuring, devices
<1>4. ASSUME proc[p].call = "read" /\ ~proc[p].disturbed PROVE ReadInv(p)'
  <2>1. ReadInv(p)
    BY <1>1, <1>4, DeviceCall DEF DeviceSteps
  <2> QED
    BY <1>1, <1>2, <1>3, <1>4, <2>1 DEF ReadInv, InUse
<1>5. CallRight(p)'
  BY <1>1, <1>2, <1>3, <1>4, DeviceCallIsRight DEF DeviceSteps
<1> QED
  BY <1>1, <1>2, <1>5, QuietKeepsConf

(* It counts an overwritten message.                                       *)
LEMMA CountOverwrittenConf ==
  ASSUME Shaped, ConfInv, NEW p \in Procs, CountOverwritten(p)
  PROVE  ConfInv'
<1>1. UNCHANGED <<devices, configuring>> /\ message' = message /\ proc[p].at = "count"
  BY DEF CountOverwritten, hardware, At
<1>2. CASE Ended(p)
  BY <1>1, <1>2, EndedConf
<1>3. CASE GoTo(p, "copy") /\ proc[p].data # NoMessage
  <2>1. /\ \A q \in Procs \ {p} : proc'[q] = proc[q]
        /\ proc'[p].at = "copy" /\ proc'[p].call = proc[p].call /\ proc'[p].b = proc[p].b
        /\ proc'[p].disturbed = proc[p].disturbed /\ proc'[p].size = proc[p].size
    BY <1>3 DEF GoTo, Shaped, FieldNames
  <2>2. UNCHANGED <<msg_buffs, todo, desc_cache>>
    BY <1>1 DEF configuring, devices
  <2>3. ASSUME proc[p].call = "read" /\ ~proc[p].disturbed PROVE ReadInv(p)'
    <3>1. ReadInv(p)
      BY <1>1, <2>3, DeviceCall DEF DeviceSteps
    <3> QED
      BY <1>1, <1>3, <2>1, <2>2, <2>3, <3>1 DEF ReadInv, InUse
  <2>4. CallRight(p)'
    BY <1>1, <2>1, <2>2, <2>3, DeviceCallIsRight DEF DeviceSteps
  <2> QED
    BY <1>1, <2>1, <2>4, QuietKeepsConf
<1> QED
  BY <1>2, <1>3 DEF CountOverwritten

(* A message that is for a buffer in use is of that buffer.                *)
LEMMA MessageIsOfBuffer ==
  ASSUME AppliedInv, MessageInv, todo = <<>>, NEW b \in Bufs, message[b] # NoMessage
  PROVE  InUse(b) /\ message[b] = msg_buffs[b + 1].name
<1>1. message[b] = desc_cache[b].name
  BY DEF MessageInv
<1>2. desc_cache[b].valid
  <2>1. desc_cache[b] # Invalid
    BY <1>1 DEF Invalid
  <2> QED
    BY <2>1 DEF AppliedInv, DescInv
<1>3. IsDescribed(b)
  BY <1>2, Settled
<1> QED
  BY <1>1, <1>3 DEF IsDescribed, Described

(* It copies the message, which is for the buffer it is in.                *)
LEMMA CopyOutConf ==
  ASSUME IInv, ConfInv, NEW p \in Procs, CopyOut(p)
  PROVE  ConfInv'
<1>1. /\ UNCHANGED <<devices, configuring>> /\ proc[p].at = "copy" /\ proc[p].call = "read"
      /\ message' = [message EXCEPT ![proc[p].b] = NoMessage]
  BY DEF CopyOut, At
<1>2. /\ \A q \in Procs \ {p} : proc'[q] = proc[q]
      /\ proc'[p].at = "returned" /\ proc'[p].call = proc[p].call /\ proc'[p].b = proc[p].b
      /\ proc'[p].disturbed = proc[p].disturbed /\ proc'[p].ret = proc[p].size
      /\ proc'[p].data = message[proc[p].b]
  BY DEF CopyOut, Shaped, FieldNames, IInv
<1>3. UNCHANGED <<msg_buffs, todo, desc_cache>>
  BY <1>1 DEF configuring, devices
<1>4. MessageInv'
  BY <1>1, <1>3 DEF ConfInv, MessageInv
<1>5. \A q \in Procs \ {p} : Finds(q)
  BY <1>1, OneHolder DEF IInv, CountInv, MsgSteps, Finds
<1>6. proc[p].b \in Bufs
  BY <1>1, DeviceCall DEF DeviceSteps
<1>7. ASSUME ~proc[p].disturbed
      PROVE  todo' = <<>> /\ Answer(p)'
  <2>1. todo = <<>> /\ ReadInv(p)
    BY <1>1, <1>7, DeviceCall DEF DeviceSteps
  <2>2. message[proc[p].b] # NoMessage /\ (InUse(proc[p].b) => proc[p].size = msg_buffs[proc[p].b + 1].size)
    BY <1>1, <2>1 DEF ReadInv
  <2>3. InUse(proc[p].b) /\ message[proc[p].b] = msg_buffs[proc[p].b + 1].name
    BY <1>6, <2>1, <2>2, MessageIsOfBuffer DEF ConfInv
  <2> QED
    BY <1>2, <1>3, <2>1, <2>2, <2>3 DEF Answer, InUse
<1>8. CallRight(p)'
  BY <1>1, <1>2, <1>6, <1>7 DEF CallRight, ReadInv, AliasInv, AccessAt
<1> QED
  BY <1>1, <1>2, <1>4, <1>5, <1>8, CallKeepsConf

(* A message is written for the buffer it is in.                           *)
LEMMA CopyInConf ==
  ASSUME IInv, ConfInv, NEW p \in Procs, CopyIn(p)
  PROVE  ConfInv'
<1>1. /\ UNCHANGED <<devices, configuring>> /\ proc[p].at = "copy" /\ proc[p].call = "write"
      /\ message' = [message EXCEPT ![proc[p].b] = desc_cache[proc[p].b].name]
  BY DEF CopyIn, At
<1>2. /\ \A q \in Procs \ {p} : proc'[q] = proc[q]
      /\ proc'[p].at = "status" /\ proc'[p].call = proc[p].call /\ proc'[p].b = proc[p].b
      /\ proc'[p].disturbed = proc[p].disturbed
  BY DEF CopyIn, GoTo, Shaped, FieldNames, IInv
<1>3. UNCHANGED <<msg_buffs, todo, desc_cache>>
  BY <1>1 DEF configuring, devices
<1>4. MessageInv'
  BY <1>1, <1>3 DEF ConfInv, MessageInv
<1>5. \A q \in Procs \ {p} : Finds(q)
  BY <1>1, OneHolder DEF IInv, CountInv, MsgSteps, Finds
<1>6. CallRight(p)'
  BY <1>1, <1>2, <1>3, DeviceCallIsRight DEF DeviceSteps
<1> QED
  BY <1>1, <1>2, <1>4, <1>5, <1>6, CallKeepsConf

(* An active device has the name of its buffer.                            *)
LEMMA ReadAliasConf ==
  ASSUME Shaped, ConfInv, NEW p \in Procs, ReadAlias(p)
  PROVE  ConfInv'
<1>1. UNCHANGED <<devices, configuring>> /\ message' = message /\ proc[p].at = "name"
  BY DEF ReadAlias, hardware, At
<1>2. /\ \A q \in Procs \ {p} : proc'[q] = proc[q]
      /\ proc'[p].at = "returned" /\ proc'[p].call = proc[p].call /\ proc'[p].b = proc[p].b
      /\ proc'[p].disturbed = proc[p].disturbed /\ proc'[p].ret = 1
      /\ proc'[p].data = IF dev[proc[p].b].active THEN desc_cache[proc[p].b].name ELSE NoMessage
  BY DEF ReadAlias, Shaped, FieldNames
<1>3. UNCHANGED <<msg_buffs, todo, desc_cache>>
  BY <1>1 DEF configuring, devices
<1>4. /\ proc[p].call = "alias" /\ proc[p].b \in Bufs
      /\ ~proc[p].disturbed => todo = <<>> /\ dev[proc[p].b].active
  BY <1>1 DEF ConfInv, CallInv, CallRight, AliasInv
<1>5. ASSUME ~proc[p].disturbed
      PROVE  Answer(p)'
  <2>1. IsDescribed(proc[p].b)
    BY <1>4, <1>5, Settled DEF ConfInv
  <2>2. InUse(proc[p].b) /\ proc'[p].data = msg_buffs[proc[p].b + 1].name
    BY <1>2, <1>4, <1>5, <2>1 DEF IsDescribed, Described
  <2> QED
    BY <1>2, <1>3, <1>4, <2>2 DEF Answer, InUse
<1>6. CallRight(p)'
  BY <1>2, <1>3, <1>4, <1>5 DEF CallRight, AliasInv, AccessAt
<1> QED
  BY <1>1, <1>2, <1>6, QuietKeepsConf

(* The hardware: a frame arrives over a message that is there or not, and  *)
(* what a reader found cannot be sent.                                     *)
LEMMA HardwareConf ==
  ASSUME ConfInv, NEW b \in Bufs, Receive(b) \/ Send(b)
  PROVE  ConfInv'
<1>1. UNCHANGED <<devices, configuring>> /\ proc' = proc
  BY DEF Receive, Send
<1>2. MessageInv'
  BY <1>1 DEF Receive, Send, ConfInv, MessageInv, devices
<1>3. ASSUME NEW q \in Procs PROVE Finds(q)
  <2>1. SUFFICES ASSUME proc[q].at \in {"count", "copy"}, proc[q].call = "read", ~proc[q].disturbed,
                        message[proc[q].b] # NoMessage
                 PROVE  message'[proc[q].b] # NoMessage
    BY DEF Finds
  <2>2. proc[q].b \in Bufs /\ desc_cache[proc[q].b].dir = "RX"
    BY <2>1, DeviceCall DEF DeviceSteps, ReadInv
  <2>3. message[proc[q].b] = desc_cache[proc[q].b].name /\ DOMAIN message = Bufs
    BY <2>1, <2>2 DEF ConfInv, MessageInv
  <2>4. CASE Receive(b)
    BY <2>1, <2>2, <2>3, <2>4 DEF Receive
  <2>5. CASE Send(b)
    BY <2>1, <2>2, <2>3, <2>5 DEF Send
  <2> QED
    BY <2>4, <2>5
<1>4. AppliedInv'
  BY <1>1, UnchangedApplied DEF ConfInv
<1>5. \A q \in Procs : CallRight(q)'
  BY <1>1, <1>3, WaitingCall DEF ConfInv, CallInv
<1> QED
  BY <1>2, <1>4, <1>5 DEF ConfInv, CallInv

-----------------------------------------------------------------------------
(* The second invariant holds, and what follows from it.                   *)

(* The whole invariant holds initially.                                    *)
LEMMA InitConf ==
  ASSUME Init
  PROVE  ConfInv
<1>1. message = [b \in Bufs |-> NoMessage] /\ proc = [p \in Procs |-> IdleProc]
  BY DEF Init
<1>2. MessageInv
  BY <1>1 DEF MessageInv
<1>3. CallInv
  <2>1. \A p \in Procs : proc[p].call = "none" /\ proc[p].at = "idle"
    BY <1>1 DEF IdleProc
  <2> QED
    BY <2>1 DEF CallInv, CallRight, AccessAt
<1> QED
  BY <1>2, <1>3, InitApplied DEF ConfInv

(* A counter is read, or nothing happens.                                  *)
LEMMA StillConf ==
  ASSUME ConfInv, UNCHANGED <<devices, configuring, message, proc>>
  PROVE  ConfInv'
<1>1. AppliedInv'
  BY UnchangedApplied DEF ConfInv
<1>2. MessageInv'
  BY DEF ConfInv, MessageInv, devices
<1>3. \A q \in Procs : Finds(q)
  BY DEF Finds
<1>4. \A q \in Procs : CallRight(q)'
  BY <1>3, WaitingCall DEF ConfInv, CallInv
<1> QED
  BY <1>1, <1>2, <1>4 DEF ConfInv, CallInv

(* The whole invariant is inductive.                                       *)
LEMMA NextConf ==
  ASSUME IInv, ConfInv, [Next]_vars
  PROVE  ConfInv'
<1>1. Shaped
  BY DEF IInv
<1>2. ASSUME NEW p \in Procs, Calls(p)
      PROVE  ConfInv'
  <2>1. CASE \E b \in Bufs : ReadOverwritten(p, b)
    BY <2>1, StillConf DEF ReadOverwritten, hardware
  <2>2. CASE ~\E b \in Bufs : ReadOverwritten(p, b)
    BY <1>1, <1>2, <2>2, BeginConf DEF Calls
  <2> QED
    BY <2>1, <2>2
<1>3. ASSUME NEW p \in Procs, Proceed(p)
      PROVE  ConfInv'
  BY <1>1, <1>3, LockConf, EnterDeviceConf, ReadDescriptorConf, TakeMsgbufConf, ReadStatusConf,
     CountOverwrittenConf, CopyOutConf, CopyInConf, ReadAliasConf DEF Proceed
<1>4. ASSUME ApplyConfig \/ Configure
      PROVE  ConfInv'
  BY <1>1, <1>4, ConfigureConf DEF Configure
<1>5. ASSUME NEW b \in Bufs, Receive(b) \/ Send(b)
      PROVE  ConfInv'
  BY <1>5, HardwareConf
<1>6. CASE UNCHANGED vars
  BY <1>6, StillConf DEF vars, hardware
<1> QED
  BY <1>2, <1>3, <1>4, <1>5, <1>6 DEF Next

(* acm_config_remove(), apply_configuration(): whatever step of removing   *)
(* one configuration and applying another is done, and whatever calls are  *)
(* under way, descriptors, devices and messages are those of the buffers   *)
(* they belong to, as far as the steps that are left allow.                *)
THEOREM ConfigurationHolds == Spec => []ConfInv
<1>1. Init => ConfInv
  BY InitConf
<1>2. IInv /\ ConfInv /\ [Next]_vars => ConfInv'
  BY NextConf
<1> QED
  BY <1>1, <1>2, InvariantHolds, PTL DEF Spec

(* What the invariant says of calls that have returned.                    *)
LEMMA ReadIsRight ==
  ASSUME CallInv
  PROVE  ReadIsOfItsBuffer
<1> SUFFICES ASSUME NEW p \in Procs, proc[p].call \in {"read", "alias"}, At(p, "returned"), proc[p].ret > 0,
                    ~proc[p].disturbed
             PROVE  LET buffer == msg_buffs[proc[p].b + 1]
                    IN  (proc[p].call = "read" => proc[p].ret = buffer.size) /\ proc[p].data = buffer.name
  BY DEF ReadIsOfItsBuffer
<1>1. Answer(p)
  BY DEF CallInv, CallRight
<1> QED
  BY <1>1 DEF Answer, At

(* acm_dev_read(), msg_buff_alias_read(): a read that no reconfiguration   *)
(* comes across returns the data of the buffer with the name its device    *)
(* has, and as much as the buffer holds; a read of the aliases that name.  *)
THEOREM ReadsAreOfTheirBuffer == Spec => []ReadIsOfItsBuffer
<1>1. ConfInv => ReadIsOfItsBuffer
  BY ReadIsRight DEF ConfInv
<1> QED
  BY <1>1, ConfigurationHolds, PTL

(* Units are compared as bytes are.                                        *)
LEMMA UnitsCompare ==
  ASSUME NEW a \in Nat, NEW c \in Nat, a <= c
  PROVE  a * Granularity <= c * Granularity /\ a * Granularity \in Nat /\ c * Granularity \in Nat
<1>1. Granularity \in Nat
  BY GranularityAssumption
<1>2. c = a + (c - a) /\ c - a \in Nat
  OBVIOUS
<1>3. PICK d \in Nat : c = a + d
  BY <1>2
<1>4. c * Granularity = a * Granularity + d * Granularity
  BY <1>1, <1>3
<1>5. a * Granularity \in Nat /\ d * Granularity \in Nat
  BY <1>1, <1>3
<1> QED
  BY <1>4, <1>5

(* The valid descriptors of one configuration do not share memory.         *)
LEMMA RegionsApart ==
  ASSUME NEW c \in Applicable, FromOne(c)
  PROVE  /\ \A b1, b2 \in Bufs :
              desc_cache[b1].valid /\ desc_cache[b2].valid /\ b1 # b2 => Region(b1) \cap Region(b2) = {}
         /\ \A b \in Bufs : desc_cache[b].valid =>
              (desc_cache[b].offset + desc_cache[b].size) * Granularity <= MemorySize
<1> DEFINE list == BufferList(c)
           buffers == list.buffers
<1>1. list \in Lists /\ LaidOut(list) /\ ~list.failed /\ Fits(list)
  BY ApplicableLaid DEF LaidLists
<1> HIDE DEF list
<1>2. \A k \in DOMAIN buffers : buffers[k].offset \in Nat /\ buffers[k].size \in Nat
  BY <1>1, RecordsTyped
<1>3. \A b \in Bufs : desc_cache[b].valid =>
        /\ b + 1 \in DOMAIN buffers
        /\ desc_cache[b].offset = buffers[b + 1].offset /\ desc_cache[b].size = buffers[b + 1].size
  <2> TAKE b \in Bufs
  <2> HAVE desc_cache[b].valid
  <2>1. b + 1 \in DOMAIN buffers /\ desc_cache[b] = Described(buffers[b + 1])
    BY DEF FromOne, list
  <2>2. Described(buffers[b + 1]).offset = buffers[b + 1].offset /\ Described(buffers[b + 1]).size = buffers[b + 1].size
    BY DEF Described
  <2> QED
    BY <2>1, <2>2
<1>4. ASSUME NEW b1 \in Bufs, NEW b2 \in Bufs, desc_cache[b1].valid, desc_cache[b2].valid, b1 < b2
      PROVE  Region(b1) \cap Region(b2) = {}
  <2>1. b1 + 1 < b2 + 1
    BY <1>4, GranularityAssumption DEF Bufs
  <2>2. buffers[b1 + 1].offset + buffers[b1 + 1].size <= buffers[b2 + 1].offset
    BY <1>1, <1>3, <1>4, <2>1 DEF LaidOut, End
  <2>3. desc_cache[b1].offset + desc_cache[b1].size <= desc_cache[b2].offset
    BY <1>3, <1>4, <2>2
  <2>4. /\ desc_cache[b1].offset \in Nat /\ desc_cache[b1].size \in Nat
        /\ desc_cache[b2].offset \in Nat /\ desc_cache[b2].size \in Nat
    BY <1>2, <1>3, <1>4
  <2> QED
    BY <2>3, <2>4 DEF Region
<1>5. \A b1, b2 \in Bufs : b1 # b2 => b1 < b2 \/ b2 < b1
  BY GranularityAssumption DEF Bufs
<1>6. ASSUME NEW b1 \in Bufs, NEW b2 \in Bufs, desc_cache[b1].valid, desc_cache[b2].valid, b1 # b2
      PROVE  Region(b1) \cap Region(b2) = {}
  <2>1. CASE b1 < b2
    BY <1>4, <1>6, <2>1
  <2>2. CASE b2 < b1
    <3>1. Region(b2) \cap Region(b1) = {}
      BY <1>4, <1>6, <2>2
    <3> QED
      BY <3>1
  <2> QED
    BY <1>5, <1>6, <2>1, <2>2
<1>7. ASSUME NEW b \in Bufs, desc_cache[b].valid
      PROVE  (desc_cache[b].offset + desc_cache[b].size) * Granularity <= MemorySize
  <2> DEFINE end == buffers[b + 1].offset + buffers[b + 1].size
             offset == list.offset
  <2>1. end \in Nat /\ offset \in Nat /\ end <= offset
    BY <1>1, <1>2, <1>3, <1>7, RecordsTyped DEF LaidOut, End
  <2>2. buffers # <<>>
    BY <1>3, <1>7
  <2>3. (offset + 1) * Granularity < MemorySize
    BY <1>1, <2>2 DEF Fits
  <2>4. desc_cache[b].offset + desc_cache[b].size = end
    BY <1>3, <1>7
  <2> HIDE DEF end, offset
  <2>5. end * Granularity <= (offset + 1) * Granularity /\ end * Granularity \in Nat
        /\ (offset + 1) * Granularity \in Nat
    <3>1. offset + 1 \in Nat /\ end <= offset + 1
      BY <2>1
    <3> QED
      BY <2>1, <3>1, UnitsCompare
  <2> QED
    BY <2>3, <2>4, <2>5, GranularityAssumption
<1> QED
  BY <1>6, <1>7

(* An applied configuration has a buffer for each of its operations.       *)
LEMMA OperationsServed ==
  ASSUME AppliedInv, running, todo = <<>>,
         NEW m \in DOMAIN layout, NEW i \in DOMAIN layout[m], layout[m][i].opcode # "FORWARD"
  PROVE  LET buffer == desc_cache[IndexOf(msg_buffs, layout[m][i])]
         IN  /\ buffer.valid /\ buffer.dir = Direction(layout[m][i])
             /\ OpLen(layout[m][i]) <= buffer.size * Granularity
<1> DEFINE op == layout[m][i]
           list == BufferList(layout)
<1>1. layout \in Applicable /\ msg_buffs = list.buffers
  BY DEF AppliedInv, LayoutInv
<1>2. list \in Lists /\ LaidOut(list) /\ ~list.failed /\ op \in Operations /\ Serves(list, op)
  BY <1>1, ApplicableLaid DEF LaidLists
<1>3. \A k \in DOMAIN list.buffers : k - 1 \in Bufs /\ (k - 1) + 1 = k /\ list.buffers[k].size \in Nat
  BY <1>1, BuffersExist
<1> HIDE DEF list, op
<1>4. PICK k \in NamedAs(list.buffers, op) :
        list.buffers[k].dir = Direction(op) /\ Units(op) <= list.buffers[k].size
  BY <1>2 DEF Serves, op
<1>5. k \in DOMAIN list.buffers /\ \A j \in NamedAs(list.buffers, op) : j = k
  BY <1>2, <1>4 DEF NamedAs, LaidOut
<1>6. IndexOf(msg_buffs, op) = k - 1
  <2>1. (CHOOSE j \in NamedAs(list.buffers, op) : TRUE) = k
    BY <1>4, <1>5
  <2> QED
    BY <1>1, <2>1 DEF IndexOf
<1>7. IsDescribed(k - 1)
  BY <1>1, <1>3, <1>5, Settled DEF InUse
<1>8. desc_cache[k - 1] = Described(list.buffers[k])
  BY <1>1, <1>3, <1>5, <1>7 DEF IsDescribed
<1>9. OpLen(op) <= list.buffers[k].size * Granularity
  BY <1>2, <1>3, <1>4, <1>5, UnitsHold
<1> QED
  BY <1>4, <1>6, <1>8, <1>9 DEF op, Described

(* create_hw_msg_buf_list(), update_offset_after_buffer(): the message     *)
(* buffers of every configuration that is accepted are apart in the memory *)
(* there is, while descriptors of one configuration are replaced by those  *)
(* of another, too; those of an applied configuration hold whatever its    *)
(* operations read and insert.                                             *)
THEOREM MemoryIsApart == Spec => []BuffersApart
<1>1. ConfInv => BuffersApart
  <2> HAVE ConfInv
  <2>1. PICK c \in Applicable : FromOne(c)
    BY DEF ConfInv, AppliedInv, DescInv
  <2>2. /\ \A b1, b2 \in Bufs :
             desc_cache[b1].valid /\ desc_cache[b2].valid /\ b1 # b2 => Region(b1) \cap Region(b2) = {}
        /\ \A b \in Bufs : desc_cache[b].valid =>
             (desc_cache[b].offset + desc_cache[b].size) * Granularity <= MemorySize
    BY <2>1, RegionsApart
  <2>3. AppliedInv
    BY DEF ConfInv
  <2> QED
    BY <2>2, <2>3, OperationsServed DEF BuffersApart
<1> QED
  BY <1>1, ConfigurationHolds, PTL
=============================================================================
