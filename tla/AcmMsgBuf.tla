------------------------------ MODULE AcmMsgBuf ------------------------------
(***************************************************************************)
(* The message buffers of the driver (ngn.ngn-dd/acm: msgbuf.c, chardev.c, *)
(* sysfs_control.c, the descriptors and aliases of sysfs_config.c, the     *)
(* devices' part of config.c) with the processes that use them: processes  *)
(* that read and write the devices of message buffers, lock and unlock     *)
(* buffers, read the counters of overwritten messages and the alias table, *)
(* and one that applies configurations.  Every access to a register or to  *)
(* shared memory is a step of its own.                                     *)
(***************************************************************************)
EXTENDS AcmBuffers

CONSTANTS
  Procs,        \* the processes that use message buffers
  Owns,         \* the buffers each of them locks and unlocks
  Layouts,      \* the configurations that may be applied
  WordBits,     \* bits of a word of the lock control vector (32)
  Kinds,        \* the calls each of them makes
  MaxCalls,     \* bound: calls of the processes and configurations applied
  MaxFrames     \* bound: frames the hardware receives

Bufs == 0 .. BufferCount - 1
Words == 0 .. (BufferCount - 1) \div WordBits
WordOf(b) == b \div WordBits
NoLayout == <<>>

\* No buffer belongs to two processes: they would unlock it for one another.
ASSUME OwnsAssumption ==
  /\ Owns \in [Procs -> SUBSET Bufs]
  /\ \A p, q \in Procs : p # q => Owns[p] \cap Owns[q] = {}
ASSUME LayoutsAssumption == \A c \in Layouts : c \in Seq(Seq(Operations)) /\ Len(c) = 2
ASSUME WordAssumption == WordBits \in Nat \ {0} /\ MaxCalls \in Nat /\ MaxFrames \in Nat
ASSUME KindsAssumption ==
  Kinds \in [Procs -> SUBSET {"read", "write", "lock", "unlock", "overwritten", "alias", "vector"}]

VARIABLES
  running,     \* acm_state_is_running()
  desc_cache,  \* the descriptor of each buffer
  dev,         \* the device of each buffer: active, size
  opened,      \* buffers whose device some process may hold open
  message,     \* hardware: the message in a buffer: the name it was meant for
  flag,        \* hardware: OVERWRITTEN of the status, cleared when it is read
  overwritten, \* msgbuf->overwritten
  lock_ctl,    \* hardware: the locked buffers
  lock_holder, \* who holds lock_ctl_lock
  msg_holder,  \* who holds msgbuf_lock
  dev_holder,  \* who holds cdev_mutex of each device
  proc,        \* what each process does
  holds,       \* history: the buffers each process locked and did not unlock
  calls,       \* number of calls and of configurations applied
  layout,      \* the configuration that is being or was applied
  msg_buffs,   \* config->msg_buffs of it
  todo,        \* what the configuring process still has to do
  frames,      \* number of frames received
  raised,      \* history: how often OVERWRITTEN was raised
  reported,    \* history: overwritten messages a process was told of
  discarded    \* history: those a removal dropped

devices == <<running, desc_cache, dev, opened>>
hardware == <<message, flag>>
locking == <<lock_ctl, lock_holder, holds>>
counters == <<overwritten, raised, reported, discarded>>
configuring == <<layout, msg_buffs, todo>>
bounds == <<calls, frames>>
vars == <<devices, hardware, locking, counters, msg_holder, dev_holder, proc, configuring, bounds>>

Nobody == "nobody"
ASSUME NobodyAssumption == Nobody \notin Procs
NoMessage == "none"
Invalid == [valid |-> FALSE, dir |-> "RX", offset |-> 0, size |-> 1, name |-> NoMessage]  \* the descriptor 0

\* What a process does: its call, the next step, the buffer or word it is at, the
\* mask or vector it works with, the size it read, what it returns, and whether the
\* configuration changed meanwhile.
IdleProc == [call |-> "none", at |-> "idle", b |-> 0, mask |-> {}, vector |-> {}, size |-> 0,
             counted |-> TRUE, data |-> NoMessage, ret |-> 0, again |-> FALSE, disturbed |-> FALSE]

\* The descriptor that is written for a buffer
Described(buffer) == [valid |-> TRUE, dir |-> buffer.dir, offset |-> buffer.offset, size |-> buffer.size,
                      name |-> buffer.name]

\* The driver after it was probed (c = NoLayout) or after c was applied.
Configured(c) ==
  LET buffers == IF c = NoLayout THEN <<>> ELSE BufferList(c).buffers
      used == {b \in Bufs : b + 1 \in DOMAIN buffers}
  IN  /\ layout = c /\ msg_buffs = buffers
      /\ running = (c # NoLayout)
      /\ desc_cache = [b \in Bufs |-> IF b \in used THEN Described(buffers[b + 1]) ELSE Invalid]
      /\ dev = [b \in Bufs |-> [active |-> b \in used, size |-> IF b \in used THEN buffers[b + 1].size ELSE 0]]
      /\ opened = used

Init ==
  /\ \E c \in {NoLayout} \cup {l \in Layouts : BuffersValid(l)} : Configured(c)
  /\ message = [b \in Bufs |-> NoMessage]
  /\ flag = [b \in Bufs |-> FALSE]
  /\ overwritten = [b \in Bufs |-> 0]
  /\ lock_ctl = {} /\ lock_holder = Nobody
  /\ msg_holder = Nobody /\ dev_holder = [b \in Bufs |-> Nobody]
  /\ proc = [p \in Procs |-> IdleProc]
  /\ holds = [p \in Procs |-> {}]
  /\ calls = 0 /\ frames = 0 /\ todo = <<>>
  /\ raised = [b \in Bufs |-> 0] /\ reported = [b \in Bufs |-> 0] /\ discarded = [b \in Bufs |-> 0]

(***************************************************************************)
(* Calls of the processes.                                                 *)
(***************************************************************************)
Begin(p, kind, b, mask, at) ==
  /\ kind \in Kinds[p]
  /\ proc[p] = IdleProc
  /\ calls < MaxCalls
  /\ calls' = calls + 1
  /\ proc' = [proc EXCEPT ![p] = [IdleProc EXCEPT !.call = kind, !.at = at, !.b = b, !.mask = mask,
                                                  !.again = kind = "unlock", !.disturbed = todo # <<>>]]

At(p, step) == proc[p].at = step

\* The process goes on at another step, or returns: at once where what it returns
\* says no more than that the call ended.
GoTo(p, step) == proc' = [proc EXCEPT ![p].at = step]
Ended(p) == proc' = [proc EXCEPT ![p] = IdleProc]
Returned(p, value) == proc' = [proc EXCEPT ![p].at = "returned", ![p].ret = value]

Return(p) ==
  /\ At(p, "returned")
  /\ proc' = [proc EXCEPT ![p] = IdleProc]
  /\ UNCHANGED <<devices, hardware, locking, counters, msg_holder, dev_holder, configuring, bounds>>

(***************************************************************************)
(* lock_msg_bufs_write() and unlock_msg_bufs_write(): the words are read   *)
(* one after the other, then written one after the other.                  *)
(***************************************************************************)
BeginLock(p, mask) ==
  /\ Begin(p, "lock", 0, mask, "lock_ctl")
  /\ UNCHANGED <<devices, hardware, locking, counters, msg_holder, dev_holder, configuring, frames>>

BeginUnlock(p, mask) ==
  /\ Begin(p, "unlock", 0, mask, "lock_ctl")
  /\ holds' = [holds EXCEPT ![p] = @ \ mask]
  /\ UNCHANGED <<devices, hardware, lock_ctl, lock_holder, counters, msg_holder, dev_holder, configuring, frames>>

\* (Deviation: the lock of the lock control vector is not waited for.)
LockCtlAlways == TRUE
LockCtlFree == lock_holder = Nobody

TakeLockCtl(p) ==
  /\ At(p, "lock_ctl")
  /\ LockCtlFree
  /\ lock_holder' = p
  /\ proc' = [proc EXCEPT ![p].at = "read_ctl", ![p].b = 0, ![p].vector = {}]
  /\ UNCHANGED <<devices, hardware, lock_ctl, holds, counters, msg_holder, dev_holder, configuring, bounds>>

InWord(w) == {b \in Bufs : WordOf(b) = w}
LastWord(p) == proc[p].b + 1 \notin Words

ReadLockCtl(p) ==
  /\ At(p, "read_ctl")
  /\ proc' = [proc EXCEPT ![p].vector = @ \cup (lock_ctl \cap InWord(proc[p].b)),
                          ![p].b = IF LastWord(p) THEN 0 ELSE @ + 1,
                          ![p].at = IF ~LastWord(p) THEN "read_ctl"
                                    ELSE IF proc[p].call = "vector" THEN "masked" ELSE "write_ctl"]
  /\ UNCHANGED <<devices, hardware, locking, counters, msg_holder, dev_holder, configuring, bounds>>

NewVector(p) ==
  IF proc[p].call = "lock" THEN proc[p].vector \cup proc[p].mask ELSE proc[p].vector \ proc[p].mask

\* unlock_msg_bufs_write() unsets the mask a second time.
WriteLockCtl(p) ==
  /\ At(p, "write_ctl")
  /\ lock_ctl' = (lock_ctl \ InWord(proc[p].b)) \cup (NewVector(p) \cap InWord(proc[p].b))
  /\ IF ~LastWord(p) THEN proc' = [proc EXCEPT ![p].b = @ + 1] /\ UNCHANGED <<lock_holder, holds>>
     ELSE /\ lock_holder' = Nobody
          /\ IF proc[p].again
               THEN proc' = [proc EXCEPT ![p].at = "lock_ctl", ![p].again = FALSE] /\ UNCHANGED holds
               ELSE /\ Ended(p)
                    /\ holds' = IF proc[p].call = "lock" THEN [holds EXCEPT ![p] = @ \cup proc[p].mask] ELSE holds
  /\ UNCHANGED <<devices, hardware, counters, msg_holder, dev_holder, configuring, bounds>>

\* lock_msg_bufs_read(); the mask of existing buffers is not applied to what was read.
BeginVector(p) ==
  /\ Begin(p, "vector", 0, {}, "lock_ctl")
  /\ UNCHANGED <<devices, hardware, locking, counters, msg_holder, dev_holder, configuring, frames>>

\* status_read_buffer_locking_vector() returns what read_buffer_sysfs_item()
\* returns, which is 0 after a successful read.
FinishVector(p) ==
  /\ At(p, "masked")
  /\ lock_holder' = Nobody
  /\ Returned(p, 0)
  /\ UNCHANGED <<devices, hardware, lock_ctl, holds, counters, msg_holder, dev_holder, configuring, bounds>>

(***************************************************************************)
(* acm_dev_read() and acm_dev_write() on a device that is or was open.     *)
(***************************************************************************)
BeginAccess(p, kind, b) ==
  /\ kind \in {"read", "write"}
  /\ b \in opened
  /\ Begin(p, kind, b, {}, "cdev")
  /\ UNCHANGED <<devices, hardware, locking, counters, msg_holder, dev_holder, configuring, frames>>

\* The state is looked at without its lock.
EnterDevice(p) ==
  /\ At(p, "cdev")
  /\ dev_holder[proc[p].b] = Nobody
  /\ IF running
       THEN /\ dev_holder' = [dev_holder EXCEPT ![proc[p].b] = p]
            /\ proc' = [proc EXCEPT ![p].size = dev[proc[p].b].size, ![p].at = "desc"]
       ELSE Ended(p) /\ UNCHANGED dev_holder
  /\ UNCHANGED <<devices, hardware, locking, counters, msg_holder, configuring, bounds>>

LeaveDevice(p) == dev_holder' = [dev_holder EXCEPT ![proc[p].b] = Nobody]

\* The type comes from the cached descriptor, without its lock.
ReadDescriptor(p) ==
  /\ At(p, "desc")
  /\ LET desc == desc_cache[proc[p].b]
         direction == IF proc[p].call = "read" THEN "RX" ELSE "TX"
     IN  IF desc.dir = direction
           THEN GoTo(p, "msgbuf") /\ UNCHANGED dev_holder
           ELSE Ended(p) /\ LeaveDevice(p)
  /\ UNCHANGED <<devices, hardware, locking, counters, msg_holder, configuring, bounds>>

TakeMsgbuf(p) ==
  /\ At(p, "msgbuf")
  /\ msg_holder = Nobody
  /\ msg_holder' = p
  /\ GoTo(p, IF proc[p].call = "read" THEN "status" ELSE "copy")
  /\ UNCHANGED <<devices, hardware, locking, counters, dev_holder, configuring, bounds>>

\* msgbuf_read_status() clears OVERWRITTEN and counts it in a second step.
ReadStatus(p) ==
  /\ At(p, "status")
  /\ flag' = [flag EXCEPT ![proc[p].b] = FALSE]
  /\ proc' = [proc EXCEPT ![p].counted = ~flag[proc[p].b], ![p].data = message[proc[p].b], ![p].at = "count"]
  /\ UNCHANGED <<devices, message, locking, counters, msg_holder, dev_holder, configuring, bounds>>

\* (Deviation: a read of an empty buffer returns with msgbuf_lock held.)
StillHolder(p) == IF proc[p].data = NoMessage THEN msg_holder ELSE Nobody
MsgHolderAfter(p) == Nobody

CountOverwritten(p) ==
  /\ At(p, "count")
  /\ overwritten' = [overwritten EXCEPT ![proc[p].b] = IF proc[p].counted THEN @ ELSE @ + 1]
  /\ IF proc[p].call = "read" /\ proc[p].data # NoMessage
       THEN GoTo(p, "copy") /\ UNCHANGED <<msg_holder, dev_holder>>
       ELSE /\ Ended(p)
            /\ msg_holder' = MsgHolderAfter(p)
            /\ LeaveDevice(p)
  /\ UNCHANGED <<devices, hardware, locking, raised, reported, discarded, configuring, bounds>>

\* A read takes the message out of the buffer.
CopyOut(p) ==
  /\ At(p, "copy") /\ proc[p].call = "read"
  /\ proc' = [proc EXCEPT ![p].data = message[proc[p].b], ![p].at = "returned", ![p].ret = proc[p].size]
  /\ message' = [message EXCEPT ![proc[p].b] = NoMessage]
  /\ msg_holder' = Nobody
  /\ LeaveDevice(p)
  /\ UNCHANGED <<devices, flag, locking, counters, configuring, bounds>>

\* Raising OVERWRITTEN where it is not set already.
Overwrites(b) ==
  IF message[b] = NoMessage \/ flag[b] THEN UNCHANGED <<flag, raised>>
  ELSE flag' = [flag EXCEPT ![b] = TRUE] /\ raised' = [raised EXCEPT ![b] = @ + 1]

\* A write over a message that was not sent yet overwrites it.
CopyIn(p) ==
  /\ At(p, "copy") /\ proc[p].call = "write"
  /\ message' = [message EXCEPT ![proc[p].b] = desc_cache[proc[p].b].name]
  /\ Overwrites(proc[p].b)
  /\ GoTo(p, "status")
  /\ UNCHANGED <<devices, locking, overwritten, reported, discarded, msg_holder, dev_holder, configuring, bounds>>

(***************************************************************************)
(* overwritten_read() and msg_buff_alias_read() of one buffer.             *)
(***************************************************************************)
\* (Deviation: the counter is read but not cleared.)
CounterKept(b) == overwritten[b]
CounterCleared(b) == 0

ReadOverwritten(p, b) ==
  /\ "overwritten" \in Kinds[p]
  /\ proc[p] = IdleProc
  /\ calls < MaxCalls
  /\ calls' = calls + 1
  /\ reported' = [reported EXCEPT ![b] = @ + overwritten[b]]
  /\ overwritten' = [overwritten EXCEPT ![b] = CounterCleared(b)]
  /\ UNCHANGED <<devices, hardware, locking, raised, discarded, msg_holder, dev_holder, proc, configuring, frames>>

\* The device is looked at twice, without its lock.
BeginAlias(p, b) ==
  /\ Begin(p, "alias", b, {}, IF dev[b].active THEN "name" ELSE "returned")
  /\ UNCHANGED <<devices, hardware, locking, counters, msg_holder, dev_holder, configuring, frames>>

ReadAlias(p) ==
  /\ At(p, "name")
  /\ proc' = [proc EXCEPT ![p].at = "returned", ![p].ret = 1,
                          ![p].data = IF dev[proc[p].b].active THEN desc_cache[proc[p].b].name ELSE NoMessage]
  /\ UNCHANGED <<devices, hardware, locking, counters, msg_holder, dev_holder, configuring, bounds>>
(***************************************************************************)
(* The process that applies configurations; the other parts of the driver  *)
(* and the failures of single writes are in AcmState.                      *)
(***************************************************************************)
Do(what, b) == [do |-> what, b |-> b]
ForEach(what) == [i \in 1 .. BufferCount |-> Do(what, i - 1)]

\* acm_config_remove(): the devices of all buffers, then all descriptors
RemoveDevice(b) == <<Do("deactivate", b), Do("status", b), Do("counter", b)>>
RemoveDevices == [i \in 1 .. 3 * BufferCount |-> RemoveDevice((i - 1) \div 3)[1 + ((i - 1) % 3)]]
RemoveSteps == RemoveDevices \o ForEach("clear")

\* apply_configuration(): "it is important to first write the file descriptors and
\* then the message buffer aliases".
BufferSteps(c) ==
  LET used == SubSeq(ForEach("desc"), 1, Len(BufferList(c).buffers))
      aliases == SubSeq(ForEach("activate"), 1, Len(BufferList(c).buffers))
  IN  used \o aliases

\* A call that is under way sees the configuration change.
Disturb == proc' = [p \in Procs |-> IF proc[p] = IdleProc THEN IdleProc ELSE [proc[p] EXCEPT !.disturbed = TRUE]]

ApplyConfig ==
  /\ todo = <<>>
  /\ Disturb
  /\ calls < MaxCalls
  /\ calls' = calls + 1
  /\ \E c \in Layouts :
       /\ BuffersValid(c)
       /\ layout' = c
       /\ msg_buffs' = BufferList(c).buffers
       /\ todo' = RemoveSteps \o <<Do("init", 0)>> \o RemoveSteps \o BufferSteps(c) \o <<Do("run", 0)>>
  /\ UNCHANGED <<devices, hardware, locking, counters, msg_holder, dev_holder, frames>>

AtStep(what) == todo # <<>> /\ Head(todo).do = what
B == Head(todo).b
Done == todo' = Tail(todo) /\ UNCHANGED <<layout, msg_buffs>>
Failed == todo' = <<>> /\ UNCHANGED <<layout, msg_buffs>>

Deactivate ==
  /\ AtStep("deactivate")
  /\ dev_holder[B] = Nobody
  /\ Done /\ Disturb
  /\ dev' = [dev EXCEPT ![B].active = FALSE]
  /\ UNCHANGED <<running, desc_cache, opened, hardware, locking, counters, msg_holder, dev_holder, bounds>>

ClearStatus ==
  /\ AtStep("status")
  /\ Done /\ Disturb
  /\ flag' = [flag EXCEPT ![B] = FALSE]
  /\ overwritten' = [overwritten EXCEPT ![B] = IF flag[B] THEN @ + 1 ELSE @]
  /\ UNCHANGED <<devices, message, locking, raised, reported, discarded, msg_holder, dev_holder, bounds>>

ClearCounter ==
  /\ AtStep("counter")
  /\ Done /\ Disturb
  /\ discarded' = [discarded EXCEPT ![B] = @ + overwritten[B]]
  /\ overwritten' = [overwritten EXCEPT ![B] = 0]
  /\ UNCHANGED <<devices, hardware, locking, raised, reported, msg_holder, dev_holder, bounds>>

\* msgbuf_cleanup(); a buffer without valid descriptor holds no message.
ClearDescriptor ==
  /\ AtStep("clear")
  /\ Done /\ Disturb
  /\ desc_cache' = [desc_cache EXCEPT ![B] = Invalid]
  /\ message' = [message EXCEPT ![B] = NoMessage]
  /\ UNCHANGED <<running, dev, opened, flag, locking, counters, msg_holder, dev_holder, bounds>>

SetState ==
  /\ AtStep("init") \/ AtStep("run")
  /\ running' = AtStep("run")
  /\ Done /\ Disturb
  /\ UNCHANGED <<desc_cache, dev, opened, hardware, locking, counters, msg_holder, dev_holder, bounds>>

TheBuffer == msg_buffs[B + 1]

WriteDescriptor ==
  /\ AtStep("desc")
  /\ Done /\ Disturb
  /\ desc_cache' = [desc_cache EXCEPT ![B] = Described(TheBuffer)]
  /\ UNCHANGED <<running, dev, opened, hardware, locking, counters, msg_holder, dev_holder, bounds>>

\* (Deviation: the size is stored only when a device is activated first.)
DeviceSizeOnce(b) == IF b \in opened THEN dev[b].size ELSE desc_cache[b].size
DeviceSize(b) == desc_cache[b].size

\* msg_buff_alias_write() looks at the device before acm_dev_activate() locks it.
\* device_create() may fail, which acm_dev_activate() does not report.
Activate ==
  /\ AtStep("activate")
  /\ dev_holder[B] = Nobody
  /\ Disturb
  /\ IF dev[B].active \/ ~desc_cache[B].valid THEN Failed /\ UNCHANGED <<dev, opened>>
     ELSE \/ Failed /\ dev' = [dev EXCEPT ![B].size = DeviceSize(B)] /\ UNCHANGED opened
          \/ Done /\ dev' = [dev EXCEPT ![B].size = DeviceSize(B)] /\ UNCHANGED opened
          \/ /\ Done
             /\ dev' = [dev EXCEPT ![B] = [active |-> TRUE, size |-> DeviceSize(B)]]
             /\ opened' = opened \cup {B}
  /\ UNCHANGED <<running, desc_cache, hardware, locking, counters, msg_holder, dev_holder, bounds>>

Configure ==
  \/ Deactivate \/ ClearStatus \/ ClearCounter \/ ClearDescriptor \/ SetState \/ WriteDescriptor \/ Activate

(***************************************************************************)
(* The hardware (external): frames arrive in RX buffers and leave TX ones. *)
(***************************************************************************)
Receive(b) ==
  /\ frames < MaxFrames
  /\ running /\ desc_cache[b].valid /\ desc_cache[b].dir = "RX" /\ b \notin lock_ctl
  /\ frames' = frames + 1
  /\ message' = [message EXCEPT ![b] = desc_cache[b].name]
  /\ Overwrites(b)
  /\ UNCHANGED <<devices, locking, overwritten, reported, discarded, msg_holder, dev_holder, proc, configuring, calls>>

Send(b) ==
  /\ desc_cache[b].dir = "TX" /\ message[b] # NoMessage /\ b \notin lock_ctl
  /\ message' = [message EXCEPT ![b] = NoMessage]
  /\ UNCHANGED <<devices, flag, locking, counters, msg_holder, dev_holder, proc, configuring, bounds>>

(***************************************************************************)
(* Specification.                                                          *)
(***************************************************************************)
Calls(p) ==
  \/ \E mask \in SUBSET Owns[p] \ {{}} : BeginLock(p, mask) \/ BeginUnlock(p, mask)
  \/ BeginVector(p)
  \/ \E kind \in {"read", "write"}, b \in Bufs : BeginAccess(p, kind, b)
  \/ \E b \in Bufs : ReadOverwritten(p, b) \/ BeginAlias(p, b)

Proceed(p) ==
  \/ TakeLockCtl(p) \/ ReadLockCtl(p) \/ WriteLockCtl(p) \/ FinishVector(p)
  \/ EnterDevice(p) \/ ReadDescriptor(p) \/ TakeMsgbuf(p) \/ ReadStatus(p) \/ CountOverwritten(p)
  \/ CopyOut(p) \/ CopyIn(p) \/ ReadAlias(p) \/ Return(p)

Next ==
  \/ \E p \in Procs : Calls(p) \/ Proceed(p)
  \/ ApplyConfig \/ Configure
  \/ \E b \in Bufs : Receive(b) \/ Send(b)

\* A call and an application that are under way go on, and a mutex is given to
\* those who wait for it.
Fairness == WF_vars(Configure) /\ \A p \in Procs : SF_vars(Proceed(p))

Spec == Init /\ [][Next]_vars /\ Fairness

(***************************************************************************)
(* Properties.                                                             *)
(***************************************************************************)
InLockCall(p) == proc[p].call \in {"lock", "unlock"}

\* Whatever other processes lock and unlock at the same time, a buffer is locked
\* exactly while the process it belongs to holds it: no update of the lock control
\* vector, which takes two reads and two writes, undoes another one.
LocksAsCalled ==
  \A p \in Procs : ~InLockCall(p) => lock_ctl \cap Owns[p] = holds[p]

InFlight(b) == Cardinality({p \in Procs : proc[p].b = b /\ At(p, "count") /\ ~proc[p].counted})

\* No overwritten message is lost or counted twice between the status register,
\* which is cleared by reading it, the counter and those who read the counter.
OverwrittenConserved ==
  \A b \in Bufs :
    raised[b] = (IF flag[b] THEN 1 ELSE 0) + InFlight(b) + overwritten[b] + reported[b] + discarded[b]

\* While no configuration is removed or applied, a read of a device that returns data
\* returns as many units as the message buffer has and a message that was meant for
\* the buffer of that name, and a read of the alias table returns that name.
ReadIsOfItsBuffer ==
  \A p \in Procs :
    (proc[p].call \in {"read", "alias"} /\ At(p, "returned") /\ proc[p].ret > 0 /\ ~proc[p].disturbed) =>
      LET buffer == msg_buffs[proc[p].b + 1]
      IN  /\ proc[p].call = "read" => proc[p].ret = buffer.size
          /\ proc[p].data = buffer.name

Region(b) == desc_cache[b].offset .. desc_cache[b].offset + desc_cache[b].size - 1

\* Message buffers never share memory and are inside the memory there is; when the
\* configuration is applied they hold every operation that uses them with its
\* timestamp, also where operations of both modules share one buffer.
BuffersApart ==
  /\ \A b1, b2 \in Bufs :
       desc_cache[b1].valid /\ desc_cache[b2].valid /\ b1 # b2 => Region(b1) \cap Region(b2) = {}
  /\ \A b \in Bufs : desc_cache[b].valid => (desc_cache[b].offset + desc_cache[b].size) * Granularity <= MemorySize
  /\ running /\ todo = <<>> =>
       \A m \in DOMAIN layout : \A i \in DOMAIN layout[m] :
         layout[m][i].opcode # "FORWARD" =>
           LET buffer == desc_cache[IndexOf(msg_buffs, layout[m][i])]
           IN  /\ buffer.valid /\ buffer.dir = Direction(layout[m][i])
               /\ OpLen(layout[m][i]) <= buffer.size * Granularity

\* Every call on a message buffer returns, with reads, writes and removals waiting
\* for the mutexes of the devices and of the buffers in any order.
CallsReturn == \A p \in Procs : proc[p] # IdleProc ~> proc[p] = IdleProc
=============================================================================
