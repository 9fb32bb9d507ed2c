---------------------------- MODULE AcmRecovery -----------------------------
(***************************************************************************)
(* The recovery timers of redundancy.c, the RECOVERY_TIMEOUT of IEEE       *)
(* 802.1CB in software.  A delayed work runs once a tick.  For each rule   *)
(* with a timeout it asks whether a cycle passed without a frame           *)
(* (individual recovery), for each entry of the redundancy table whether   *)
(* IntSeqNum stands still (base recovery); after enough ticks it sets the  *)
(* bit that makes the hardware take any next frame.                        *)
(*                                                                         *)
(* AcmDiagnostics shows that a flag reaches the recovery whoever reads the *)
(* register, so that reading it is one step here.  A timeout set through   *)
(* sysfs and the work exclude each other by the lock of the recovery; each *)
(* is one step.                                                            *)
(***************************************************************************)
EXTENDS Naturals, FiniteSets

CONSTANTS
    Rules,                  \* rules of the bypass modules
    Bases,                  \* entries of the redundancy table
    Timeouts,               \* frerSeqRcvyResetMSec as sysfs sets it, 0 is off
    recovery_ticks_per_sec,
    MSEC_PER_SEC,           \* 1000
    WordMod, SeqMod,        \* values of 32 bits, and of the 16 of IntSeqNum
    MaxSets                 \* bound: timeouts set

ASSUME RecoveryAssumption ==
    /\ recovery_ticks_per_sec \in Nat \ {0} /\ MSEC_PER_SEC \in Nat \ {0}
    /\ WordMod \in Nat \ {0} /\ SeqMod \in Nat /\ SeqMod > 1
    /\ MaxSets \in Nat
    /\ 0 \in Timeouts /\ Timeouts \subseteq 0 .. WordMod - 1

ASSUME ItemsDiffer == Rules \cap Bases = {}

VARIABLES
    register,      \* NO_FRAME_RECEIVED_FLAGS, cleared when it is read
    cache,         \* no_frames_received.flags
    intSeqNum,     \* per entry of the redundancy table
    takeAny,       \* rules and entries with a TAKE_ANY bit
    enabled,       \* rules and entries with a RECOVERY_ENABLE bit
    individual,    \* per rule, timeout and remaining ticks
    base,          \* per entry, timeout, remaining ticks and intseqnum
    work,          \* interval and state of the delayed work
    cycled,        \* a cycle has ended since the last tick
    heard,         \* rules and entries with a frame in the last cycle
    silent,        \* ... without a frame in some cycle, and without any
                   \* frame, since the recovery looked at them
    ticks,         \* ticks in a row that found them silent
    sets           \* timeouts set so far

hardware == <<register, intSeqNum, takeAny, cycled, heard>>
timers == <<individual, base, enabled>>
vars == <<register, cache, intSeqNum, takeAny, enabled, individual, base, work,
          cycled, heard, silent, ticks, sets>>

Items == Rules \cup Bases

(* reset_remaining_ticks(): the ticks of a timeout, rounded up, by way of  *)
(* a product that may leave its 32 bits: with 100 ticks a second it does   *)
(* for timeouts of twelve hours and more.                                  *)
Product(msec) == msec * recovery_ticks_per_sec + MSEC_PER_SEC - 1
Ticks(msec) == (Product(msec) % WordMod) \div MSEC_PER_SEC
Fits(msec) == Product(msec) < WordMod

(* The most ticks that any timeout asks for, a bound of what is counted.   *)
Needed(msec) == Product(msec) \div MSEC_PER_SEC
Longest == CHOOSE n \in {Needed(t) : t \in Timeouts} :
               \A t \in Timeouts : n >= Needed(t)

TypeOK ==
    /\ register \in SUBSET Rules /\ cache \in SUBSET Rules
    /\ intSeqNum \in [Bases -> 0 .. SeqMod - 1]
    /\ takeAny \in SUBSET Items /\ enabled \in SUBSET Items
    /\ individual \in [Rules -> [msec : Timeouts, remaining : 0 .. WordMod - 1]]
    /\ base \in [Bases -> [msec : Timeouts, remaining : 0 .. WordMod - 1,
                           intseqnum : 0 .. SeqMod - 1]]
    /\ work \in {"queued", "stopping", "cancelled", "gone"}
    /\ cycled \in BOOLEAN
    /\ heard \in SUBSET Items /\ silent \in SUBSET Items
    /\ ticks \in [Items -> 0 .. Longest]
    /\ sets \in 0 .. MaxSets

(* recovery_init().                                                        *)
Init ==
    /\ register = {} /\ cache = {}
    /\ intSeqNum = [b \in Bases |-> 0]
    /\ takeAny = {} /\ enabled = {}
    /\ individual = [r \in Rules |-> [msec |-> 0, remaining |-> 0]]
    /\ base = [b \in Bases |-> [msec |-> 0, remaining |-> 0, intseqnum |-> 0]]
    /\ work = "queued"
    /\ cycled = FALSE
    /\ heard = {}
    /\ silent = Bases
    /\ ticks = [i \in Items |-> 0]
    /\ sets = 0

-----------------------------------------------------------------------------
(* A cycle of the hardware in which frames of the received rules and       *)
(* entries come.  Of one entry fewer come between two ticks than IntSeqNum *)
(* has values.  A frame that is taken clears its TAKE_ANY bit.             *)
Cycle(received) ==
    /\ register' = register \cup (Rules \ received)
    /\ intSeqNum' = [b \in Bases |-> IF b \in received
                                     THEN (intSeqNum[b] + 1) % SeqMod
                                     ELSE intSeqNum[b]]
    /\ \A b \in Bases \cap received :
         base[b].msec > 0 => intSeqNum'[b] # base[b].intseqnum
    /\ takeAny' = takeAny \ received
    /\ cycled' = TRUE
    /\ heard' = received
    /\ silent' = (silent \cup (Rules \ received)) \ (Bases \cap received)
    /\ UNCHANGED <<cache, timers, work, ticks, sets>>

(* The diagnostics read the register and keep the flags for the recovery.  *)
DiagnosticsUpdate ==
    /\ register # {}
    /\ cache' = cache \cup register
    /\ register' = {}
    /\ UNCHANGED <<intSeqNum, takeAny, timers, work, cycled, heard, silent,
                   ticks, sets>>

(* bypass_recovery_no_frame_received() for the given rules.                *)
NoFrameReceived(rules) == rules \cap (cache \cup register)

\* (Deviation: flags stay when they were asked for.)
TakeFlagsKept(rules) ==
    /\ cache' = cache \cup register
    /\ register' = {}

TakeFlags(rules) ==
    /\ cache' = (cache \cup register) \ rules
    /\ register' = {}

-----------------------------------------------------------------------------
Enable(item, msec) ==
    enabled' = IF msec > 0 THEN enabled \cup {item} ELSE enabled \ {item}

Restarted(item) == ticks' = [ticks EXCEPT ![item] = 0]

(* set_individual_recovery_timeout().  Flags of before are dropped.        *)
SetIndividual(r, msec) ==
    /\ work = "queued" /\ sets < MaxSets
    /\ Enable(r, msec)
    /\ TakeFlags({r})
    /\ individual' = [individual EXCEPT
         ![r] = [msec |-> msec, remaining |-> Ticks(msec)]]
    /\ Restarted(r)
    /\ silent' = silent \ {r}
    /\ sets' = sets + 1
    /\ UNCHANGED <<intSeqNum, takeAny, base, work, cycled, heard>>

(* set_base_recovery_timeout().                                            *)
SetBase(b, msec) ==
    /\ work = "queued" /\ sets < MaxSets
    /\ Enable(b, msec)
    /\ base' = [base EXCEPT
         ![b] = [msec |-> msec, remaining |-> Ticks(msec),
                 intseqnum |-> IF msec > 0 THEN intSeqNum[b] ELSE 0]]
    /\ Restarted(b)
    /\ silent' = silent \cup {b}
    /\ sets' = sets + 1
    /\ UNCHANGED <<register, cache, intSeqNum, takeAny, individual, work,
                   cycled, heard>>

-----------------------------------------------------------------------------
(* individual_recovery_process() and base_recovery_process(): the ticks    *)
(* left after one that found the item still; none left is a timeout.       *)
Left(timer) == (timer.remaining + WordMod - 1) % WordMod

TimedOut(timer, still) == still /\ Left(timer) = 0

\* (Deviation: the ticks are counted afresh at every tick.)
TickedAfresh(timer, still) ==
    [timer EXCEPT !.remaining = Ticks(timer.msec)]

Ticked(timer, still) ==
    [timer EXCEPT !.remaining = IF still /\ Left(timer) > 0 THEN Left(timer)
                                ELSE Ticks(timer.msec)]

Timed == {r \in Rules : individual[r].msec > 0}
TimedBases == {b \in Bases : base[b].msec > 0}

Still(b) == intSeqNum[b] = base[b].intseqnum

(* recovery_process() over the rules and entries with a timeout.           *)
RecoveryProcess ==
    /\ individual' = [r \in Rules |->
         IF r \in Timed
         THEN Ticked(individual[r], r \in NoFrameReceived(Timed))
         ELSE individual[r]]
    /\ base' = [b \in Bases |->
         IF b \in TimedBases
         THEN [Ticked(base[b], Still(b)) EXCEPT !.intseqnum = intSeqNum[b]]
         ELSE base[b]]
    /\ takeAny' = takeAny
         \cup {r \in Timed :
                 TimedOut(individual[r], r \in NoFrameReceived(Timed))}
         \cup {b \in TimedBases : TimedOut(base[b], Still(b))}
    /\ IF Timed = {} THEN UNCHANGED <<register, cache>> ELSE TakeFlags(Timed)

(* recovery_work(), which queues itself.  No cycle need have ended since   *)
(* the last tick; then it finds no flag and starts the timeouts of the     *)
(* rules anew.                                                             *)
Tick ==
    /\ work = "queued"
    /\ RecoveryProcess
    /\ cycled' = FALSE
    /\ silent' = (silent \ Timed) \cup TimedBases
    /\ ticks' = [i \in Items |->
         IF i \notin Timed \cup TimedBases \/ i \notin silent THEN 0
         ELSE IF ticks[i] < Longest THEN ticks[i] + 1 ELSE Longest]
    /\ UNCHANGED <<intSeqNum, enabled, work, heard, sets>>

-----------------------------------------------------------------------------
(* recovery_exit(): the interval is cleared, the work cancelled, and then  *)
(* every timeout.  A work that comes in between finds no interval.         *)
StopTick ==
    /\ work = "queued"
    /\ work' = "stopping"
    /\ UNCHANGED <<hardware, cache, timers, silent, ticks, sets>>

CancelWork ==
    /\ work = "stopping"
    /\ work' = "cancelled"
    /\ UNCHANGED <<hardware, cache, timers, silent, ticks, sets>>

ClearTimeouts ==
    /\ work = "cancelled"
    /\ work' = "gone"
    /\ enabled' = {}
    /\ TakeFlags(Rules)
    /\ individual' = [r \in Rules |-> [msec |-> 0, remaining |-> Ticks(0)]]
    /\ base' = [b \in Bases |-> [msec |-> 0, remaining |-> Ticks(0),
                                 intseqnum |-> 0]]
    /\ ticks' = [i \in Items |-> 0]
    /\ silent' = Bases
    /\ UNCHANGED <<intSeqNum, takeAny, cycled, heard, sets>>

Next ==
    \/ \E received \in SUBSET Items : Cycle(received)
    \/ DiagnosticsUpdate
    \/ \E r \in Rules, msec \in Timeouts : SetIndividual(r, msec)
    \/ \E b \in Bases, msec \in Timeouts : SetBase(b, msec)
    \/ Tick
    \/ StopTick \/ CancelWork \/ ClearTimeouts

(* The schedule of the hardware goes on, and the work queue runs the work. *)
Fairness ==
    /\ WF_vars(\E received \in SUBSET Items : Cycle(received))
    /\ WF_vars(Tick)

Spec == Init /\ [][Next]_vars /\ Fairness

-----------------------------------------------------------------------------
(* A TAKE_ANY bit is set only when the rule or entry was silent at each    *)
(* tick for at least the timeout that was set last: neither the rounding,  *)
(* nor flags of before the setting or of another rule, nor a frame between *)
(* shorten it.  It is said of the timeouts whose product fits 32 bits;     *)
(* others may come early.                                                  *)
Msec(i) == IF i \in Rules THEN individual[i].msec ELSE base[i].msec

Passed(i) == ticks'[i] * MSEC_PER_SEC >= Msec(i) * recovery_ticks_per_sec

TimeoutIsDue == [][\A i \in takeAny' \ takeAny : Fits(Msec(i)) => Passed(i)]_vars

StaysSilent(i) == <>[](Msec(i) > 0 /\ i \notin heard /\ work = "queued")

(* A rule or entry that has a timeout and stays silent gets its TAKE_ANY   *)
(* bit, though the diagnostics read the same flags; a rule does where at   *)
(* last each tick comes after a cycle.  (With cycles longer than a tick a  *)
(* tick without a flag starts its count anew, and it need not time out.)   *)
SilentTimesOut ==
    \A i \in Items :
        (i \in Rules => <>[][Tick => cycled]_vars)
            => (StaysSilent(i) => <>(i \in takeAny))
=============================================================================
