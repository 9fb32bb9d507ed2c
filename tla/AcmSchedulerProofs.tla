-------------------------- MODULE AcmSchedulerProofs --------------------------
(***************************************************************************)
(* Proofs about AcmScheduler, for any tables, times and number of requests:*)
(* a schedule is started as it was asked for, in time for the hardware,    *)
(* whenever the delayed work runs.                                         *)
(***************************************************************************)
EXTENDS AcmScheduler, FiniteSetTheorems, NaturalsInduction, WellFoundedInduction, TLAPS

-----------------------------------------------------------------------------
(* The inductive invariant.                                                *)

(* Where the caller is: it writes a schedule, or it removes one.           *)
Writing == pc \in {"rows", "rest", "cycle", "start"}
Stopping == pc \in {"stop", "stop_cycle", "stop_start", "stop_trigger", "wait", "null"}

CallTyped ==
    /\ pc = "idle" \/ Writing \/ Stopping
    /\ pc # "idle" => target \in Tables
    /\ asked \in [Tables -> [start : StartTimes \cup {0}, cycle : Cycles \cup {0}, id : 0 .. MaxRequests]]

(* What the caller has written so far.                                     *)
Prepared ==
    /\ pc \in {"cycle", "start"} => rows[target] = {requests}
    /\ pc = "start" => cycle[target] = want.cycle
    /\ pc = "stop_start" => cycle[target] = STOP_CYCLE /\ starttime <= now
    /\ pc = "stop_trigger" => ~trigger[target]

(* Nothing is outstanding of the table it writes to.                       *)
TargetIsFree ==
    Writing /\ target \notin overrun => ~in_use[target] /\ ~can_be_taken[target] /\ ~pending[target]

(* During a removal nothing is outstanding but the stop schedule.          *)
OnlyStopIsOutstanding ==
    Stopping => \A t \in Tables \ overrun :
                  ~pending[t] /\ (can_be_taken[t] => t = target /\ ~trigger[t])

(* A start that is outstanding is the one that was asked for last.         *)
StartIsAsked ==
    \A t \in Tables \ overrun :
      /\ trigger[t] /\ (pending[t] \/ can_be_taken[t]) => rows[t] = {asked[t].id} /\ cycle[t] = asked[t].cycle
      /\ pending[t] => time[t] = asked[t].start
      /\ trigger[t] /\ can_be_taken[t] =>
           /\ start[t] >= asked[t].start
           /\ start[t] # asked[t].start => (start[t] - asked[t].start) % cycle[t] = 0

IInv ==
    /\ TypeOK
    /\ CallTyped
    /\ Prepared
    /\ TargetIsFree
    /\ OnlyStopIsOutstanding
    /\ StartIsAsked

-----------------------------------------------------------------------------
(* Arithmetic.                                                             *)

(* A time rounded up to whole cycles is later, by whole cycles.            *)
LEMMA Rounded ==
  ASSUME NEW d \in Nat, NEW c \in Nat \ {0}
  PROVE  /\ (d \div c + 1) * c \in Nat
         /\ (d \div c + 1) * c > d
         /\ ((d \div c + 1) * c) % c = 0
<1>1. d \div c \in Nat /\ d % c \in 0 .. c - 1
  OBVIOUS
<1>2. PICK q \in Nat : q = d \div c
  BY <1>1
<1>3. PICK r \in 0 .. c - 1 : r = d % c
  BY <1>1
<1>4. PICK e \in Nat : e = c * q
  OBVIOUS
<1>5. d = e + r
  BY <1>2, <1>3, <1>4, SMT
<1>6. (q + 1) * c = e + c
  BY <1>4
<1>7. \A k \in Nat : (k * c) % c = 0
  OBVIOUS
<1>8. ((q + 1) * c) % c = 0
  BY <1>7
<1>9. QED
  BY <1>2, <1>3, <1>4, <1>5, <1>6, <1>8

(* A set of natural numbers has a least one.                               *)
LEMMA Least ==
  ASSUME NEW S \in SUBSET Nat, S # {}
  PROVE  \E x \in S : \A y \in S : x <= y
<1> DEFINE R == OpToRel(<, Nat)
           Q == {ss \in Nat \X Nat : ss[1] < ss[2]}
<1>1. IsWellFoundedOn(R, Nat)
  BY NatLessThanWellFounded
<1>2. R = Q
  BY Zenon DEF OpToRel
<1> HIDE DEF R
<1>3. PICK x \in S : \A y \in S : ~(<<y, x>> \in Q)
  BY <1>1, <1>2, WFMin, Zenon
<1>4. ASSUME NEW y \in S PROVE x <= y
  <2>1. <<y, x>> \in Nat \X Nat
    OBVIOUS
  <2>2. ~(y < x)
    BY <1>3, <2>1
  <2>3. QED
    BY <2>2
<1>5. QED
  BY <1>4

(* The first free table is one of the free tables.                         *)
LEMMA FirstIsOne ==
  ASSUME NEW S \in SUBSET Tables, S # {}
  PROVE  First(S) \in S
<1>1. \E x \in S : \A y \in S : x <= y
  BY Least, TablesAssumption
<1>2. QED
  BY <1>1 DEF First

(* A start that is moved on is not in the past, and moved by whole cycles. *)
LEMMA Adjusted ==
  ASSUME NEW tm \in Nat, NEW cyc \in Nat, now \in Nat, ~(tm < now /\ cyc = 0)
  PROVE  /\ AdjustedStart(tm, cyc) \in Nat
         /\ AdjustedStart(tm, cyc) >= now
         /\ AdjustedStart(tm, cyc) >= tm
         /\ AdjustedStart(tm, cyc) # tm => (AdjustedStart(tm, cyc) - tm) % cyc = 0
<1>1. CASE tm >= now
  BY <1>1 DEF AdjustedStart
<1>2. CASE ~(tm >= now)
  <2>1. cyc \in Nat \ {0} /\ now - tm \in Nat
    BY <1>2
  <2> DEFINE n == ((now - tm) \div cyc + 1) * cyc
  <2>2. n \in Nat /\ n > now - tm /\ n % cyc = 0
    BY <2>1, Rounded
  <2>3. AdjustedStart(tm, cyc) = tm + n
    BY <1>2 DEF AdjustedStart
  <2> HIDE DEF n
  <2>4. (tm + n) - tm = n /\ tm + n \in Nat /\ tm + n >= now /\ tm + n >= tm
    BY <2>1, <2>2
  <2>5. QED
    BY <2>2, <2>3, <2>4
<1>3. QED
  BY <1>1, <1>2

-----------------------------------------------------------------------------
(* What the steps have in common.                                          *)

(* At most one table is in use.                                            *)
LEMMA InUseOnce ==
  ASSUME TypeOK,
         \/ in_use' = in_use
         \/ in_use' = OnEach(FALSE)
         \/ \E t \in Tables : in_use' = [u \in Tables |-> u = t]
  PROVE  /\ in_use' \in [Tables -> BOOLEAN]
         /\ Cardinality({ t \in Tables : in_use'[t] }) <= 1
<1>1. CASE in_use' = in_use
  BY <1>1 DEF TypeOK
<1>2. CASE in_use' = OnEach(FALSE)
  <2>1. { t \in Tables : in_use'[t] } = {}
    BY <1>2 DEF OnEach
  <2>2. QED
    BY <1>2, <2>1, FS_EmptySet DEF OnEach
<1>3. CASE \E t \in Tables : in_use' = [u \in Tables |-> u = t]
  <2>1. PICK t \in Tables : in_use' = [u \in Tables |-> u = t]
    BY <1>3
  <2>2. { u \in Tables : in_use'[u] } = {t}
    BY <2>1
  <2>3. Cardinality({ u \in Tables : in_use'[u] }) = 1
    BY <2>2, FS_Singleton
  <2>4. QED
    BY <2>1, <2>3
<1>4. QED
  BY <1>1, <1>2, <1>3

(* The schedule that is applied.                                           *)
LEMMA WantTyped ==
  ASSUME TypeOK
  PROVE  /\ want.start \in StartTimes \cup {0} /\ want.cycle \in Cycles \cup {0}
         /\ want.start \in Nat /\ want.cycle \in Nat
<1>1. want \in [start : StartTimes \cup {0}, cycle : Cycles \cup {0}]
  BY DEF TypeOK
<1>2. want.start \in StartTimes \cup {0} /\ want.cycle \in Cycles \cup {0}
  BY <1>1
<1>3. StartTimes \cup {0} \subseteq Nat /\ Cycles \cup {0} \subseteq Nat
  BY TimesAssumption
<1>4. QED
  BY <1>2, <1>3, Zenon

(* What write_start_time_execute() leaves behind for its table.            *)
LEMMA ExecuteEffect ==
  ASSUME TypeOK, NEW t \in Tables, NEW tm \in Nat, NEW trg \in BOOLEAN, NEW i \in 0 .. MaxRequests,
         Execute(t, tm, trg, i)
  PROVE  /\ start' \in [Tables -> Nat] /\ can_be_taken' \in [Tables -> BOOLEAN]
         /\ last_cyc_nr_en' \in [Tables -> BOOLEAN] /\ time' \in [Tables -> Nat]
         /\ pending' \in [Tables -> BOOLEAN] /\ due' \in [Tables -> Nat]
         /\ waiting' \in [Tables -> 0 .. MaxRequests]
         /\ \A u \in Tables \ {t} : /\ start'[u] = start[u] /\ can_be_taken'[u] = can_be_taken[u]
                                    /\ time'[u] = time[u] /\ pending'[u] = pending[u]
         /\ pending'[t] => time'[t] = tm /\ TooFar(tm, cycle[t]) /\ ~(tm < now /\ cycle[t] = 0)
         /\ \/ start'[t] = start[t] /\ can_be_taken'[t] = can_be_taken[t]
            \/ /\ start'[t] \in now .. now + WINDOW
               /\ start'[t] >= tm
               /\ start'[t] # tm => (start'[t] - tm) % cycle[t] = 0
               /\ can_be_taken'[t] = (trg \/ can_be_taken[t])
               /\ ~pending'[t]
<1>1. /\ now \in Nat /\ cycle[t] \in Nat /\ WINDOW \in Nat \ {0}
      /\ start \in [Tables -> Nat] /\ can_be_taken \in [Tables -> BOOLEAN]
      /\ last_cyc_nr_en \in [Tables -> BOOLEAN] /\ time \in [Tables -> Nat]
      /\ pending \in [Tables -> BOOLEAN] /\ due \in [Tables -> Nat]
      /\ waiting \in [Tables -> 0 .. MaxRequests] /\ 0 \in 0 .. MaxRequests
  BY WindowAssumption, BoundsAssumption DEF TypeOK
<1> DEFINE a == AdjustedStart(tm, cycle[t])
<1>2. ASSUME ~(tm < now /\ cycle[t] = 0)
      PROVE  a \in Nat /\ a >= now /\ a >= tm /\ (a # tm => (a - tm) % cycle[t] = 0)
  BY <1>1, <1>2, Adjusted
<1>3. TooFar(tm, cycle[t]) <=> a - now > WINDOW
  BY DEF TooFar
<1> HIDE DEF a
<1>4. CASE ExecuteLater(t, tm, trg) /\ waiting' = Set(waiting, t, i)
  <2>1. /\ ~(tm < now /\ cycle[t] = 0) /\ TooFar(tm, cycle[t])
        /\ pending' = [pending EXCEPT ![t] = TRUE] /\ time' = [time EXCEPT ![t] = tm]
        /\ due' = [due EXCEPT ![t] = now + ((a - now) % WINDOW)]
        /\ UNCHANGED <<start, can_be_taken, last_cyc_nr_en>>
        /\ waiting' = [waiting EXCEPT ![t] = i]
    BY <1>4 DEF ExecuteLater, Set, Requeued, a
  <2>2. now + ((a - now) % WINDOW) \in Nat
    <3>1. a - now \in Nat
      BY <1>1, <1>2, <2>1
    <3>2. (a - now) % WINDOW \in Nat
      BY <1>1, <3>1
    <3>3. QED
      BY <1>1, <3>2
  <2>3. due' \in [Tables -> Nat]
    BY <1>1, <2>1, <2>2
  <2>4. /\ pending' \in [Tables -> BOOLEAN] /\ time' \in [Tables -> Nat]
        /\ waiting' \in [Tables -> 0 .. MaxRequests]
    BY <1>1, <2>1
  <2>5. QED
    BY <1>1, <2>1, <2>3, <2>4
<1>5. CASE ExecuteWithoutCycle(t, tm, trg) /\ waiting' = Set(waiting, t, 0)
  <2>1. /\ pending' = [pending EXCEPT ![t] = FALSE] /\ time' = [time EXCEPT ![t] = tm]
        /\ due' = [due EXCEPT ![t] = 0]
        /\ UNCHANGED <<start, can_be_taken, last_cyc_nr_en>>
        /\ waiting' = [waiting EXCEPT ![t] = 0]
    BY <1>5 DEF ExecuteWithoutCycle, Set
  <2>2. /\ pending' \in [Tables -> BOOLEAN] /\ time' \in [Tables -> Nat] /\ due' \in [Tables -> Nat]
        /\ waiting' \in [Tables -> 0 .. MaxRequests]
    BY <1>1, <2>1
  <2>3. ~pending'[t] /\ \A u \in Tables \ {t} : time'[u] = time[u] /\ pending'[u] = pending[u]
    BY <1>1, <2>1
  <2>4. QED
    BY <1>1, <2>1, <2>2, <2>3
<1>6. CASE ExecuteNow(t, tm, trg) /\ waiting' = Set(waiting, t, 0)
  <2>1. /\ ~(tm < now /\ cycle[t] = 0) /\ ~TooFar(tm, cycle[t])
        /\ time' = [time EXCEPT ![t] = a] /\ start' = [start EXCEPT ![t] = a]
        /\ pending' = [pending EXCEPT ![t] = FALSE] /\ due' = [due EXCEPT ![t] = 0]
        /\ can_be_taken' = [can_be_taken EXCEPT ![t] = trg \/ can_be_taken[t]]
        /\ last_cyc_nr_en' = [last_cyc_nr_en EXCEPT ![t] = ~trg /\ last_cyc_nr_en[t]]
        /\ waiting' = [waiting EXCEPT ![t] = 0]
    BY <1>6 DEF ExecuteNow, Set, a
  <2>2. a \in Nat /\ a >= now /\ a >= tm /\ (a # tm => (a - tm) % cycle[t] = 0)
    BY <1>2, <2>1
  <2>3. a \in now .. now + WINDOW
    BY <1>1, <1>3, <2>1, <2>2
  <2>4. /\ time' \in [Tables -> Nat] /\ start' \in [Tables -> Nat]
        /\ pending' \in [Tables -> BOOLEAN] /\ due' \in [Tables -> Nat]
        /\ waiting' \in [Tables -> 0 .. MaxRequests]
    BY <1>1, <2>1, <2>2
  <2>5. /\ can_be_taken' \in [Tables -> BOOLEAN] /\ last_cyc_nr_en' \in [Tables -> BOOLEAN]
    BY <1>1, <2>1
  <2>6. /\ start'[t] = a /\ ~pending'[t] /\ can_be_taken'[t] = (trg \/ can_be_taken[t])
        /\ \A u \in Tables \ {t} : /\ start'[u] = start[u] /\ can_be_taken'[u] = can_be_taken[u]
                                   /\ time'[u] = time[u] /\ pending'[u] = pending[u]
    BY <1>1, <2>1
  <2>7. QED
    BY <2>2, <2>3, <2>4, <2>5, <2>6
<1>7. QED
  BY <1>4, <1>5, <1>6 DEF Execute

-----------------------------------------------------------------------------
(* The inductive invariant holds initially, and every step keeps it.       *)

(* No schedule was written.                                                *)
LEMMA InitIInv ==
  ASSUME Init
  PROVE  IInv
<1>1. /\ in_use \in [Tables -> BOOLEAN]
      /\ Cardinality({ t \in Tables : in_use[t] }) <= 1
  <2>1. in_use = [t \in Tables |-> FALSE]
    BY DEF Init, OnEach
  <2>2. { t \in Tables : in_use[t] } = {}
    BY <2>1
  <2>3. QED
    BY <2>1, <2>2, FS_EmptySet
<1>2. /\ rows \in [Tables -> SUBSET (0 .. MaxRequests + 1)]
      /\ waiting \in [Tables -> 0 .. MaxRequests]
      /\ requests \in 0 .. MaxRequests
  BY BoundsAssumption DEF Init, OnEach, NULL_ROWS
<1>3. want \in [start : StartTimes \cup {0}, cycle : Cycles \cup {0}]
  BY DEF Init, NoWant
<1>4. TypeOK
  BY <1>1, <1>2, <1>3 DEF Init, OnEach, TypeOK
<1>5. asked \in [Tables -> [start : StartTimes \cup {0}, cycle : Cycles \cup {0}, id : 0 .. MaxRequests]]
  BY BoundsAssumption DEF Init, OnEach
<1>6. CallTyped /\ Prepared /\ TargetIsFree /\ OnlyStopIsOutstanding
  BY <1>5 DEF Init, CallTyped, Prepared, TargetIsFree, OnlyStopIsOutstanding, Writing, Stopping
<1>7. StartIsAsked
  BY DEF Init, OnEach, StartIsAsked
<1>8. QED
  BY <1>4, <1>6, <1>7 DEF IInv

(* acm_apply_schedule() takes a table that is free.                        *)
LEMMA ApplyKeeps ==
  ASSUME IInv, NEW st \in StartTimes, NEW cyc \in Cycles, Apply(st, cyc)
  PROVE  IInv'
<1> USE DEF IInv
<1>1. /\ pc = "idle" /\ requests < MaxRequests /\ Free # {}
      /\ requests' = requests + 1 /\ target' = First(Free)
      /\ want' = [start |-> st, cycle |-> cyc] /\ pc' = "rows"
      /\ overrun' = IF pending[First(Free)] THEN overrun \cup {First(Free)} ELSE overrun
      /\ UNCHANGED <<has_reset, now, in_use, can_be_taken, last_cyc_nr_en, last_cyc_reached, start, cycle, rows,
                     time, trigger, pending, due, starttime, asked, waiting, disabled>>
  BY DEF Apply, hwVars, statusVars, workVars
<1>2. First(Free) \in Tables /\ ~can_be_taken[First(Free)] /\ ~in_use[First(Free)]
  <2>1. Free \in SUBSET Tables
    BY DEF Free
  <2>2. First(Free) \in Free
    BY <1>1, <2>1, FirstIsOne
  <2>3. QED
    BY <2>2 DEF Free
<1>3. TypeOK'
  <2>1. requests' \in 0 .. MaxRequests /\ overrun' \subseteq Tables
    BY <1>1, <1>2, BoundsAssumption DEF TypeOK
  <2>2. want' \in [start : StartTimes \cup {0}, cycle : Cycles \cup {0}]
    BY <1>1
  <2>3. QED
    BY <1>1, <1>2, <2>1, <2>2 DEF TypeOK
<1>4. CallTyped' /\ Prepared' /\ OnlyStopIsOutstanding'
  BY <1>1, <1>2 DEF CallTyped, Prepared, OnlyStopIsOutstanding, Writing, Stopping
<1>5. TargetIsFree'
  BY <1>1, <1>2 DEF TargetIsFree
<1>6. StartIsAsked'
  <2>1. overrun \subseteq overrun'
    BY <1>1
  <2>2. QED
    BY <1>1, <2>1 DEF StartIsAsked
<1>7. QED
  BY <1>3, <1>4, <1>5, <1>6

(* The rows and the cycle time of a schedule are written to a table of     *)
(* which nothing is outstanding, or one that is noted.                     *)
LEMMA WriteTableKeeps ==
  ASSUME IInv, WriteSomeRows \/ WriteOtherRows \/ WriteCycle
  PROVE  IInv'
<1> USE DEF IInv
<1>1. /\ Writing /\ Writing' /\ ~Stopping' /\ target \in Tables
      /\ UNCHANGED <<has_reset, now, in_use, can_be_taken, last_cyc_nr_en, last_cyc_reached, start,
                     time, trigger, pending, due, target, want, starttime, requests,
                     asked, waiting, overrun, disabled>>
  BY DEF WriteSomeRows, WriteOtherRows, WriteCycle, Writing, Stopping, CallTyped,
         statusVars, workVars, historyVars
<1>2. /\ \A t \in Tables \ {target} : rows'[t] = rows[t] /\ cycle'[t] = cycle[t]
      /\ rows' \in [Tables -> SUBSET (0 .. MaxRequests + 1)] /\ cycle' \in [Tables -> Nat]
      /\ pc' \in {"rest", "cycle", "start"}
      /\ pc' \in {"cycle", "start"} => rows'[target] = {requests}
      /\ pc' = "start" => cycle'[target] = want.cycle
  <2>1. /\ rows \in [Tables -> SUBSET (0 .. MaxRequests + 1)] /\ cycle \in [Tables -> Nat]
        /\ requests \in 0 .. MaxRequests
    BY DEF TypeOK
  <2>2. {requests} \in SUBSET (0 .. MaxRequests + 1) /\ want.cycle \in Nat
    BY <2>1, BoundsAssumption, WantTyped
  <2>3. CASE WriteSomeRows
    <3>1. pc' = "rest" /\ rows' = [rows EXCEPT ![target] = rows[target] \cup {requests}] /\ cycle' = cycle
      BY <2>3 DEF WriteSomeRows, Set
    <3>2. rows[target] \cup {requests} \in SUBSET (0 .. MaxRequests + 1)
      BY <1>1, <2>1, <2>2
    <3>3. rows' \in [Tables -> SUBSET (0 .. MaxRequests + 1)]
      BY <2>1, <3>1, <3>2
    <3>4. QED
      BY <2>1, <2>2, <3>1, <3>3
  <2>4. CASE WriteOtherRows
    <3>1. pc' = "cycle" /\ rows' = [rows EXCEPT ![target] = {requests}] /\ cycle' = cycle
      BY <2>4 DEF WriteOtherRows, Set
    <3>2. QED
      BY <1>1, <2>1, <2>2, <3>1
  <2>5. CASE WriteCycle
    <3>1. pc = "cycle" /\ pc' = "start" /\ rows' = rows /\ cycle' = [cycle EXCEPT ![target] = want.cycle]
      BY <2>5 DEF WriteCycle, Set
    <3>2. rows[target] = {requests}
      BY <3>1 DEF Prepared
    <3>3. QED
      BY <1>1, <2>1, <2>2, <3>1, <3>2
  <2>6. QED
    BY <2>3, <2>4, <2>5
<1>3. TypeOK'
  BY <1>1, <1>2 DEF TypeOK
<1>4. CallTyped' /\ Prepared' /\ OnlyStopIsOutstanding'
  BY <1>1, <1>2 DEF CallTyped, Prepared, OnlyStopIsOutstanding
<1>5. TargetIsFree'
  BY <1>1 DEF TargetIsFree
<1>6. StartIsAsked'
  <2>1. SUFFICES ASSUME NEW t \in Tables \ overrun', pending'[t] \/ can_be_taken'[t]
                 PROVE  rows'[t] = rows[t] /\ cycle'[t] = cycle[t]
    BY <1>1 DEF StartIsAsked
  <2>2. t # target
    BY <1>1, <2>1 DEF TargetIsFree
  <2>3. QED
    BY <1>2, <2>1, <2>2
<1>7. QED
  BY <1>3, <1>4, <1>5, <1>6

(* The call fails: what is written remains, and is not started.            *)
LEMMA ApplyFailsKeeps ==
  ASSUME IInv, ApplyFails
  PROVE  IInv'
<1> USE DEF IInv
<1>1. /\ pc' = "idle" /\ want' = NoWant
      /\ UNCHANGED <<has_reset, now, in_use, can_be_taken, last_cyc_nr_en, last_cyc_reached, start, cycle, rows,
                     time, trigger, pending, due, target, starttime, requests,
                     asked, waiting, overrun, disabled>>
  BY DEF ApplyFails, hwVars, statusVars, workVars, historyVars
<1>2. want' \in [start : StartTimes \cup {0}, cycle : Cycles \cup {0}]
  BY <1>1 DEF NoWant
<1>3. TypeOK'
  BY <1>1, <1>2 DEF TypeOK
<1>4. CallTyped' /\ Prepared' /\ TargetIsFree' /\ OnlyStopIsOutstanding'
  BY <1>1 DEF CallTyped, Prepared, TargetIsFree, OnlyStopIsOutstanding, Writing, Stopping
<1>5. StartIsAsked'
  BY <1>1 DEF StartIsAsked
<1>6. QED
  BY <1>3, <1>4, <1>5

(* The start of the schedule: from now on it is the one asked for last.    *)
LEMMA WriteStartKeeps ==
  ASSUME IInv, WriteStart
  PROVE  IInv'
<1> USE DEF IInv
<1> DEFINE wish == [start |-> want.start, cycle |-> want.cycle, id |-> requests]
<1>1. /\ pc = "start" /\ pc' = "idle"
      /\ trigger' = [trigger EXCEPT ![target] = TRUE]
      /\ Execute(target, want.start, TRUE, requests)
      /\ asked' = [asked EXCEPT ![target] = wish]
      /\ overrun' = OverrunEnds /\ want' = NoWant /\ disabled' = FALSE
      /\ UNCHANGED <<has_reset, now, in_use, last_cyc_reached, cycle, rows, target, starttime, requests>>
  BY DEF WriteStart, Set
<1>2. /\ target \in Tables /\ rows[target] = {requests} /\ cycle[target] = want.cycle
      /\ want.start \in Nat /\ requests \in 0 .. MaxRequests /\ TRUE \in BOOLEAN
      /\ wish \in [start : StartTimes \cup {0}, cycle : Cycles \cup {0}, id : 0 .. MaxRequests]
  <2>1. target \in Tables /\ rows[target] = {requests} /\ cycle[target] = want.cycle
    BY <1>1 DEF CallTyped, Prepared
  <2>2. requests \in 0 .. MaxRequests
    BY DEF TypeOK
  <2>3. QED
    BY <2>1, <2>2, WantTyped
<1>3. wish.start = want.start /\ wish.cycle = want.cycle /\ wish.id = requests
  OBVIOUS
<1>4. /\ start' \in [Tables -> Nat] /\ can_be_taken' \in [Tables -> BOOLEAN]
      /\ last_cyc_nr_en' \in [Tables -> BOOLEAN] /\ time' \in [Tables -> Nat]
      /\ pending' \in [Tables -> BOOLEAN] /\ due' \in [Tables -> Nat]
      /\ waiting' \in [Tables -> 0 .. MaxRequests]
      /\ \A u \in Tables \ {target} : /\ start'[u] = start[u] /\ can_be_taken'[u] = can_be_taken[u]
                                      /\ time'[u] = time[u] /\ pending'[u] = pending[u]
      /\ pending'[target] => time'[target] = want.start
      /\ \/ start'[target] = start[target] /\ can_be_taken'[target] = can_be_taken[target]
         \/ /\ start'[target] >= want.start
            /\ start'[target] # want.start => (start'[target] - want.start) % cycle[target] = 0
            /\ ~pending'[target]
  BY <1>1, <1>2, ExecuteEffect
<1> HIDE DEF wish
<1>5. /\ trigger'[target] /\ asked'[target] = wish
      /\ \A u \in Tables \ {target} : trigger'[u] = trigger[u] /\ asked'[u] = asked[u]
      /\ trigger' \in [Tables -> BOOLEAN]
      /\ asked' \in [Tables -> [start : StartTimes \cup {0}, cycle : Cycles \cup {0}, id : 0 .. MaxRequests]]
  BY <1>1, <1>2 DEF TypeOK, CallTyped
<1>6. want' \in [start : StartTimes \cup {0}, cycle : Cycles \cup {0}] /\ overrun' \subseteq Tables
  BY <1>1 DEF NoWant, OverrunEnds, TypeOK
<1>7. TypeOK'
  <2>1. \A u \in Tables : pending'[u] => trigger'[u]
    BY <1>4, <1>5 DEF TypeOK
  <2>2. /\ disabled' \in BOOLEAN
        /\ UNCHANGED <<has_reset, now, in_use, last_cyc_reached, cycle, rows, target, starttime, requests>>
    BY <1>1
  <2>3. /\ start' \in [Tables -> Nat] /\ can_be_taken' \in [Tables -> BOOLEAN]
        /\ last_cyc_nr_en' \in [Tables -> BOOLEAN] /\ time' \in [Tables -> Nat]
        /\ pending' \in [Tables -> BOOLEAN] /\ due' \in [Tables -> Nat]
        /\ waiting' \in [Tables -> 0 .. MaxRequests] /\ trigger' \in [Tables -> BOOLEAN]
    BY <1>4, <1>5
  <2>4. QED
    BY <1>6, <2>1, <2>2, <2>3 DEF TypeOK
<1>8. CallTyped' /\ Prepared' /\ TargetIsFree' /\ OnlyStopIsOutstanding'
  BY <1>1, <1>5 DEF CallTyped, Prepared, TargetIsFree, OnlyStopIsOutstanding, Writing, Stopping
<1>9. StartIsAsked'
  <2>1. SUFFICES ASSUME NEW t \in Tables \ overrun'
                 PROVE  /\ trigger'[t] /\ (pending'[t] \/ can_be_taken'[t]) =>
                             rows'[t] = {asked'[t].id} /\ cycle'[t] = asked'[t].cycle
                        /\ pending'[t] => time'[t] = asked'[t].start
                        /\ trigger'[t] /\ can_be_taken'[t] =>
                             /\ start'[t] >= asked'[t].start
                             /\ start'[t] # asked'[t].start => (start'[t] - asked'[t].start) % cycle'[t] = 0
    BY DEF StartIsAsked
  <2>2. CASE t = target
    <3>1. ~can_be_taken[target]
      BY <1>1, <2>1, <2>2 DEF OverrunEnds, TargetIsFree, Writing
    <3>2. rows'[t] = {asked'[t].id} /\ cycle'[t] = asked'[t].cycle /\ asked'[t].start = want.start
      BY <1>1, <1>2, <1>3, <1>5, <2>2
    <3>3. QED
      BY <1>1, <1>4, <2>2, <3>1, <3>2
  <2>3. CASE t # target
    <3>1. t \notin overrun
      BY <1>1, <2>1, <2>3 DEF OverrunEnds
    <3>2. QED
      BY <1>1, <1>4, <1>5, <2>1, <2>3, <3>1 DEF StartIsAsked
  <2>4. QED
    BY <2>2, <2>3
<1>10. QED
  BY <1>7, <1>8, <1>9

(* A removal takes a table that is not in use and notes what is            *)
(* outstanding of the others.                                              *)
LEMMA RemoveKeeps ==
  ASSUME IInv, Remove
  PROVE  IInv'
<1> USE DEF IInv
<1> DEFINE used == IF has_reset THEN OnEach(FALSE) ELSE in_use
           taken == IF has_reset THEN OnEach(FALSE) ELSE can_be_taken
<1>1. /\ pc = "idle" /\ requests < MaxRequests /\ requests' = requests + 1
      /\ in_use' = used /\ can_be_taken' = taken
      /\ last_cyc_nr_en' = IF has_reset THEN OnEach(FALSE) ELSE last_cyc_nr_en
      /\ last_cyc_reached' = IF has_reset THEN OnEach(FALSE) ELSE last_cyc_reached
      /\ start' = IF has_reset THEN OnEach(0) ELSE start
      /\ cycle' = IF has_reset THEN OnEach(0) ELSE cycle
      /\ overrun' = overrun \cup { t \in Tables : pending[t] \/ taken[t] }
      /\ UNCHANGED <<has_reset, now, rows, time, trigger, pending, due, want, starttime, asked, waiting, disabled>>
  BY DEF Remove, workVars
<1>2. \/ target' = First({ t \in Tables : ~used[t] }) /\ pc' = "stop" /\ \E t \in Tables : ~used[t]
      \/ UNCHANGED <<target, pc>>
  BY DEF Remove
<1>3. pc' = "stop" => target' \in Tables
  <2>1. { t \in Tables : ~used[t] } \in SUBSET Tables
    OBVIOUS
  <2> HIDE DEF used
  <2>2. ASSUME \E t \in Tables : ~used[t] PROVE First({ t \in Tables : ~used[t] }) \in Tables
    <3>1. { t \in Tables : ~used[t] } # {}
      BY <2>2
    <3>2. QED
      BY <2>1, <3>1, FirstIsOne
  <2>3. QED
    BY <1>1, <1>2, <2>2
<1>4. /\ in_use' \in [Tables -> BOOLEAN] /\ Cardinality({ t \in Tables : in_use'[t] }) <= 1
  <2>1. in_use' = in_use \/ in_use' = OnEach(FALSE)
    BY <1>1
  <2>2. QED
    BY <2>1, InUseOnce
<1>5. /\ can_be_taken' \in [Tables -> BOOLEAN] /\ last_cyc_nr_en' \in [Tables -> BOOLEAN]
      /\ last_cyc_reached' \in [Tables -> BOOLEAN]
      /\ start' \in [Tables -> Nat] /\ cycle' \in [Tables -> Nat]
  BY <1>1 DEF TypeOK, OnEach
<1> HIDE DEF used, taken
<1>6. /\ \A t \in Tables \ overrun' : ~pending'[t] /\ ~can_be_taken'[t]
      /\ overrun' \subseteq Tables
  BY <1>1 DEF TypeOK
<1>7. TypeOK'
  <2>1. requests' \in 0 .. MaxRequests
    BY <1>1, BoundsAssumption DEF TypeOK
  <2>2. target' \in Tables \cup {0}
    BY <1>2, <1>3 DEF TypeOK
  <2>3. /\ \A t \in Tables : pending'[t] => trigger'[t]
        /\ UNCHANGED <<has_reset, now, rows, time, trigger, pending, due, want, starttime, waiting, disabled>>
    BY <1>1 DEF TypeOK
  <2>4. QED
    BY <1>4, <1>5, <1>6, <2>1, <2>2, <2>3 DEF TypeOK
<1>8. CallTyped'
  <2>1. pc' = "idle" \/ (pc' = "stop" /\ target' \in Tables)
    BY <1>1, <1>2, <1>3
  <2>2. asked' = asked
    BY <1>1
  <2>3. QED
    BY <2>1, <2>2 DEF CallTyped, Stopping
<1>9. Prepared' /\ TargetIsFree'
  <2>1. pc' \in {"idle", "stop"}
    BY <1>1, <1>2
  <2>2. QED
    BY <2>1 DEF Prepared, TargetIsFree, Writing
<1>10. OnlyStopIsOutstanding' /\ StartIsAsked'
  BY <1>6 DEF OnlyStopIsOutstanding, StartIsAsked
<1>11. QED
  BY <1>7, <1>8, <1>9, <1>10

(* The rows and the cycle time of the stop schedule.                       *)
LEMMA WriteStopKeeps ==
  ASSUME IInv, WriteStopRows \/ WriteStopCycle
  PROVE  IInv'
<1> USE DEF IInv
<1>1. /\ pc \in {"stop", "stop_cycle"} /\ target \in Tables
      /\ UNCHANGED <<has_reset, now, in_use, can_be_taken, last_cyc_nr_en, last_cyc_reached, start,
                     time, trigger, pending, due, target, want, requests,
                     asked, waiting, overrun, disabled>>
  BY DEF WriteStopRows, WriteStopCycle, CallTyped, statusVars, workVars, historyVars
<1>2. /\ \A t \in Tables \ {target} : rows'[t] = rows[t] /\ cycle'[t] = cycle[t]
      /\ rows' \in [Tables -> SUBSET (0 .. MaxRequests + 1)] /\ cycle' \in [Tables -> Nat]
      /\ pc' \in {"stop_cycle", "stop_start"} /\ starttime' \in Nat
      /\ pc' = "stop_start" => cycle'[target] = STOP_CYCLE /\ starttime' <= now
  <2>1. /\ rows \in [Tables -> SUBSET (0 .. MaxRequests + 1)] /\ cycle \in [Tables -> Nat]
        /\ now \in Nat /\ starttime \in Nat
    BY DEF TypeOK
  <2>2. CASE WriteStopRows
    <3>1. /\ pc' = "stop_cycle" /\ rows' = [rows EXCEPT ![target] = {STOP_ROWS}]
          /\ cycle' = cycle /\ starttime' = starttime
      BY <2>2 DEF WriteStopRows, Set
    <3>2. {STOP_ROWS} \in SUBSET (0 .. MaxRequests + 1)
      BY BoundsAssumption DEF STOP_ROWS
    <3>3. rows' \in [Tables -> SUBSET (0 .. MaxRequests + 1)]
      BY <1>1, <2>1, <3>1, <3>2
    <3>4. QED
      BY <2>1, <3>1, <3>3
  <2>3. CASE WriteStopCycle
    <3>1. /\ pc' = "stop_start" /\ cycle' = [cycle EXCEPT ![target] = STOP_CYCLE]
          /\ rows' = rows /\ starttime' = now
      BY <2>3 DEF WriteStopCycle, Set
    <3>2. STOP_CYCLE \in Nat
      BY DEF STOP_CYCLE
    <3>3. QED
      BY <1>1, <2>1, <3>1, <3>2
  <2>4. QED
    BY <2>2, <2>3
<1>3. TypeOK'
  BY <1>1, <1>2 DEF TypeOK
<1>4. CallTyped' /\ Prepared' /\ TargetIsFree' /\ OnlyStopIsOutstanding'
  BY <1>1, <1>2 DEF CallTyped, Prepared, TargetIsFree, OnlyStopIsOutstanding, Writing, Stopping
<1>5. StartIsAsked'
  <2>1. SUFFICES ASSUME NEW t \in Tables \ overrun', pending'[t] \/ (trigger'[t] /\ can_be_taken'[t])
                 PROVE  rows'[t] = rows[t] /\ cycle'[t] = cycle[t]
    BY <1>1 DEF StartIsAsked
  <2>2. FALSE
    BY <1>1, <2>1 DEF OnlyStopIsOutstanding, Stopping
  <2>3. QED
    BY <2>2
<1>6. QED
  BY <1>3, <1>4, <1>5

(* The start of the stop schedule is due at once: it is never left to a    *)
(* work.                                                                   *)
LEMMA WriteStopStartKeeps ==
  ASSUME IInv, WriteStopStart
  PROVE  IInv'
<1> USE DEF IInv
<1>1. /\ pc = "stop_start" /\ pc' = "stop_trigger"
      /\ trigger' = [trigger EXCEPT ![target] = FALSE]
      /\ Execute(target, starttime, FALSE, 0)
      /\ starttime' = 0 /\ overrun' = OverrunEnds
      /\ UNCHANGED <<has_reset, now, in_use, last_cyc_reached, cycle, rows, target, want, requests,
                     asked, disabled>>
  BY DEF WriteStopStart, Set
<1>2. /\ target \in Tables /\ cycle[target] = STOP_CYCLE /\ starttime <= now
      /\ starttime \in Nat /\ 0 \in 0 .. MaxRequests /\ now \in Nat /\ FALSE \in BOOLEAN
  BY <1>1, BoundsAssumption DEF CallTyped, Prepared, TypeOK
<1>3. /\ start' \in [Tables -> Nat] /\ can_be_taken' \in [Tables -> BOOLEAN]
      /\ last_cyc_nr_en' \in [Tables -> BOOLEAN] /\ time' \in [Tables -> Nat]
      /\ pending' \in [Tables -> BOOLEAN] /\ due' \in [Tables -> Nat]
      /\ waiting' \in [Tables -> 0 .. MaxRequests]
      /\ \A u \in Tables \ {target} : /\ start'[u] = start[u] /\ can_be_taken'[u] = can_be_taken[u]
                                      /\ time'[u] = time[u] /\ pending'[u] = pending[u]
      /\ pending'[target] => TooFar(starttime, cycle[target])
      /\ can_be_taken'[target] = can_be_taken[target] \/ can_be_taken'[target] = (FALSE \/ can_be_taken[target])
  BY <1>1, <1>2, ExecuteEffect
<1>4. ~TooFar(starttime, cycle[target])
  <2>1. CASE starttime = now
    BY <1>2, <2>1, WindowAssumption DEF TooFar, AdjustedStart
  <2>2. CASE starttime # now
    <3>1. PICK d \in Nat : d = now - starttime
      BY <1>2
    <3>2. (d \div 1 + 1) * 1 = d + 1
      BY SMT
    <3>3. AdjustedStart(starttime, cycle[target]) = starttime + (d + 1)
      BY <1>2, <2>2, <3>1, <3>2 DEF AdjustedStart, STOP_CYCLE
    <3>4. (starttime + (d + 1)) - now = 1
      BY <1>2, <3>1
    <3>5. ~(1 > WINDOW)
      BY WindowAssumption
    <3>6. AdjustedStart(starttime, cycle[target]) - now = 1
      BY <3>3, <3>4
    <3>7. TooFar(starttime, cycle[target]) <=> AdjustedStart(starttime, cycle[target]) - now > WINDOW
      BY DEF TooFar
    <3>8. QED
      BY <3>5, <3>6, <3>7, Zenon
  <2>3. QED
    BY <2>1, <2>2
<1>5. ~pending'[target] /\ (can_be_taken'[target] <=> can_be_taken[target])
  BY <1>3, <1>4
<1>6. /\ ~trigger'[target] /\ trigger' \in [Tables -> BOOLEAN]
      /\ \A u \in Tables \ {target} : trigger'[u] = trigger[u]
  BY <1>1, <1>2 DEF TypeOK
<1>7. overrun' \subseteq Tables /\ overrun \subseteq overrun' \cup {target}
  BY <1>1 DEF OverrunEnds, TypeOK
<1>8. TypeOK'
  <2>1. \A u \in Tables : pending'[u] => trigger'[u]
    BY <1>3, <1>5, <1>6 DEF TypeOK
  <2>2. starttime' \in Nat
    BY <1>1
  <2>3. QED
    BY <1>1, <1>3, <1>6, <1>7, <2>1, <2>2 DEF TypeOK
<1>9. CallTyped' /\ Prepared' /\ TargetIsFree'
  BY <1>1, <1>2, <1>6 DEF CallTyped, Prepared, TargetIsFree, Writing, Stopping
<1>10. OnlyStopIsOutstanding'
  <2>1. SUFFICES ASSUME NEW t \in Tables \ overrun'
                 PROVE  ~pending'[t] /\ (can_be_taken'[t] => t = target /\ ~trigger'[t])
    BY <1>1 DEF OnlyStopIsOutstanding
  <2>2. CASE t = target
    BY <1>5, <1>6, <2>2
  <2>3. CASE t # target
    BY <1>1, <1>3, <1>6, <1>7, <2>1, <2>3 DEF OnlyStopIsOutstanding, Stopping
  <2>4. QED
    BY <2>2, <2>3
<1>11. StartIsAsked'
  BY <1>1, <1>10, <1>5, <1>6 DEF StartIsAsked, OnlyStopIsOutstanding, Stopping
<1>12. QED
  BY <1>8, <1>9, <1>10, <1>11

(* The stop schedule is released, taken and followed by nothing, or the    *)
(* wait for it is interrupted.                                             *)
LEMMA StopKeeps ==
  ASSUME IInv, TriggerStop \/ StopInterrupted \/ StopReached
  PROVE  IInv'
<1> USE DEF IInv
<1>1. /\ pc \in {"stop_trigger", "wait"} /\ target \in Tables /\ Stopping
      /\ pc' \in {"wait", "idle", "null"}
      /\ UNCHANGED <<has_reset, now, in_use, last_cyc_reached, start, cycle, rows,
                     time, trigger, pending, due, target, want, starttime, requests,
                     asked, waiting, overrun>>
      /\ disabled' \in BOOLEAN
  BY DEF TriggerStop, StopInterrupted, StopReached, CallTyped, Stopping, TypeOK,
         hwVars, statusVars, workVars, historyVars
<1>2. /\ can_be_taken' \in [Tables -> BOOLEAN] /\ last_cyc_nr_en' \in [Tables -> BOOLEAN]
      /\ \A t \in Tables : can_be_taken'[t] => can_be_taken[t] \/ (t = target /\ ~trigger[t])
  <2>1. CASE TriggerStop
    <3>1. /\ can_be_taken' = [can_be_taken EXCEPT ![target] = TRUE]
          /\ last_cyc_nr_en' = [last_cyc_nr_en EXCEPT ![target] = TRUE]
          /\ ~trigger[target]
      BY <2>1 DEF TriggerStop, Set, StopAfterLastCycle, Prepared
    <3>2. QED
      BY <1>1, <3>1 DEF TypeOK
  <2>2. CASE StopInterrupted \/ StopReached
    BY <2>2 DEF StopInterrupted, StopReached, hwVars, statusVars, TypeOK
  <2>3. QED
    BY <2>1, <2>2
<1>3. TypeOK'
  BY <1>1, <1>2 DEF TypeOK
<1>4. CallTyped' /\ Prepared' /\ TargetIsFree'
  BY <1>1 DEF CallTyped, Prepared, TargetIsFree, Writing, Stopping
<1>5. OnlyStopIsOutstanding'
  BY <1>1, <1>2 DEF OnlyStopIsOutstanding
<1>6. StartIsAsked'
  BY <1>1, <1>2 DEF StartIsAsked, OnlyStopIsOutstanding
<1>7. QED
  BY <1>3, <1>4, <1>5, <1>6

(* The rows of the tables that are not stopped are cleared.                *)
LEMMA WriteNullRowsKeeps ==
  ASSUME IInv, WriteNullRows
  PROVE  IInv'
<1> USE DEF IInv
<1>1. /\ Stopping /\ pc' = "idle"
      /\ rows' = [t \in Tables |-> IF t = target THEN rows[t] ELSE {NULL_ROWS}]
      /\ disabled' = TRUE
      /\ UNCHANGED <<has_reset, now, in_use, can_be_taken, last_cyc_nr_en, last_cyc_reached, start, cycle,
                     time, trigger, pending, due, target, want, starttime, requests,
                     asked, waiting, overrun>>
  BY DEF WriteNullRows, Stopping, statusVars, workVars
<1>2. rows' \in [Tables -> SUBSET (0 .. MaxRequests + 1)]
  <2>1. {NULL_ROWS} \in SUBSET (0 .. MaxRequests + 1)
    BY BoundsAssumption DEF NULL_ROWS
  <2>2. QED
    BY <1>1, <2>1 DEF TypeOK
<1>3. TypeOK'
  <2>1. disabled' \in BOOLEAN
    BY <1>1
  <2>2. /\ UNCHANGED <<has_reset, now, in_use, can_be_taken, last_cyc_nr_en, last_cyc_reached, start, cycle,
                       time, trigger, pending, due, target, want, starttime, requests, waiting, overrun>>
    BY <1>1
  <2>3. QED
    BY <1>2, <2>1, <2>2 DEF TypeOK
<1>4. CallTyped' /\ Prepared' /\ TargetIsFree' /\ OnlyStopIsOutstanding'
  BY <1>1 DEF CallTyped, Prepared, TargetIsFree, OnlyStopIsOutstanding, Writing, Stopping
<1>5. StartIsAsked'
  <2>1. \A t \in Tables \ overrun' : ~pending'[t] /\ ~(trigger'[t] /\ can_be_taken'[t])
    BY <1>1 DEF OnlyStopIsOutstanding
  <2>2. QED
    BY <2>1 DEF StartIsAsked
<1>6. QED
  BY <1>3, <1>4, <1>5

(* A delayed work writes the start of a table that nobody else writes to,  *)
(* or of one that is noted.                                                *)
LEMMA WorkKeeps ==
  ASSUME IInv, NEW t \in Tables, Work(t)
  PROVE  IInv'
<1> USE DEF IInv
<1>1. /\ pending[t] /\ trigger[t]
      /\ Execute(t, time[t], trigger[t], waiting[t])
      /\ UNCHANGED <<has_reset, now, in_use, last_cyc_reached, cycle, rows, trigger,
                     pc, target, want, starttime, requests, asked, overrun, disabled>>
  BY DEF Work, callVars, TypeOK
<1>2. PICK tm \in Nat, trg \in BOOLEAN, i \in 0 .. MaxRequests :
        tm = time[t] /\ trg = trigger[t] /\ i = waiting[t]
  <2>1. time[t] \in Nat /\ trigger[t] \in BOOLEAN /\ waiting[t] \in 0 .. MaxRequests
    BY DEF TypeOK
  <2>2. QED
    BY <2>1
<1>3. /\ start' \in [Tables -> Nat] /\ can_be_taken' \in [Tables -> BOOLEAN]
      /\ last_cyc_nr_en' \in [Tables -> BOOLEAN] /\ time' \in [Tables -> Nat]
      /\ pending' \in [Tables -> BOOLEAN] /\ due' \in [Tables -> Nat]
      /\ waiting' \in [Tables -> 0 .. MaxRequests]
      /\ \A u \in Tables \ {t} : /\ start'[u] = start[u] /\ can_be_taken'[u] = can_be_taken[u]
                                 /\ time'[u] = time[u] /\ pending'[u] = pending[u]
      /\ pending'[t] => time'[t] = time[t]
      /\ \/ start'[t] = start[t] /\ can_be_taken'[t] = can_be_taken[t]
         \/ /\ start'[t] >= time[t]
            /\ start'[t] # time[t] => (start'[t] - time[t]) % cycle[t] = 0
  <2>1. Execute(t, tm, trg, i)
    BY <1>1, <1>2
  <2>2. /\ start' \in [Tables -> Nat] /\ can_be_taken' \in [Tables -> BOOLEAN]
        /\ last_cyc_nr_en' \in [Tables -> BOOLEAN] /\ time' \in [Tables -> Nat]
        /\ pending' \in [Tables -> BOOLEAN] /\ due' \in [Tables -> Nat]
        /\ waiting' \in [Tables -> 0 .. MaxRequests]
        /\ \A u \in Tables \ {t} : /\ start'[u] = start[u] /\ can_be_taken'[u] = can_be_taken[u]
                                   /\ time'[u] = time[u] /\ pending'[u] = pending[u]
        /\ pending'[t] => time'[t] = tm
        /\ \/ start'[t] = start[t] /\ can_be_taken'[t] = can_be_taken[t]
           \/ start'[t] >= tm /\ (start'[t] # tm => (start'[t] - tm) % cycle[t] = 0)
    BY <2>1, ExecuteEffect
  <2>3. QED
    BY <1>2, <2>2
<1>4. TypeOK'
  <2>1. \A u \in Tables : pending'[u] => trigger'[u]
    BY <1>1, <1>3 DEF TypeOK
  <2>2. QED
    BY <1>1, <1>3, <2>1 DEF TypeOK
<1>5. CallTyped' /\ Prepared'
  BY <1>1 DEF CallTyped, Prepared, Writing, Stopping
<1>6. TargetIsFree'
  <2>1. Writing /\ t = target => target \in overrun
    BY <1>1 DEF TargetIsFree
  <2>2. Writing => target \in Tables
    BY DEF CallTyped, Writing
  <2>3. QED
    BY <1>1, <1>3, <2>1, <2>2 DEF TargetIsFree, Writing
<1>7. OnlyStopIsOutstanding'
  <2>1. Stopping => t \in overrun
    BY <1>1 DEF OnlyStopIsOutstanding
  <2>2. QED
    BY <1>1, <1>3, <2>1 DEF OnlyStopIsOutstanding, Stopping
<1>8. StartIsAsked'
  <2>1. SUFFICES ASSUME NEW u \in Tables \ overrun
                 PROVE  /\ trigger[u] /\ (pending'[u] \/ can_be_taken'[u]) =>
                             rows[u] = {asked[u].id} /\ cycle[u] = asked[u].cycle
                        /\ pending'[u] => time'[u] = asked[u].start
                        /\ trigger[u] /\ can_be_taken'[u] =>
                             /\ start'[u] >= asked[u].start
                             /\ start'[u] # asked[u].start => (start'[u] - asked[u].start) % cycle[u] = 0
    BY <1>1 DEF StartIsAsked
  <2>2. CASE u = t
    <3>1. rows[t] = {asked[t].id} /\ cycle[t] = asked[t].cycle /\ time[t] = asked[t].start
      BY <1>1, <2>1, <2>2 DEF StartIsAsked
    <3>2. can_be_taken[t] => /\ start[t] >= asked[t].start
                             /\ start[t] # asked[t].start => (start[t] - asked[t].start) % cycle[t] = 0
      BY <1>1, <2>1, <2>2 DEF StartIsAsked
    <3>3. QED
      BY <1>3, <2>2, <3>1, <3>2
  <2>3. CASE u # t
    BY <1>3, <2>1, <2>3 DEF StartIsAsked
  <2>4. QED
    BY <2>2, <2>3
<1>9. QED
  BY <1>4, <1>5, <1>6, <1>7, <1>8

(* The hardware only takes a table that can be taken, and time passes.     *)
LEMMA HardwareKeeps ==
  ASSUME IInv, NEW t \in Tables, Take(t) \/ ReachLastCycle(t) \/ Tick
  PROVE  IInv'
<1> USE DEF IInv
<1>1. UNCHANGED <<has_reset, last_cyc_nr_en, start, cycle, rows, time, trigger, pending, due,
                  pc, target, want, starttime, requests, asked, waiting, overrun, disabled>>
  BY DEF Take, ReachLastCycle, Tick, hwVars, statusVars, workVars, callVars, historyVars
<1>2. /\ now' \in Nat /\ now' >= now
      /\ can_be_taken' \in [Tables -> BOOLEAN] /\ last_cyc_reached' \in [Tables -> BOOLEAN]
      /\ \A u \in Tables : can_be_taken'[u] => can_be_taken[u]
      /\ \A u \in Tables : in_use'[u] => in_use[u] \/ can_be_taken[u]
      /\ \/ in_use' = in_use
         \/ \E u \in Tables : in_use' = [v \in Tables |-> v = u]
  <2>1. /\ can_be_taken \in [Tables -> BOOLEAN] /\ last_cyc_reached \in [Tables -> BOOLEAN]
        /\ now \in Nat
    BY DEF TypeOK
  <2>2. CASE Take(t)
    BY <2>1, <2>2 DEF Take, Set
  <2>3. CASE ReachLastCycle(t)
    BY <2>1, <2>3 DEF ReachLastCycle, Set
  <2>4. CASE Tick
    BY <2>1, <2>4 DEF Tick, hwVars, statusVars
  <2>5. QED
    BY <2>2, <2>3, <2>4
<1>3. in_use' \in [Tables -> BOOLEAN] /\ Cardinality({ u \in Tables : in_use'[u] }) <= 1
  BY <1>2, InUseOnce
<1>4. TypeOK'
  <2>1. /\ now' \in Nat /\ can_be_taken' \in [Tables -> BOOLEAN]
        /\ last_cyc_reached' \in [Tables -> BOOLEAN]
    BY <1>2
  <2>2. QED
    BY <1>1, <1>3, <2>1 DEF TypeOK
<1>5. CallTyped'
  BY <1>1 DEF CallTyped, Writing, Stopping
<1>6. Prepared'
  <2>1. now \in Nat /\ starttime \in Nat
    BY DEF TypeOK
  <2>2. starttime <= now => starttime <= now'
    BY <1>2, <2>1
  <2>3. QED
    BY <1>1, <2>2 DEF Prepared
<1>7. TargetIsFree'
  <2>1. Writing => target \in Tables
    BY DEF CallTyped, Writing
  <2>2. QED
    BY <1>1, <1>2, <2>1 DEF TargetIsFree, Writing
<1>8. OnlyStopIsOutstanding'
  BY <1>1, <1>2 DEF OnlyStopIsOutstanding, Stopping
<1>9. StartIsAsked'
  BY <1>1, <1>2 DEF StartIsAsked
<1>10. QED
  BY <1>4, <1>5, <1>6, <1>7, <1>8, <1>9

(* Every step keeps the invariant.                                         *)
LEMMA NextKeeps ==
  ASSUME IInv, [Next]_vars
  PROVE  IInv'
<1>1. CASE UNCHANGED vars
  BY <1>1 DEF vars, hwVars, statusVars, workVars, callVars, historyVars, IInv, TypeOK, CallTyped,
     Prepared, TargetIsFree, OnlyStopIsOutstanding, StartIsAsked, Writing, Stopping
<1>2. CASE Next
  <2>1. CASE \E st \in StartTimes, cyc \in Cycles : Apply(st, cyc)
    BY <2>1, ApplyKeeps
  <2>2. CASE WriteSomeRows \/ WriteOtherRows \/ WriteCycle
    BY <2>2, WriteTableKeeps
  <2>3. CASE WriteStart
    BY <2>3, WriteStartKeeps
  <2>4. CASE ApplyFails
    BY <2>4, ApplyFailsKeeps
  <2>5. CASE Remove
    BY <2>5, RemoveKeeps
  <2>6. CASE WriteStopRows \/ WriteStopCycle
    BY <2>6, WriteStopKeeps
  <2>7. CASE WriteStopStart
    BY <2>7, WriteStopStartKeeps
  <2>8. CASE TriggerStop \/ StopInterrupted \/ StopReached
    BY <2>8, StopKeeps
  <2>9. CASE WriteNullRows
    BY <2>9, WriteNullRowsKeeps
  <2>10. CASE \E t \in Tables : Work(t) \/ Take(t) \/ ReachLastCycle(t)
    BY <2>10, WorkKeeps, HardwareKeeps
  <2>11. CASE Tick
    BY <2>11, TablesAssumption, HardwareKeeps
  <2>12. QED
    BY <1>2, <2>1, <2>2, <2>3, <2>4, <2>5, <2>6, <2>7, <2>8, <2>9, <2>10, <2>11 DEF Next
<1>3. QED
  BY <1>1, <1>2

-----------------------------------------------------------------------------
(* The theorems.                                                           *)

(* The inductive invariant holds in every state.                           *)
THEOREM InvariantHolds == Spec => []IInv
<1>1. Init => IInv
  BY InitIInv
<1>2. IInv /\ [Next]_vars => IInv'
  BY NextKeeps
<1>3. QED
  BY <1>1, <1>2, PTL DEF Spec

(* The registers, the works and the calls have their types, at most one    *)
(* table is in use, and only starts with a trigger are left to a work.     *)
THEOREM TypeCorrect == Spec => []TypeOK
<1>1. IInv => TypeOK
  BY DEF IInv
<1>2. QED
  BY <1>1, InvariantHolds, PTL

(* A schedule is written to a table that the hardware neither uses nor can *)
(* take.                                                                   *)
THEOREM WrittenFree == Spec => []WrittenTableIsFree
<1>1. IInv => WrittenTableIsFree
  BY DEF IInv, TargetIsFree, Writing, WrittenTableIsFree
<1>2. QED
  BY <1>1, InvariantHolds, PTL

(* The schedule a table is started with is the one that was asked for last:*)
(* rows, cycle time and start time belong to one request.                  *)
THEOREM WholeSchedule == Spec => []ScheduleIsWhole
<1>1. IInv => ScheduleIsWhole
  BY DEF IInv, StartIsAsked, ScheduleIsWhole
<1>2. QED
  BY <1>1, InvariantHolds, PTL

(* The start times that are written are never in the past and never too far*)
(* away for the hardware.                                                  *)
THEOREM StartsInWindow == Spec => StartInWindow
<1> DEFINE InWindow == \A t \in Tables : start'[t] # start[t] /\ requests' = requests =>
                                           start'[t] \in now .. now + WINDOW
<1>1. ASSUME IInv, NEW t \in Tables, NEW tm \in Nat, NEW trg \in BOOLEAN, NEW i \in 0 .. MaxRequests,
             Execute(t, tm, trg, i)
      PROVE  InWindow
  <2>1. TypeOK
    BY <1>1 DEF IInv
  <2>2. /\ \A u \in Tables \ {t} : start'[u] = start[u]
        /\ start'[t] = start[t] \/ start'[t] \in now .. now + WINDOW
    BY <1>1, <2>1, ExecuteEffect
  <2>3. QED
    BY <2>2
<1>2. ASSUME IInv, [Next]_vars
      PROVE  InWindow
  <2>1. TypeOK /\ CallTyped
    BY <1>2 DEF IInv
  <2>2. CASE WriteStart
    <3>1. target \in Tables /\ requests \in 0 .. MaxRequests /\ want.start \in Nat
      BY <2>1, <2>2, WantTyped DEF WriteStart, CallTyped, TypeOK
    <3>2. Execute(target, want.start, TRUE, requests)
      BY <2>2 DEF WriteStart
    <3>3. QED
      BY <1>1, <1>2, <3>1, <3>2
  <2>3. CASE WriteStopStart
    <3>1. target \in Tables /\ starttime \in Nat /\ 0 \in 0 .. MaxRequests
      BY <2>1, <2>3, BoundsAssumption DEF WriteStopStart, CallTyped, TypeOK
    <3>2. Execute(target, starttime, FALSE, 0)
      BY <2>3 DEF WriteStopStart
    <3>3. QED
      BY <1>1, <1>2, <3>1, <3>2
  <2>4. CASE \E t \in Tables : Work(t)
    <3>1. PICK t \in Tables : Work(t)
      BY <2>4
    <3>2. time[t] \in Nat /\ trigger[t] \in BOOLEAN /\ waiting[t] \in 0 .. MaxRequests
      BY <2>1 DEF TypeOK
    <3>3. Execute(t, time[t], trigger[t], waiting[t])
      BY <3>1 DEF Work
    <3>4. QED
      BY <1>1, <1>2, <3>2, <3>3
  <2>5. CASE Remove \/ \E st \in StartTimes, cyc \in Cycles : Apply(st, cyc)
    <3>1. requests \in 0 .. MaxRequests /\ requests' = requests + 1
      BY <2>1, <2>5 DEF Remove, Apply, TypeOK
    <3>2. requests' # requests
      BY <3>1, BoundsAssumption
    <3>3. QED
      BY <3>2
  <2>6. ASSUME start' = start PROVE InWindow
    BY <2>6
  <2>7. CASE \/ WriteSomeRows \/ WriteOtherRows \/ WriteCycle \/ ApplyFails \/ WriteStopRows
             \/ WriteStopCycle \/ TriggerStop \/ StopInterrupted \/ StopReached \/ WriteNullRows
             \/ Tick \/ UNCHANGED vars
    BY <2>6, <2>7 DEF WriteSomeRows, WriteOtherRows, WriteCycle, ApplyFails, WriteStopRows,
       WriteStopCycle, TriggerStop, StopInterrupted, StopReached, WriteNullRows, Tick, vars, hwVars
  <2>8. CASE \E t \in Tables : Take(t) \/ ReachLastCycle(t)
    BY <2>6, <2>8 DEF Take, ReachLastCycle
  <2>9. QED
    BY <1>2, <2>2, <2>3, <2>4, <2>5, <2>7, <2>8 DEF Next
<1>3. IInv /\ [Next]_vars => [InWindow]_vars
  BY <1>2
<1>4. QED
  BY <1>3, InvariantHolds, PTL DEF Spec, StartInWindow
=============================================================================
