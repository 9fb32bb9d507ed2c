----------------------------- MODULE AcmFscProofs -----------------------------
(***************************************************************************)
(* Proofs about AcmFsc, for all times, delays, sizes of words and tables.  *)
(* What the loops of the code compute is a function of the number of steps *)
(* taken; that such a function exists, and what holds of all its values,   *)
(* is proved from the least number of steps for which it would not.  The   *)
(* insertions and the removals keep the number of commands of each entry   *)
(* what it was or make it zero; that every entry has its commands inside   *)
(* its cycle needs whole ticks and cycles that are no shorter than the     *)
(* delays.                                                                 *)
(***************************************************************************)
EXTENDS AcmFsc, SequenceTheorems, NaturalsInduction, WellFoundedInduction, FiniteSetTheorems, TLAPS

-----------------------------------------------------------------------------
(* Loops *)

\* A set of natural numbers has a least one.
LEMMA Least ==
  ASSUME NEW S \in SUBSET Nat, S # {}
  PROVE  \E x \in S : \A y \in S : x <= y
<1> DEFINE R == OpToRel(<, Nat)
           Q == {ss \in Nat \X Nat : ss[1] < ss[2]}
<1>1. IsWellFoundedOn(R, Nat)
  BY NatLessThanWellFounded, Zenon
<1>2. R = Q
  BY Zenon DEF OpToRel
<1> HIDE DEF R
<1>3. PICK x \in S : \A y \in S : ~(<<y, x>> \in Q)
  BY <1>1, <1>2, WFMin, Zenon
<1>4. ASSUME NEW y \in S PROVE x <= y
  <2>1. <<y, x>> \in Nat \X Nat
    OBVIOUS
  <2>2. ~(y < x)
    BY <1>3, <2>1
  <2> QED
    BY <2>2
<1> QED
  BY <1>4

\* Min is the least element.
LEMMA MinIsLeast ==
  ASSUME NEW S \in SUBSET Nat, S # {}
  PROVE  Min(S) \in S /\ \A y \in S : Min(S) <= y
<1>1. \E x \in S : \A y \in S : x <= y
  BY Least
<1> QED
  BY <1>1, Zenon DEF Min

\* What holds at the start and after every further step holds for all of them.
LEMMA StepsInduction ==
  ASSUME NEW n \in Nat, NEW P \in SUBSET Nat, 0 \in P, \A k \in 1 .. n : k - 1 \in P => k \in P
  PROVE  0 .. n \subseteq P
<1> SUFFICES ASSUME (0 .. n) \ P # {} PROVE FALSE
  OBVIOUS
<1> DEFINE S == (0 .. n) \ P
<1>0. S \in SUBSET Nat /\ S # {}
  OBVIOUS
<1> HIDE DEF S
<1>1. PICK k \in S : \A y \in S : k <= y
  BY <1>0, Least
<1> USE DEF S
<1>2. k # 0 /\ k - 1 \in 0 .. n /\ k \in 1 .. n
  BY <1>1
<1>3. k - 1 \in P
  BY <1>1, <1>2
<1> QED
  BY <1>1, <1>2, <1>3

\* The values of a loop of n steps: a is the first, and step k makes the next one
\* from the last.
Loops(n, S, a, step) ==
  { f \in [0 .. n -> S] : f[0] = a /\ \A k \in 1 .. n : f[k] = step[k][f[k - 1]] }

\* There are such values.
LEMMA StepsExist ==
  ASSUME NEW n \in Nat, NEW S, NEW a \in S, NEW step \in [1 .. n -> [S -> S]]
  PROVE  Loops(n, S, a, step) # {}
<1> DEFINE Is(f, m) == f = [k \in 0 .. m |-> IF k = 0 THEN a ELSE step[k][f[k - 1]]]
           P == { m \in 0 .. n : \E f \in [0 .. m -> S] : Is(f, m) }
<1>1. 0 \in P
  <2> DEFINE f == [k \in 0 .. 0 |-> a]
  <2>1. f \in [0 .. 0 -> S] /\ Is(f, 0)
    OBVIOUS
  <2> HIDE DEF Is, f
  <2> QED
    BY <2>1
<1>2. ASSUME NEW m \in 1 .. n, m - 1 \in P
      PROVE  m \in P
  <2>1. PICK f \in [0 .. m - 1 -> S] : Is(f, m - 1)
    BY <1>2
  <2> DEFINE g == [k \in 0 .. m |-> IF k = m THEN step[m][f[m - 1]] ELSE f[k]]
  <2>2. m - 1 \in 0 .. m - 1 /\ f[m - 1] \in S /\ step[m][f[m - 1]] \in S
    BY <2>1
  <2>3. g \in [0 .. m -> S]
    BY <2>1, <2>2
  <2>4. \A k \in 0 .. m : g[k] = IF k = 0 THEN a ELSE step[k][g[k - 1]]
    <3> TAKE k \in 0 .. m
    <3>1. CASE k = m
      BY <2>1, <2>2, <3>1
    <3>2. CASE k # m
      <4>1. k \in 0 .. m - 1 /\ g[k] = f[k]
        BY <3>2
      <4>2. k # 0 => k - 1 \in 0 .. m /\ k - 1 # m /\ g[k - 1] = f[k - 1]
        BY <4>1
      <4>3. f[k] = IF k = 0 THEN a ELSE step[k][f[k - 1]]
        BY <2>1, <4>1
      <4> QED
        BY <4>1, <4>2, <4>3
    <3> QED
      BY <3>1, <3>2
  <2> HIDE DEF g
  <2>5. Is(g, m)
    BY <2>3, <2>4
  <2> HIDE DEF Is
  <2> QED
    BY <2>3, <2>5
<1> HIDE DEF P
<1>3. P \subseteq Nat
  BY DEF P
<1>4. 0 .. n \subseteq P
  BY <1>1, <1>2, <1>3, StepsInduction
<1>5. n \in P
  BY <1>4
<1>6. PICK f \in [0 .. n -> S] : Is(f, n)
  BY <1>5 DEF P
<1>7. f[0] = a /\ \A k \in 1 .. n : f[k] = step[k][f[k - 1]]
  BY <1>6
<1> QED
  BY <1>7 DEF Loops

-----------------------------------------------------------------------------
(* Commands *)

Entries ==
  [stream : Events \cup Windows, period : Periods, start : Times, end : Times \cup {0},
   made_for : CycleTimes \cup {0}]

SysfsItems == [cmd : {SEND, OPEN, CLOSE}, abs_cycle : Nat, schedule_reference : Entries]

\* Division by a tick.
LEMMA DivNat ==
  ASSUME NEW x \in Nat
  PROVE  x \div TICK \in Nat
BY TickAssumption

\* From the number of frames that are skipped on, every frame leaves after the
\* start of the cycle.
LEMMA SkippedAreAll ==
  ASSUME NEW e \in Entries
  PROVE  /\ Skipped(e) \in Nat
         /\ \A j \in Nat : j >= Skipped(e) => e.start + j * e.period >= EgressDelay
<1> DEFINE D == EgressDelay
           p == e.period
           a == e.start
           S == { i \in 0 .. D : a + i * p < D }
<1>1. p \in Nat \ {0} /\ a \in Nat /\ D \in Nat
  BY TimesAssumption DEF Entries
<1>2. Skipped(e) = Cardinality(S)
  BY DEF Skipped
<1> HIDE DEF D, p, a
<1>3. IsFiniteSet(S)
  <2>1. IsFiniteSet(0 .. D)
    BY <1>1, FS_Interval
  <2>2. S \in SUBSET (0 .. D)
    OBVIOUS
  <2> QED
    BY <2>1, <2>2, FS_Subset
<1>4. Cardinality(S) \in Nat
  BY <1>3, FS_CardinalityType
<1>5. ASSUME NEW j \in Nat, a + j * p < D
      PROVE  j + 1 <= Cardinality(S)
  <2>1. ASSUME NEW i \in 0 .. j
        PROVE  i \in S
    <3>1. i \in Nat /\ i <= j /\ i * p \in Nat /\ j * p \in Nat
      BY <1>1
    <3>2. i * p <= j * p
      BY <1>1, <3>1
    <3>3. i <= i * p
      BY <1>1, <3>1
    <3> QED
      BY <1>1, <1>5, <3>1, <3>2, <3>3
  <2>2. Cardinality(0 .. j) = j + 1
    BY FS_Interval
  <2>3. 0 .. j \in SUBSET S
    BY <2>1
  <2> HIDE DEF S
  <2>4. Cardinality(0 .. j) <= Cardinality(S)
    BY <1>3, <2>3, FS_Subset
  <2> QED
    BY <2>2, <2>4
<1> HIDE DEF S
<1>6. ASSUME NEW j \in Nat, j >= Cardinality(S)
      PROVE  a + j * p >= D
  <2>1. j * p \in Nat
    BY <1>1
  <2>2. ~(a + j * p < D)
    BY <1>4, <1>5, <1>6
  <2> QED
    BY <1>1, <2>1, <2>2
<1> QED
  BY <1>2, <1>4, <1>6 DEF D, p, a

\* Every command of an entry has a time in the cycle or after it, never before.
LEMMA CommandsTyped ==
  ASSUME cycle_ns \in CycleTimes \cup {0}, NEW e \in EventEntries \cup WindowEntries
  PROVE  Commands(e) \in Seq(SysfsItems)
<1> USE TimesAssumption, TickAssumption
<1>1. e \in Entries /\ e.period \in Nat \ {0} /\ e.start \in Nat /\ e.end \in Nat
  <2>1. ASSUME e \in EventEntries PROVE e \in Entries
    <3>1. e \in [stream : Events, period : Periods, start : Times, end : {0}, made_for : {cycle_ns}]
      BY <2>1 DEF EventEntries
    <3> QED
      BY <3>1 DEF Entries
  <2>2. ASSUME e \in WindowEntries PROVE e \in Entries
    BY <2>2 DEF WindowEntries, Entries
  <2>3. e \in Entries
    BY <2>1, <2>2
  <2>4. e.period \in Periods /\ e.start \in Times
    BY <2>3 DEF Entries
  <2>5. e.end \in Times \cup {0}
    BY <2>3 DEF Entries
  <2>6. Times \cup {0} \subseteq Nat
    OBVIOUS
  <2>7. e.end \in Nat
    BY <2>5, <2>6, Zenon
  <2> QED
    BY <2>3, <2>4, <2>7
<1>2. NumItems(e) \in Nat
  BY <1>1 DEF NumItems
<1>3. ASSUME NEW x \in Nat, NEW c \in {SEND, OPEN, CLOSE}
      PROVE  Command(c, x, e) \in SysfsItems
  BY <1>1 DEF Command, SysfsItems
<1>4. EventCommands(e) \in Seq(SysfsItems)
  <2> DEFINE sent(i) == e.start + i * e.period - EgressDelay
             item(i) == Command(SEND, DivRoundClosest(sent(Skipped(e) + i - 1)), e)
  <2>1. ASSUME NEW i \in 1 .. NumItems(e)
        PROVE  item(i) \in SysfsItems
    <3> DEFINE j == Skipped(e) + i - 1
    <3>1. j \in Nat /\ j >= Skipped(e)
      BY <1>1, <1>2, SkippedAreAll
    <3>2. sent(j) \in Nat
      <4>1. e.start + j * e.period >= EgressDelay /\ j * e.period \in Nat
        BY <1>1, <3>1, SkippedAreAll
      <4> QED
        BY <1>1, <4>1
    <3> HIDE DEF sent, j
    <3>3. DivRoundClosest(sent(j)) \in Nat
      <4>1. sent(j) + TICK \div 2 \in Nat
        BY <3>2
      <4> QED
        BY <4>1, DivNat DEF DivRoundClosest
    <3> QED
      BY <1>3, <3>3 DEF j
  <2>2. EventCommands(e) = [i \in 1 .. NumItems(e) |-> item(i)]
    BY DEF EventCommands
  <2> HIDE DEF item
  <2> QED
    BY <1>2, <2>1, <2>2, IsASeq
<1>5. ASSUME NEW x \in Nat
      PROVE  WrapCycle(x) \in Nat
  <2>1. cycle_ns \div TICK \in Nat
    OBVIOUS
  <2> QED
    BY <2>1 DEF WrapCycle
<1>6. WindowCommands(e) \in Seq(SysfsItems)
  <2> DEFINE open(i) == WrapCycle((e.start + i * e.period + OpenDelay) \div TICK)
             close(i) == WrapCycle(DivRoundUp(e.end + i * e.period + CloseDelay))
             item(k) == IF k % 2 = 1 THEN Command(OPEN, open(k \div 2), e)
                        ELSE Command(CLOSE, close(k \div 2 - 1), e)
  <2>1. ASSUME NEW i \in Nat
        PROVE  open(i) \in Nat /\ close(i) \in Nat
    <3>1. i * e.period \in Nat
      BY <1>1
    <3> DEFINE x == e.start + i * e.period + OpenDelay
               y == e.end + i * e.period + CloseDelay
    <3>2. x \in Nat /\ y + TICK - 1 \in Nat
      BY <1>1, <3>1
    <3> HIDE DEF x, y
    <3>3. x \div TICK \in Nat /\ DivRoundUp(y) \in Nat
      BY <3>2, DivNat DEF DivRoundUp
    <3> QED
      BY <1>5, <3>3 DEF x, y
  <2> HIDE DEF open, close
  <2>2. ASSUME NEW k \in 1 .. 2 * NumItems(e)
        PROVE  item(k) \in SysfsItems
    <3>1. k \div 2 \in Nat /\ (k % 2 # 1 => k \div 2 - 1 \in Nat)
      BY <1>2
    <3> QED
      BY <1>3, <2>1, <3>1
  <2>3. WindowCommands(e) = [k \in 1 .. 2 * NumItems(e) |-> item(k)]
    BY DEF WindowCommands, open, close
  <2>4. 2 * NumItems(e) \in Nat
    BY <1>2
  <2> HIDE DEF item
  <2> QED
    BY <2>2, <2>3, <2>4, IsASeq
<1> QED
  BY <1>4, <1>6 DEF Commands

-----------------------------------------------------------------------------
(* The list of commands *)

Sorted(list) ==
  \A i, j \in DOMAIN list : i <= j => list[i].abs_cycle <= list[j].abs_cycle

Apart(list) ==
  \A i \in DOMAIN list :
    (list[i].abs_cycle = 0 /\ i = 1) \/ Distance(list, i) >= ANZ_MIN_TICKS

SortedLists == { list \in Seq(SysfsItems) : Sorted(list) }

\* A sequence with an element more.
LEMMA InsertAtValues ==
  ASSUME NEW S, NEW s \in Seq(S), NEW e \in S, NEW p \in 1 .. Len(s)
  PROVE  /\ InsertAt(s, p, e) \in Seq(S)
         /\ Len(InsertAt(s, p, e)) = Len(s) + 1
         /\ \A i \in 1 .. Len(s) + 1 :
              InsertAt(s, p, e)[i] = IF i < p THEN s[i] ELSE IF i = p THEN e ELSE s[i - 1]
<1> DEFINE u == SubSeq(s, 1, p - 1)
           w == SubSeq(s, p, Len(s))
           v == <<e>>
<1>1. p \in Nat /\ Len(s) \in Nat /\ p <= Len(s) /\ p >= 1 /\ \A i \in 1 .. Len(s) : s[i] \in S
  OBVIOUS
<1>2. u \in Seq(S) /\ Len(u) = p - 1 /\ \A i \in 1 .. p - 1 : u[i] = s[i]
  <2>1. \A i \in 1 .. p - 1 : s[i] \in S
    BY <1>1
  <2>2. /\ u \in Seq(S) /\ Len(u) = IF 1 <= p - 1 THEN (p - 1) - 1 + 1 ELSE 0
        /\ \A i \in 1 .. (p - 1) - 1 + 1 : u[i] = s[1 + i - 1]
    BY <1>1, <2>1, SubSeqProperties
  <2> QED
    BY <1>1, <2>2
<1>3. w \in Seq(S) /\ Len(w) = Len(s) - p + 1 /\ \A i \in 1 .. Len(s) - p + 1 : w[i] = s[p + i - 1]
  <2>1. \A i \in p .. Len(s) : s[i] \in S
    BY <1>1
  <2> QED
    BY <1>1, <2>1, SubSeqProperties
<1>4. v \in Seq(S) /\ Len(v) = 1 /\ v[1] = e
  OBVIOUS
<1> HIDE DEF u, v, w
<1>5. InsertAt(s, p, e) = (u \o v) \o w
  BY DEF InsertAt, u, v, w
<1>6. /\ u \o v \in Seq(S) /\ Len(u \o v) = p
      /\ \A i \in 1 .. p : (u \o v)[i] = IF i < p THEN s[i] ELSE e
  <2>1. /\ u \o v \in Seq(S) /\ Len(u \o v) = Len(u) + Len(v)
        /\ \A i \in 1 .. Len(u) + Len(v) : (u \o v)[i] = IF i <= Len(u) THEN u[i] ELSE v[i - Len(u)]
    BY <1>2, <1>4, ConcatProperties
  <2>2. Len(u) + Len(v) = p
    BY <1>1, <1>2, <1>4
  <2>3. ASSUME NEW i \in 1 .. p
        PROVE  (u \o v)[i] = IF i < p THEN s[i] ELSE e
    <3>1. CASE i < p
      BY <1>1, <1>2, <2>1, <2>2, <3>1
    <3>2. CASE i = p
      <4>1. i - Len(u) = 1 /\ ~(i <= Len(u))
        BY <1>1, <1>2, <3>2
      <4> QED
        BY <1>4, <2>1, <2>2, <3>2, <4>1
    <3>3. i < p \/ i = p
      BY <1>1
    <3> QED
      BY <3>1, <3>2, <3>3, Zenon
  <2> QED
    BY <2>1, <2>2, <2>3
<1> DEFINE x == u \o v
<1>7. /\ x \o w \in Seq(S) /\ Len(x \o w) = Len(s) + 1
      /\ \A i \in 1 .. Len(s) + 1 : (x \o w)[i] = IF i <= p THEN x[i] ELSE w[i - p]
  <2>1. x \in Seq(S) /\ Len(x) = p
    BY <1>6
  <2> HIDE DEF x
  <2>2. /\ x \o w \in Seq(S) /\ Len(x \o w) = Len(x) + Len(w)
        /\ \A i \in 1 .. Len(x) + Len(w) : (x \o w)[i] = IF i <= Len(x) THEN x[i] ELSE w[i - Len(x)]
    BY <1>3, <2>1, ConcatProperties
  <2>3. Len(x) + Len(w) = Len(s) + 1
    BY <1>1, <1>3, <2>1
  <2> QED
    BY <2>1, <2>2, <2>3
<1> HIDE DEF x
<1>8. ASSUME NEW i \in 1 .. Len(s) + 1
      PROVE  (x \o w)[i] = IF i < p THEN s[i] ELSE IF i = p THEN e ELSE s[i - 1]
  <2>1. CASE i <= p
    <3>1. i \in 1 .. p /\ (x \o w)[i] = x[i]
      BY <1>1, <1>7, <2>1
    <3>2. x[i] = IF i < p THEN s[i] ELSE e
      BY <1>6, <3>1 DEF x
    <3>3. CASE i < p
      BY <3>1, <3>2, <3>3
    <3>4. CASE i = p
      BY <1>1, <3>1, <3>2, <3>4
    <3>5. i < p \/ i = p
      BY <1>1, <2>1
    <3> QED
      BY <3>3, <3>4, <3>5
  <2>2. CASE i > p
    <3>1. i - p \in 1 .. Len(s) - p + 1 /\ p + (i - p) - 1 = i - 1
      BY <1>1, <2>2
    <3>2. w[i - p] = s[i - 1]
      BY <1>3, <3>1
    <3> QED
      BY <1>1, <1>7, <2>2, <3>2
  <2>3. i <= p \/ i > p
    BY <1>1
  <2> QED
    BY <2>1, <2>2, <2>3, Zenon
<1> QED
  BY <1>5, <1>7, <1>8 DEF x

\* What a sorted list is.
LEMMA ListTyped ==
  ASSUME NEW list \in SortedLists
  PROVE  /\ list \in Seq(SysfsItems) /\ Len(list) \in Nat /\ DOMAIN list = 1 .. Len(list)
         /\ \A i \in 1 .. Len(list) : list[i] \in SysfsItems /\ list[i].abs_cycle \in Nat
         /\ \A i, j \in 1 .. Len(list) : i <= j => list[i].abs_cycle <= list[j].abs_cycle
<1>1. list \in Seq(SysfsItems) /\ Sorted(list)
  BY DEF SortedLists
<1>2. Len(list) \in Nat /\ DOMAIN list = 1 .. Len(list) /\ \A i \in 1 .. Len(list) : list[i] \in SysfsItems
  BY <1>1
<1>3. \A i \in 1 .. Len(list) : list[i].abs_cycle \in Nat
  BY <1>2 DEF SysfsItems
<1>4. \A i, j \in 1 .. Len(list) : i <= j => list[i].abs_cycle <= list[j].abs_cycle
  BY <1>1, <1>2 DEF Sorted
<1> QED
  BY <1>1, <1>2, <1>3, <1>4

\* A command is put in front of those that are later: the list stays sorted.
LEMMA InsertSortedSorted ==
  ASSUME NEW list \in SortedLists, NEW c \in SysfsItems
  PROVE  InsertSorted(list, c) \in SortedLists
<1> DEFINE later == { i \in DOMAIN list : list[i].abs_cycle > c.abs_cycle }
           n == Len(list)
<1>1. /\ list \in Seq(SysfsItems) /\ DOMAIN list = 1 .. n /\ n \in Nat
      /\ c.abs_cycle \in Nat /\ \A i \in 1 .. n : list[i].abs_cycle \in Nat
      /\ \A i, j \in 1 .. n : i <= j => list[i].abs_cycle <= list[j].abs_cycle
  BY ListTyped DEF SysfsItems
<1>2. CASE later = {}
  <2> DEFINE new == Append(list, c)
  <2>1. /\ new \in Seq(SysfsItems) /\ DOMAIN new = 1 .. n + 1
        /\ \A i \in 1 .. n : new[i] = list[i] /\ new[n + 1] = c
    BY <1>1
  <2>2. new[n + 1] = c
    BY <1>1
  <2>3. \A i \in 1 .. n : list[i].abs_cycle <= c.abs_cycle
    BY <1>1, <1>2
  <2>4. InsertSorted(list, c) = new
    BY <1>2 DEF InsertSorted
  <2> HIDE DEF new, later
  <2>5. \A i, j \in 1 .. n + 1 : i <= j => new[i].abs_cycle <= new[j].abs_cycle
    <3> TAKE i, j \in 1 .. n + 1
    <3> HAVE i <= j
    <3>1. CASE j = n + 1 /\ i = n + 1
      BY <1>1, <2>2, <3>1
    <3>2. CASE j = n + 1 /\ i # n + 1
      <4>1. i \in 1 .. n
        BY <1>1, <3>2
      <4> QED
        BY <2>1, <2>2, <2>3, <3>2, <4>1
    <3>3. CASE j # n + 1
      <4>1. i \in 1 .. n /\ j \in 1 .. n
        BY <1>1, <3>3
      <4> QED
        BY <1>1, <2>1, <4>1
    <3> QED
      BY <3>1, <3>2, <3>3
  <2> QED
    BY <2>1, <2>4, <2>5 DEF SortedLists, Sorted
<1>3. CASE later # {}
  <2> DEFINE p == Min(later)
             new == InsertAt(list, p, c)
  <2>1. p \in later /\ \A y \in later : p <= y
    <3>1. later \in SUBSET Nat /\ later # {}
      BY <1>1, <1>3
    <3> HIDE DEF later
    <3> QED
      BY <3>1, MinIsLeast
  <2>2. p \in 1 .. n /\ list[p].abs_cycle > c.abs_cycle
    BY <1>1, <2>1
  <2>3. \A i \in 1 .. n : i < p => list[i].abs_cycle <= c.abs_cycle
    <3> TAKE i \in 1 .. n
    <3> HAVE i < p
    <3>1. i \notin later
      <4> HIDE DEF later, p
      <4> QED
        BY <1>1, <2>1, <2>2
    <3> QED
      BY <1>1, <3>1
  <2>4. InsertSorted(list, c) = new
    BY <1>3 DEF InsertSorted
  <2> HIDE DEF p
  <2>5. /\ new \in Seq(SysfsItems) /\ Len(new) = n + 1
        /\ \A i \in 1 .. n + 1 : new[i] = IF i < p THEN list[i] ELSE IF i = p THEN c ELSE list[i - 1]
    <3>1. list \in Seq(SysfsItems) /\ p \in 1 .. Len(list)
      BY <1>1, <2>2
    <3> HIDE DEF later
    <3> QED
      BY <3>1, InsertAtValues
  <2> HIDE DEF new, later
  <2>6. \A i, j \in 1 .. n + 1 : i <= j => new[i].abs_cycle <= new[j].abs_cycle
    <3> TAKE i, j \in 1 .. n + 1
    <3> HAVE i <= j
    <3> DEFINE from(k) == IF k < p THEN k ELSE k - 1
    <3>1. \A k \in 1 .. n + 1 : k # p => from(k) \in 1 .. n /\ new[k] = list[from(k)]
      BY <1>1, <2>2, <2>5
    <3>2. CASE i # p /\ j # p
      <4>1. from(i) <= from(j)
        BY <1>1, <2>2, <3>2
      <4> QED
        BY <1>1, <3>1, <3>2, <4>1
    <3>3. CASE i = p /\ j = p
      BY <1>1, <2>2, <2>5, <3>3
    <3>4. CASE i = p /\ j # p
      <4>1. new[j] = list[j - 1] /\ j - 1 \in 1 .. n /\ p <= j - 1 /\ new[i] = c
        BY <1>1, <2>2, <2>5, <3>4
      <4>2. list[p].abs_cycle <= list[j - 1].abs_cycle
        BY <1>1, <2>2, <4>1
      <4>3. list[p].abs_cycle \in Nat /\ list[j - 1].abs_cycle \in Nat
        BY <1>1, <2>2, <4>1
      <4> QED
        BY <1>1, <2>2, <4>1, <4>2, <4>3
    <3>5. CASE i # p /\ j = p
      <4>1. i < p /\ new[i] = list[i] /\ i \in 1 .. n /\ new[j] = c
        BY <1>1, <2>2, <2>5, <3>5
      <4> QED
        BY <2>3, <4>1
    <3> QED
      BY <3>2, <3>3, <3>4, <3>5
  <2>7. DOMAIN new = 1 .. n + 1
    BY <2>5
  <2> QED
    BY <2>4, <2>5, <2>6, <2>7 DEF SortedLists, Sorted
<1> QED
  BY <1>2, <1>3

\* What the list is after each of the commands of an entry.
LEMMA InsertedUpToValues ==
  ASSUME NEW list \in SortedLists, NEW cs \in Seq(SysfsItems)
  PROVE  InsertedUpTo(list, cs) =
           [k \in 0 .. Len(cs) |->
              IF k = 0 THEN list ELSE InsertSorted(InsertedUpTo(list, cs)[k - 1], cs[k])]
<1> DEFINE n == Len(cs)
           F == InsertedUpTo(list, cs)
           step == [k \in 1 .. n |-> [x \in SortedLists |-> InsertSorted(x, cs[k])]]
<1>1. n \in Nat /\ \A k \in 1 .. n : cs[k] \in SysfsItems
  OBVIOUS
<1>2. step \in [1 .. n -> [SortedLists -> SortedLists]]
  BY <1>1, InsertSortedSorted
<1>3. \E f : f = [k \in 0 .. n |-> IF k = 0 THEN list ELSE InsertSorted(f[k - 1], cs[k])]
  <2> HIDE DEF n
  <2>1. PICK f \in [0 .. n -> SortedLists] :
          f[0] = list /\ \A k \in 1 .. n : f[k] = step[k][f[k - 1]]
    <3> HIDE DEF step
    <3>1. Loops(n, SortedLists, list, step) # {}
      BY <1>1, <1>2, StepsExist
    <3> QED
      BY <3>1 DEF Loops
  <2>2. \A k \in 1 .. n : step[k][f[k - 1]] = InsertSorted(f[k - 1], cs[k])
    <3> TAKE k \in 1 .. n
    <3>1. k - 1 \in 0 .. n /\ f[k - 1] \in SortedLists
      BY <1>1, <2>1
    <3> QED
      BY <3>1
  <2> HIDE DEF step
  <2>3. f = [k \in 0 .. n |-> IF k = 0 THEN list ELSE InsertSorted(f[k - 1], cs[k])]
    BY <1>1, <2>1, <2>2
  <2> QED
    BY <2>3
<1>4. F = [k \in 0 .. n |-> IF k = 0 THEN list ELSE InsertSorted(F[k - 1], cs[k])]
  <2>1. F = CHOOSE f : f = [k \in 0 .. n |-> IF k = 0 THEN list ELSE InsertSorted(f[k - 1], cs[k])]
    BY DEF InsertedUpTo
  <2> HIDE DEF F, n
  <2> QED
    BY <1>3, <2>1, Zenon
<1> QED
  BY <1>4

\* So does the list when all commands of an entry are inserted, one by one.
LEMMA InsertAllSorted ==
  ASSUME NEW list \in SortedLists, NEW cs \in Seq(SysfsItems)
  PROVE  InsertAll(list, cs) \in SortedLists
<1> DEFINE n == Len(cs)
           F == InsertedUpTo(list, cs)
<1>1. n \in Nat /\ \A k \in 1 .. n : cs[k] \in SysfsItems
  OBVIOUS
<1>4. F = [k \in 0 .. n |-> IF k = 0 THEN list ELSE InsertSorted(F[k - 1], cs[k])]
  BY InsertedUpToValues
<1> DEFINE P == { k \in 0 .. n : F[k] \in SortedLists }
<1> HIDE DEF F, n
<1>5. 0 \in P
  BY <1>1, <1>4
<1>6. \A k \in 1 .. n : k - 1 \in P => k \in P
  <2> TAKE k \in 1 .. n
  <2> HAVE k - 1 \in P
  <2>1. k \in 0 .. n /\ k # 0 /\ F[k - 1] \in SortedLists
    BY <1>1
  <2>2. F[k] = InsertSorted(F[k - 1], cs[k])
    BY <1>4, <2>1
  <2> QED
    BY <1>1, <2>1, <2>2, InsertSortedSorted
<1>7. n \in P
  <2>1. P \in SUBSET Nat
    BY <1>1
  <2> HIDE DEF P
  <2>2. 0 .. n \subseteq P
    BY <1>1, <1>5, <1>6, <2>1, StepsInduction
  <2> QED
    BY <1>1, <2>2
<1> QED
  BY <1>7 DEF InsertAll, F, n

\* A command that is far enough from the last one keeps the commands apart.
LEMMA AppendApart ==
  ASSUME NEW list \in SortedLists, Apart(list), NEW c \in SysfsItems,
         \A i \in 1 .. Len(list) : list[i].abs_cycle + ANZ_MIN_TICKS <= c.abs_cycle,
         Len(list) = 0 => c.abs_cycle = 0 \/ c.abs_cycle >= ANZ_MIN_TICKS
  PROVE  Append(list, c) \in SortedLists /\ Apart(Append(list, c))
<1> DEFINE n == Len(list)
           new == Append(list, c)
<1>1. /\ list \in Seq(SysfsItems) /\ DOMAIN list = 1 .. n /\ n \in Nat
      /\ \A i \in 1 .. n : list[i].abs_cycle \in Nat
      /\ \A i, j \in 1 .. n : i <= j => list[i].abs_cycle <= list[j].abs_cycle
  BY ListTyped
<1>2. c.abs_cycle \in Nat /\ ANZ_MIN_TICKS \in Nat
  BY TickAssumption DEF SysfsItems
<1>3. /\ new \in Seq(SysfsItems) /\ DOMAIN new = 1 .. n + 1
      /\ \A i \in 1 .. n : new[i] = list[i]
  BY <1>1
<1>4. new[n + 1] = c
  BY <1>1
<1> HIDE DEF new
<1>5. Sorted(new)
  <2> SUFFICES ASSUME NEW i \in 1 .. n + 1, NEW j \in 1 .. n + 1, i <= j
               PROVE  new[i].abs_cycle <= new[j].abs_cycle
    BY <1>3 DEF Sorted
  <2>1. CASE j = n + 1 /\ i = n + 1
    BY <1>2, <1>4, <2>1
  <2>2. CASE j = n + 1 /\ i # n + 1
    <3>1. i \in 1 .. n
      BY <1>1, <2>2
    <3> QED
      BY <1>1, <1>2, <1>3, <1>4, <2>2, <3>1
  <2>3. CASE j # n + 1
    <3>1. i \in 1 .. n /\ j \in 1 .. n
      BY <1>1, <2>3
    <3> QED
      BY <1>1, <1>3, <3>1
  <2> QED
    BY <2>1, <2>2, <2>3
<1>6. Apart(new)
  <2> SUFFICES ASSUME NEW i \in 1 .. n + 1
               PROVE  (new[i].abs_cycle = 0 /\ i = 1) \/ Distance(new, i) >= ANZ_MIN_TICKS
    BY <1>3 DEF Apart
  <2>1. CASE i \in 1 .. n
    <3>1. new[i] = list[i] /\ Distance(new, i) = Distance(list, i)
      <4>1. i # 1 => i - 1 \in 1 .. n
        BY <1>1, <2>1
      <4> QED
        BY <1>3, <2>1, <4>1 DEF Distance
    <3> QED
      BY <1>1, <2>1, <3>1 DEF Apart
  <2>2. CASE i = n + 1 /\ n = 0
    <3>1. Distance(new, i) = c.abs_cycle
      BY <1>2, <1>4, <2>2 DEF Distance
    <3> QED
      BY <1>2, <1>4, <2>2, <3>1
  <2>3. CASE i = n + 1 /\ n # 0
    <3>1. n \in 1 .. n /\ i # 1 /\ i - 1 = n
      BY <1>1, <2>3
    <3>2. Distance(new, i) = c.abs_cycle - list[n].abs_cycle
      BY <1>3, <1>4, <2>3, <3>1 DEF Distance
    <3>3. list[n].abs_cycle + ANZ_MIN_TICKS <= c.abs_cycle /\ list[n].abs_cycle \in Nat
      BY <1>1, <3>1
    <3> QED
      BY <1>2, <3>2, <3>3
  <2> QED
    BY <1>1, <2>1, <2>2, <2>3
<1> QED
  BY <1>3, <1>5, <1>6 DEF SortedLists, new

\* What remains of each number of commands when those of a stream are taken out.
LEMMA KeptUpToValues ==
  ASSUME NEW list \in SortedLists, NEW s
  PROVE  KeptUpTo(list, s) =
           [k \in 0 .. Len(list) |->
              IF k = 0 THEN << >>
              ELSE IF list[k].schedule_reference.stream = s THEN KeptUpTo(list, s)[k - 1]
              ELSE Append(KeptUpTo(list, s)[k - 1], list[k])]
<1> DEFINE n == Len(list)
           F == KeptUpTo(list, s)
           out(k) == list[k].schedule_reference.stream = s
           S == Seq(SysfsItems)
           step == [k \in 1 .. n |-> [x \in S |-> IF out(k) THEN x ELSE Append(x, list[k])]]
<1>1. /\ n \in Nat /\ DOMAIN list = 1 .. n
      /\ \A k \in 1 .. n : list[k] \in SysfsItems /\ list[k].abs_cycle \in Nat
      /\ \A i, j \in 1 .. n : i <= j => list[i].abs_cycle <= list[j].abs_cycle
  BY ListTyped
<1> HIDE DEF out
<1>2. step \in [1 .. n -> [S -> S]]
  <2>1. ASSUME NEW k \in 1 .. n, NEW x \in S
        PROVE  (IF out(k) THEN x ELSE Append(x, list[k])) \in S
    BY <1>1
  <2> QED
    BY <2>1
<1>3. \E f : f = [k \in 0 .. n |-> IF k = 0 THEN << >> ELSE IF out(k) THEN f[k - 1]
                                   ELSE Append(f[k - 1], list[k])]
  <2> HIDE DEF n
  <2>1. PICK f \in [0 .. n -> S] : f[0] = << >> /\ \A k \in 1 .. n : f[k] = step[k][f[k - 1]]
    <3>1. << >> \in S
      OBVIOUS
    <3> HIDE DEF step, S
    <3>2. Loops(n, S, << >>, step) # {}
      BY <1>1, <1>2, <3>1, StepsExist
    <3> QED
      BY <3>2 DEF Loops
  <2>2. \A k \in 1 .. n : step[k][f[k - 1]] = IF out(k) THEN f[k - 1] ELSE Append(f[k - 1], list[k])
    <3> TAKE k \in 1 .. n
    <3>1. k - 1 \in 0 .. n /\ f[k - 1] \in S
      BY <1>1, <2>1
    <3> HIDE DEF S
    <3> QED
      BY <3>1
  <2> HIDE DEF step
  <2>3. \A k \in 0 .. n : f[k] = IF k = 0 THEN << >> ELSE IF out(k) THEN f[k - 1]
                                  ELSE Append(f[k - 1], list[k])
    <3> TAKE k \in 0 .. n
    <3>1. CASE k = 0
      BY <2>1, <3>1
    <3>2. CASE k # 0
      <4>1. k \in 1 .. n
        BY <1>1, <3>2
      <4> QED
        BY <2>1, <2>2, <3>2, <4>1
    <3> QED
      BY <3>1, <3>2
  <2>4. f = [k \in 0 .. n |-> IF k = 0 THEN << >> ELSE IF out(k) THEN f[k - 1]
                              ELSE Append(f[k - 1], list[k])]
    BY <2>1, <2>3
  <2> QED
    BY <2>4
<1>4. F = [k \in 0 .. n |-> IF k = 0 THEN << >> ELSE IF out(k) THEN F[k - 1]
                            ELSE Append(F[k - 1], list[k])]
  <2>1. F = CHOOSE f : f = [k \in 0 .. n |-> IF k = 0 THEN << >> ELSE IF out(k) THEN f[k - 1]
                                             ELSE Append(f[k - 1], list[k])]
    BY DEF KeptUpTo, out
  <2> HIDE DEF F, n
  <2> QED
    BY <1>3, <2>1, Zenon
<1> QED
  BY <1>4 DEF out

\* The commands that remain when those of a stream are taken out are as far from
\* each other as before, or further.
LEMMA RemoveAllApart ==
  ASSUME NEW list \in SortedLists, Apart(list), NEW s
  PROVE  RemoveAll(list, s) \in SortedLists /\ Apart(RemoveAll(list, s))
<1> DEFINE n == Len(list)
           F == KeptUpTo(list, s)
           out(k) == list[k].schedule_reference.stream = s
<1>1. /\ n \in Nat /\ DOMAIN list = 1 .. n
      /\ \A k \in 1 .. n : list[k] \in SysfsItems /\ list[k].abs_cycle \in Nat
      /\ \A i, j \in 1 .. n : i <= j => list[i].abs_cycle <= list[j].abs_cycle
  BY ListTyped
<1>4. F = [k \in 0 .. n |-> IF k = 0 THEN << >> ELSE IF out(k) THEN F[k - 1]
                            ELSE Append(F[k - 1], list[k])]
  BY KeptUpToValues
<1> HIDE DEF out
<1> DEFINE Fits(k) == /\ F[k] \in SortedLists /\ Apart(F[k]) /\ Len(F[k]) <= k
                      /\ \A i \in 1 .. Len(F[k]) : F[k][i].abs_cycle <= list[k].abs_cycle
           P == { k \in 0 .. n : Fits(k) }
<1> HIDE DEF F, n
<1>5. 0 \in P
  <2>1. F[0] = << >>
    BY <1>1, <1>4
  <2>2. << >> \in SortedLists /\ Apart(<< >>) /\ Len(<< >>) = 0
    BY DEF SortedLists, Sorted, Apart
  <2>3. Fits(0)
    BY <2>1, <2>2
  <2> QED
    BY <1>1, <2>3
<1>6. ASSUME NEW k \in 1 .. n, k - 1 \in P
      PROVE  k \in P
  <2> DEFINE kept == F[k - 1]
             c == list[k]
  <2>1. k \in 0 .. n /\ k # 0 /\ Fits(k - 1)
    BY <1>1, <1>6
  <2>2. F[k] = IF out(k) THEN kept ELSE Append(kept, c)
    BY <1>4, <2>1
  <2>3. /\ kept \in SortedLists /\ Apart(kept) /\ Len(kept) <= k - 1
        /\ Len(kept) \in Nat /\ \A i \in 1 .. Len(kept) : kept[i].abs_cycle \in Nat
    BY <2>1, ListTyped
  <2>4. c \in SysfsItems /\ c.abs_cycle \in Nat /\ ANZ_MIN_TICKS \in Nat
    BY <1>1, TickAssumption
  <2>5. k # 1 => list[k - 1].abs_cycle + ANZ_MIN_TICKS <= c.abs_cycle /\ list[k - 1].abs_cycle \in Nat
    <3> HAVE k # 1
    <3>1. k - 1 \in 1 .. n /\ Distance(list, k) >= ANZ_MIN_TICKS
      BY <1>1 DEF Apart, n
    <3>2. Distance(list, k) = c.abs_cycle - list[k - 1].abs_cycle
      BY DEF Distance
    <3> QED
      BY <1>1, <2>4, <3>1, <3>2
  <2>6. \A i \in 1 .. Len(kept) : kept[i].abs_cycle + ANZ_MIN_TICKS <= c.abs_cycle
    <3> TAKE i \in 1 .. Len(kept)
    <3>1. k # 1
      BY <2>3
    <3>2. kept[i].abs_cycle <= list[k - 1].abs_cycle
      BY <2>1
    <3>3. PICK a \in Nat : a = kept[i].abs_cycle
      BY <2>3
    <3>4. PICK b \in Nat : b = list[k - 1].abs_cycle
      BY <2>5, <3>1
    <3>5. a <= b /\ b + ANZ_MIN_TICKS <= c.abs_cycle
      BY <2>5, <3>1, <3>2, <3>3, <3>4
    <3> HIDE DEF kept, c
    <3>6. a + ANZ_MIN_TICKS <= c.abs_cycle
      BY <2>4, <3>5
    <3> QED
      BY <3>3, <3>6
  <2>7. c.abs_cycle = 0 \/ c.abs_cycle >= ANZ_MIN_TICKS
    <3>1. CASE k = 1
      <4>1. c.abs_cycle = 0 \/ Distance(list, 1) >= ANZ_MIN_TICKS
        BY <1>1, <3>1 DEF Apart, n
      <4>2. Distance(list, 1) = c.abs_cycle
        BY <2>4, <3>1 DEF Distance
      <4> QED
        BY <4>1, <4>2
    <3>2. CASE k # 1
      BY <2>4, <2>5, <3>2
    <3> QED
      BY <3>1, <3>2
  <2>8. CASE out(k)
    <3>1. F[k] = kept
      BY <2>2, <2>8
    <3>2. \A i \in 1 .. Len(kept) : kept[i].abs_cycle <= c.abs_cycle
      <4> TAKE i \in 1 .. Len(kept)
      <4>1. PICK a \in Nat : a = kept[i].abs_cycle
        BY <2>3
      <4>2. a + ANZ_MIN_TICKS <= c.abs_cycle
        BY <2>6, <4>1
      <4> HIDE DEF kept, c
      <4>3. a <= c.abs_cycle
        BY <2>4, <4>2
      <4> QED
        BY <4>1, <4>3
    <3>3. Len(kept) <= k
      BY <2>3
    <3>4. Fits(k)
      BY <2>3, <3>1, <3>2, <3>3
    <3> QED
      BY <2>1, <3>4
  <2>9. CASE ~out(k)
    <3> DEFINE new == Append(kept, c)
    <3>1. F[k] = new
      BY <2>2, <2>9
    <3>2. new \in SortedLists /\ Apart(new)
      <4> HIDE DEF kept, c
      <4> QED
        BY <2>3, <2>4, <2>6, <2>7, AppendApart
    <3>3. Len(new) = Len(kept) + 1 /\ new[Len(kept) + 1] = c /\ \A i \in 1 .. Len(kept) : new[i] = kept[i]
      <4>1. kept \in Seq(SysfsItems)
        BY <2>3 DEF SortedLists
      <4> HIDE DEF kept, c
      <4> QED
        BY <2>3, <2>4, <4>1
    <3>4. Len(new) <= k
      BY <2>3, <3>3
    <3>5. ASSUME NEW i \in 1 .. Len(new)
          PROVE  new[i].abs_cycle <= c.abs_cycle
      <4>1. i \in 1 .. Len(kept) \/ i = Len(kept) + 1
        BY <2>3, <3>3
      <4>2. CASE i \in 1 .. Len(kept)
        BY <2>3, <2>4, <2>6, <3>3, <4>2
      <4>3. CASE i = Len(kept) + 1
        BY <2>4, <3>3, <4>3
      <4> QED
        BY <4>1, <4>2, <4>3
    <3> HIDE DEF new
    <3>6. Fits(k)
      BY <3>1, <3>2, <3>4, <3>5
    <3> QED
      BY <2>1, <3>6
  <2> QED
    BY <2>8, <2>9
<1>7. n \in P
  <2>1. P \in SUBSET Nat
    BY <1>1
  <2> HIDE DEF P
  <2>2. 0 .. n \subseteq P
    BY <1>1, <1>5, <1>6, <2>1, StepsInduction
  <2> QED
    BY <1>1, <2>2
<1> QED
  BY <1>7 DEF RemoveAll, F, n

\* What validation lets pass is far enough apart, though it looks at the distances
\* in a word of limited width: a sorted list has no negative ones.
LEMMA GapsApart ==
  ASSUME NEW list \in SortedLists, GapsValid(list)
  PROVE  Apart(list)
<1>1. /\ DOMAIN list = 1 .. Len(list) /\ Len(list) \in Nat
      /\ \A k \in 1 .. Len(list) : list[k].abs_cycle \in Nat
      /\ \A i, j \in 1 .. Len(list) : i <= j => list[i].abs_cycle <= list[j].abs_cycle
  BY ListTyped
<1>2. ASSUME NEW i \in DOMAIN list
      PROVE  (list[i].abs_cycle = 0 /\ i = 1) \/ Distance(list, i) >= ANZ_MIN_TICKS
  <2>1. Distance(list, i) \in Nat
    <3>1. CASE i = 1
      BY <1>1, <3>1 DEF Distance
    <3>2. CASE i # 1
      <4>1. i \in 1 .. Len(list) /\ i - 1 \in 1 .. Len(list) /\ i - 1 <= i
        BY <1>1, <3>2
      <4>2. /\ list[i].abs_cycle \in Nat /\ list[i - 1].abs_cycle \in Nat
            /\ list[i - 1].abs_cycle <= list[i].abs_cycle
        BY <1>1, <4>1
      <4>3. Distance(list, i) = list[i].abs_cycle - list[i - 1].abs_cycle
        BY <3>2 DEF Distance
      <4> QED
        BY <4>2, <4>3
    <3> QED
      BY <3>1, <3>2
  <2>2. PICK d \in Nat : d = Distance(list, i)
    BY <2>1
  <2>3. d % UINT32 <= d /\ d % UINT32 \in Nat
    BY RowAssumption
  <2>4. d % UINT32 < ANZ_MIN_TICKS => i = 1 /\ d = 0
    BY <2>2 DEF GapsValid
  <2>5. i = 1 => d = list[i].abs_cycle
    BY <1>1, <2>2 DEF Distance
  <2>6. ANZ_MIN_TICKS \in Nat
    BY TickAssumption
  <2> QED
    BY <2>2, <2>3, <2>4, <2>5, <2>6
<1> QED
  BY <1>2 DEF Apart

-----------------------------------------------------------------------------
(* The inductive invariant *)

\* The commands of the module and those that were written last are sorted and apart,
\* and the latter passed validation; the rows are made from them.
FscInv ==
  /\ cycle_ns \in CycleTimes \cup {0}
  /\ fsc_list \in SortedLists /\ Apart(fsc_list)
  /\ written \in SortedLists /\ Apart(written) /\ EventsValid(written)
  /\ table = Rows(written)

\* It holds of a module without a schedule.
LEMMA InitFscInv ==
  ASSUME Init
  PROVE  FscInv
<1>1. << >> \in SortedLists /\ Apart(<< >>)
  BY DEF SortedLists, Sorted, Apart
<1>2. EventsValid(<< >>) /\ Rows(<< >>) = << >>
  BY DEF EventsValid, Rows
<1> QED
  BY <1>1, <1>2 DEF Init, FscInv

\* An entry is added with all its commands, if they are far enough from the others.
LEMMA AddScheduleFscInv ==
  ASSUME FscInv, NEW e \in EventEntries \cup WindowEntries, AddSchedule(e)
  PROVE  FscInv'
<1> DEFINE list == InsertAll(fsc_list, Commands(e))
<1>1. list \in SortedLists
  <2>1. Commands(e) \in Seq(SysfsItems)
    BY CommandsTyped DEF FscInv
  <2> QED
    BY <2>1, InsertAllSorted DEF FscInv
<1>2. GapsValid(list) /\ fsc_list' = list
  BY DEF AddSchedule, Valid
<1> HIDE DEF list
<1>3. Apart(list)
  BY <1>1, <1>2, GapsApart
<1>4. fsc_list' \in SortedLists /\ Apart(fsc_list')
  BY <1>1, <1>2, <1>3
<1>5. cycle_ns' = cycle_ns /\ table' = table /\ written' = written
  BY DEF AddSchedule
<1> QED
  BY <1>4, <1>5 DEF FscInv

\* Every step keeps it.
LEMMA NextFscInv ==
  ASSUME FscInv, [Next]_vars
  PROVE  FscInv'
<1>1. ASSUME NEW c \in CycleTimes, SetModuleSchedule(c)
      PROVE  FscInv'
  BY <1>1 DEF FscInv, SetModuleSchedule
<1>2. ASSUME NEW e \in EventEntries \cup WindowEntries, AddSchedule(e)
      PROVE  FscInv'
  BY <1>2, AddScheduleFscInv
<1>3. ASSUME NEW s \in Events \cup Windows, CleanSchedule(s)
      PROVE  FscInv'
  <2>1. fsc_list \in SortedLists /\ Apart(fsc_list)
    BY DEF FscInv
  <2>2. fsc_list' = RemoveAll(fsc_list, s)
    BY <1>3 DEF CleanSchedule
  <2>3. fsc_list' \in SortedLists /\ Apart(fsc_list')
    BY <2>1, <2>2, RemoveAllApart
  <2>4. cycle_ns' = cycle_ns /\ table' = table /\ written' = written
    BY <1>3 DEF CleanSchedule
  <2> QED
    BY <2>3, <2>4 DEF FscInv
<1>4. CASE WriteSchedule
  <2>1. /\ table' = Rows(fsc_list) /\ written' = fsc_list
        /\ fsc_list' = fsc_list /\ cycle_ns' = cycle_ns
    BY <1>4 DEF WriteSchedule
  <2>2. EventsValid(fsc_list)
    BY <1>4 DEF WriteSchedule, Valid
  <2> QED
    BY <2>1, <2>2 DEF FscInv
<1>5. CASE UNCHANGED vars
  BY <1>5 DEF FscInv, vars
<1> QED
  BY <1>1, <1>2, <1>3, <1>4, <1>5 DEF Next

\* FscInv holds in every reachable state.
THEOREM InvariantHolds == Spec => []FscInv
<1>1. Init => FscInv
  BY InitFscInv
<1>2. FscInv /\ [Next]_vars => FscInv'
  BY NextFscInv
<1> QED
  BY <1>1, <1>2, PTL DEF Spec

\* The commands of a module (fsc_list) are sorted, and the hardware can do the
\* distances between them, for all cycles, periods, delays and widths of the word
\* that check_module_scheduling_gaps() compares in, and whatever is added and removed.
THEOREM CommandsAreApart == Spec => []CommandsApart
<1>1. FscInv => CommandsApart
  BY DEF FscInv, CommandsApart, Apart
<1> QED
  BY <1>1, InvariantHolds, PTL

-----------------------------------------------------------------------------
(* Rows *)

HwRows == [cmd : {SEND, OPEN, CLOSE, NOP}, delta_cycle : ANZ_MIN_TICKS .. UINT16_T_MAX]

\* A distance is divided into as many slices as validation counted NOP commands for
\* it, or fewer, and the rest is a distance the hardware can do and the word can hold.
LEMMA NumSlicesFits ==
  ASSUME NEW d \in Nat, d >= ANZ_MIN_TICKS
  PROVE  /\ NumSlices(d) \in Nat /\ NumSlices(d) <= NopsFor(d) /\ NopsFor(d) \in Nat
         /\ d - NumSlices(d) * Slice \in ANZ_MIN_TICKS .. UINT16_T_MAX
<1> DEFINE S == { n \in 0 .. d : d - n * Slice <= UINT16_T_MAX }
           N == NumSlices(d)
<1>1. /\ Slice \in Nat /\ Slice >= ANZ_MIN_TICKS /\ ANZ_MIN_TICKS \in Nat \ {0}
      /\ UINT16_T_MAX \in Nat /\ Slice + ANZ_MIN_TICKS - 1 <= UINT16_T_MAX /\ Slice = NOP_DELTA_CYCLE
  BY RowAssumption, TickAssumption DEF Slice
<1> HIDE DEF S
<1>2. d \in S
  <2>1. d * Slice >= d
    BY <1>1
  <2>2. d * Slice \in Nat
    BY <1>1
  <2>3. d - d * Slice <= UINT16_T_MAX
    BY <1>1, <2>1, <2>2
  <2> QED
    BY <2>3 DEF S
<1>3. S \in SUBSET Nat /\ S # {}
  BY <1>2 DEF S
<1>4. N = Min(S)
  BY DEF NumSlices, S
<1>5. N \in S /\ \A y \in S : N <= y
  BY <1>3, <1>4, MinIsLeast
<1> HIDE DEF N
<1>6. N \in Nat /\ N <= d /\ d - N * Slice <= UINT16_T_MAX
  BY <1>5 DEF S
<1>7. N # 0 => d - (N - 1) * Slice > UINT16_T_MAX
  <2> HAVE N # 0
  <2>1. N - 1 \in 0 .. d /\ ~(N <= N - 1)
    BY <1>6
  <2>2. N - 1 \notin S
    BY <1>5, <2>1
  <2>3. ~(d - (N - 1) * Slice <= UINT16_T_MAX)
    BY <2>1, <2>2 DEF S
  <2>4. (N - 1) * Slice \in Int
    BY <1>1, <2>1
  <2> QED
    BY <1>1, <2>3, <2>4
<1>8. (N - 1) * Slice = N * Slice - Slice /\ N * Slice \in Nat
  BY <1>1, <1>6
<1>9. d - N * Slice \in ANZ_MIN_TICKS .. UINT16_T_MAX
  <2>1. PICK q \in Nat : q = N * Slice
    BY <1>8
  <2>2. N # 0 => d - (q - Slice) > UINT16_T_MAX
    BY <1>7, <1>8, <2>1
  <2>3. N = 0 => q = 0
    BY <1>1, <2>1
  <2>4. d - q <= UINT16_T_MAX
    BY <1>6, <2>1
  <2>5. d - q >= ANZ_MIN_TICKS
    BY <1>1, <1>6, <2>2, <2>3
  <2> QED
    BY <1>1, <2>1, <2>4, <2>5
<1>10. N <= NopsFor(d) /\ NopsFor(d) \in Nat
  <2>1. CASE d <= UINT16_T_MAX
    <3>1. 0 \in S
      BY <1>1, <2>1 DEF S
    <3>2. N = 0
      BY <1>5, <1>6, <3>1
    <3>3. NopsFor(d) = 0
      BY <1>1, <2>1 DEF NopsFor
    <3> QED
      BY <3>2, <3>3
  <2>2. CASE d > UINT16_T_MAX
    <3>1. NopsFor(d) = d \div Slice
      BY <1>1, <2>2 DEF NopsFor
    <3>2. N * Slice <= d
      BY <1>1, <1>8, <1>9
    <3>3. PICK q \in Nat, r \in Nat : d \div Slice = q /\ d = Slice * q + r /\ r < Slice
      <4>1. d \div Slice \in Nat /\ d % Slice \in Nat /\ d % Slice < Slice
        BY <1>1
      <4>2. d = Slice * (d \div Slice) + (d % Slice)
        BY <1>1
      <4> QED
        BY <4>1, <4>2
    <3>4. N < q + 1
      <4>1. ASSUME N >= q + 1 PROVE FALSE
        <5>1. N * Slice >= (q + 1) * Slice
          BY <1>1, <1>6, <3>3, <4>1
        <5>2. (q + 1) * Slice = Slice * q + Slice /\ Slice * q \in Nat
          BY <1>1, <3>3
        <5> QED
          BY <1>1, <1>8, <3>2, <3>3, <5>1, <5>2
      <4> QED
        BY <1>6, <3>3, <4>1
    <3> QED
      BY <1>6, <3>1, <3>3, <3>4
  <2> QED
    BY <1>1, <2>1, <2>2
<1> QED
  BY <1>6, <1>9, <1>10 DEF N

\* The slices of a distance.
LEMMA SlicesTyped ==
  ASSUME NEW d \in Nat, d >= ANZ_MIN_TICKS
  PROVE  /\ Slices(d) \in Seq(ANZ_MIN_TICKS .. UINT16_T_MAX)
         /\ Len(Slices(d)) = NumSlices(d) + 1
         /\ \A i \in 1 .. NumSlices(d) : Slices(d)[i] = Slice
         /\ Slices(d)[NumSlices(d) + 1] = d - NumSlices(d) * Slice
<1> DEFINE N == NumSlices(d)
           s(i) == IF i <= N THEN Slice ELSE d - N * Slice
<1>1. N \in Nat /\ d - N * Slice \in ANZ_MIN_TICKS .. UINT16_T_MAX
  BY NumSlicesFits
<1>2. Slice \in ANZ_MIN_TICKS .. UINT16_T_MAX
  BY RowAssumption, TickAssumption DEF Slice
<1>3. Slices(d) = [i \in 1 .. N + 1 |-> s(i)]
  BY DEF Slices
<1> DEFINE D == ANZ_MIN_TICKS .. UINT16_T_MAX
<1>4. \A i \in 1 .. N + 1 : s(i) \in D
  BY <1>1, <1>2
<1>5. (\A i \in 1 .. N : s(i) = Slice) /\ s(N + 1) = d - N * Slice
  BY <1>1
<1>6. N + 1 \in Nat
  BY <1>1
<1> HIDE DEF s, N, D
<1>7. Slices(d) \in Seq(D) /\ Len(Slices(d)) = N + 1
  BY <1>3, <1>4, <1>6, IsASeq
<1>8. \A i \in 1 .. N + 1 : Slices(d)[i] = s(i)
  BY <1>3
<1>9. N + 1 \in 1 .. N + 1 /\ \A i \in 1 .. N : i \in 1 .. N + 1
  BY <1>1
<1> QED
  BY <1>5, <1>7, <1>8, <1>9 DEF N, D

\* The rows of a command: the first is its own, all others are NOP rows.
LEMMA RowsOfTyped ==
  ASSUME NEW d \in Nat, d >= ANZ_MIN_TICKS, NEW c \in SysfsItems
  PROVE  /\ RowsOf(c, d) \in Seq(HwRows)
         /\ Len(RowsOf(c, d)) = NumSlices(d) + 1
         /\ \A i \in 1 .. NumSlices(d) + 1 :
              /\ RowsOf(c, d)[i].delta_cycle = Slices(d)[i]
              /\ RowsOf(c, d)[i].cmd = IF i = 1 THEN c.cmd ELSE NOP
<1> DEFINE N == NumSlices(d)
           ds == Slices(d)
           D == ANZ_MIN_TICKS .. UINT16_T_MAX
           t == Tail(ds)
           first == Row(c.cmd, Head(ds))
           rest == NopRows(t)
<1>1. N \in Nat /\ ds \in Seq(D) /\ Len(ds) = N + 1
  BY NumSlicesFits, SlicesTyped
<1>2. c.cmd \in {SEND, OPEN, CLOSE}
  BY DEF SysfsItems
<1> HIDE DEF N, ds, D
<1>3. ds # << >> /\ Head(ds) = ds[1] /\ \A i \in 1 .. N + 1 : ds[i] \in D
  BY <1>1
<1>4. t \in Seq(D) /\ Len(t) = N /\ \A i \in 1 .. N : t[i] = ds[i + 1]
  BY <1>1, <1>3, HeadTailProperties
<1>5. first \in HwRows /\ first.cmd = c.cmd /\ first.delta_cycle = ds[1]
  BY <1>1, <1>2, <1>3 DEF Row, HwRows, D
<1> HIDE DEF t, first
<1>6. /\ rest \in Seq(HwRows) /\ Len(rest) = N
      /\ \A i \in 1 .. N : rest[i].cmd = NOP /\ rest[i].delta_cycle = ds[i + 1]
  <2>1. DOMAIN t = 1 .. N /\ \A i \in 1 .. N : t[i] \in D
    BY <1>1, <1>4
  <2>2. rest = [i \in 1 .. N |-> Row(NOP, t[i])]
    BY <2>1 DEF NopRows
  <2>3. \A i \in 1 .. N : Row(NOP, t[i]) \in HwRows
    BY <2>1 DEF Row, HwRows, D
  <2> HIDE DEF rest
  <2>4. rest \in Seq(HwRows) /\ Len(rest) = N
    BY <1>1, <2>2, <2>3, IsASeq
  <2>5. \A i \in 1 .. N : rest[i] = Row(NOP, ds[i + 1])
    BY <1>4, <2>2
  <2> QED
    BY <2>4, <2>5 DEF Row
<1>7. RowsOf(c, d) = << first >> \o rest
  BY DEF RowsOf, rest, first, t, ds
<1> HIDE DEF rest
<1>8. << first >> \in Seq(HwRows) /\ Len(<< first >>) = 1 /\ << first >>[1] = first
  BY <1>5
<1> DEFINE one == << first >>
<1> HIDE DEF one
<1>9. /\ one \o rest \in Seq(HwRows) /\ Len(one \o rest) = 1 + N
      /\ \A i \in 1 .. 1 + N : (one \o rest)[i] = IF i <= 1 THEN one[i] ELSE rest[i - 1]
  <2>1. one \in Seq(HwRows) /\ Len(one) = 1
    BY <1>8 DEF one
  <2>2. /\ one \o rest \in Seq(HwRows) /\ Len(one \o rest) = Len(one) + Len(rest)
        /\ \A i \in 1 .. Len(one) + Len(rest) :
             (one \o rest)[i] = IF i <= Len(one) THEN one[i] ELSE rest[i - Len(one)]
    BY <1>6, <2>1, ConcatProperties
  <2> QED
    BY <1>6, <2>1, <2>2
<1>10. ASSUME NEW i \in 1 .. N + 1
       PROVE  /\ (one \o rest)[i].delta_cycle = ds[i]
              /\ (one \o rest)[i].cmd = IF i = 1 THEN c.cmd ELSE NOP
  <2>1. i \in 1 .. 1 + N
    BY <1>1
  <2>2. CASE i = 1
    <3>1. (one \o rest)[i] = first
      BY <1>8, <1>9, <2>1, <2>2 DEF one
    <3> QED
      BY <1>5, <2>2, <3>1
  <2>3. CASE i # 1
    <3>1. (one \o rest)[i] = rest[i - 1] /\ i - 1 \in 1 .. N /\ (i - 1) + 1 = i
      BY <1>1, <1>9, <2>1, <2>3
    <3> QED
      BY <1>6, <2>3, <3>1
  <2> QED
    BY <2>2, <2>3
<1>11. 1 + N = N + 1
  BY <1>1
<1> QED
  BY <1>7, <1>9, <1>10, <1>11 DEF one, N, ds

\* The rows in front of the first command.
LEMMA LeadTyped ==
  ASSUME NEW d \in Nat, d = 0 \/ d >= ANZ_MIN_TICKS
  PROVE  /\ Lead(d) \in Seq(HwRows)
         /\ Len(Lead(d)) = IF d = 0 THEN 0 ELSE NumSlices(d) + 1
         /\ \A i \in 1 .. Len(Lead(d)) : Lead(d)[i].cmd = NOP /\ Lead(d)[i].delta_cycle = Slices(d)[i]
<1>1. CASE d = 0
  BY <1>1 DEF Lead
<1>2. CASE d # 0
  <2> DEFINE N == NumSlices(d)
             ds == Slices(d)
             D == ANZ_MIN_TICKS .. UINT16_T_MAX
             rows == NopRows(ds)
  <2>1. N \in Nat /\ ds \in Seq(D) /\ Len(ds) = N + 1
    BY <1>2, NumSlicesFits, SlicesTyped
  <2> HIDE DEF N, ds, D
  <2>2. DOMAIN ds = 1 .. N + 1 /\ \A i \in 1 .. N + 1 : ds[i] \in D
    BY <2>1
  <2>3. rows = [i \in 1 .. N + 1 |-> Row(NOP, ds[i])]
    BY <2>2 DEF NopRows
  <2>4. \A i \in 1 .. N + 1 : Row(NOP, ds[i]) \in HwRows
    BY <2>2 DEF Row, HwRows, D
  <2>5. N + 1 \in Nat
    BY <2>1
  <2> HIDE DEF rows
  <2>6. rows \in Seq(HwRows) /\ Len(rows) = N + 1
    BY <2>3, <2>4, <2>5, IsASeq
  <2>7. \A i \in 1 .. N + 1 : rows[i].cmd = NOP /\ rows[i].delta_cycle = ds[i]
    BY <2>3 DEF Row
  <2>8. Lead(d) = rows
    BY <1>2 DEF Lead, rows, ds
  <2> QED
    BY <1>2, <2>6, <2>7, <2>8 DEF N, ds
<1> QED
  BY <1>1, <1>2

\* The distances of commands that are apart.
LEMMA DistancesApart ==
  ASSUME NEW list \in SortedLists, Apart(list), NEW k \in 1 .. Len(list)
  PROVE  /\ Distance(list, k) \in Nat
         /\ Distance(list, k) >= ANZ_MIN_TICKS \/ (k = 1 /\ Distance(list, k) = 0)
         /\ k = 1 => Distance(list, k) = list[k].abs_cycle
         /\ k # 1 => list[k].abs_cycle = list[k - 1].abs_cycle + Distance(list, k)
<1>1. /\ DOMAIN list = 1 .. Len(list) /\ Len(list) \in Nat
      /\ \A i \in 1 .. Len(list) : list[i].abs_cycle \in Nat
  BY ListTyped
<1>2. ANZ_MIN_TICKS \in Nat
  BY TickAssumption
<1>3. (list[k].abs_cycle = 0 /\ k = 1) \/ Distance(list, k) >= ANZ_MIN_TICKS
  BY <1>1 DEF Apart
<1>4. CASE k = 1
  <2>1. Distance(list, k) = list[k].abs_cycle
    BY <1>1, <1>4 DEF Distance
  <2> QED
    BY <1>1, <1>3, <1>4, <2>1
<1>5. CASE k # 1
  <2>1. Distance(list, k) = list[k].abs_cycle - list[k - 1].abs_cycle
    BY <1>5 DEF Distance
  <2>2. PICK a \in Nat, b \in Nat : a = list[k].abs_cycle /\ b = list[k - 1].abs_cycle
    <3>1. k - 1 \in 1 .. Len(list)
      BY <1>5
    <3> QED
      BY <1>1, <3>1
  <2>3. Distance(list, k) = a - b /\ a - b >= ANZ_MIN_TICKS
    BY <1>3, <1>5, <2>1, <2>2
  <2>4. a = b + (a - b)
    OBVIOUS
  <2>5. a - b \in Nat
    BY <1>2, <2>3
  <2> QED
    BY <1>5, <2>2, <2>3, <2>4, <2>5
<1> QED
  BY <1>4, <1>5

\* The number of NOP commands of a distance.
LEMMA NopsForTyped ==
  ASSUME NEW d \in Nat
  PROVE  NopsFor(d) \in Nat
<1>1. NOP_DELTA_CYCLE \in Nat \ {0}
  BY RowAssumption, TickAssumption
<1>2. d \div NOP_DELTA_CYCLE \in Nat
  BY <1>1
<1> QED
  BY <1>2 DEF NopsFor

\* The number of NOP commands that validation counts (the loop of
\* calc_nop_schedules_for_long_cycles()).
LEMMA NopsUpToValues ==
  ASSUME NEW list \in SortedLists, Apart(list)
  PROVE  /\ NopsUpTo(list)[0] = 0
         /\ \A k \in 1 .. Len(list) :
              NopsUpTo(list)[k] = NopsUpTo(list)[k - 1] + NopsFor(Distance(list, k))
         /\ \A k \in 0 .. Len(list) : NopsUpTo(list)[k] \in Nat
<1> DEFINE n == Len(list)
           F == NopsUpTo(list)
           nops(k) == NopsFor(Distance(list, k))
           step == [k \in 1 .. n |-> [x \in Nat |-> x + nops(k)]]
<1>1. n \in Nat
  BY ListTyped
<1>2. \A k \in 1 .. n : nops(k) \in Nat
  <2> TAKE k \in 1 .. n
  <2>1. Distance(list, k) \in Nat
    BY DistancesApart
  <2> QED
    BY <2>1, NopsForTyped
<1> HIDE DEF n, nops
<1>3. step \in [1 .. n -> [Nat -> Nat]]
  BY <1>2
<1>4. PICK f \in [0 .. n -> Nat] : f = [k \in 0 .. n |-> IF k = 0 THEN 0 ELSE f[k - 1] + nops(k)]
  <2>1. PICK f \in [0 .. n -> Nat] : f[0] = 0 /\ \A k \in 1 .. n : f[k] = step[k][f[k - 1]]
    <3> HIDE DEF step
    <3>1. Loops(n, Nat, 0, step) # {}
      BY <1>1, <1>3, StepsExist
    <3> QED
      BY <3>1 DEF Loops
  <2>2. \A k \in 1 .. n : k - 1 \in 0 .. n /\ step[k][f[k - 1]] = f[k - 1] + nops(k)
    BY <1>1, <2>1
  <2> HIDE DEF step
  <2>3. f = [k \in 0 .. n |-> IF k = 0 THEN 0 ELSE f[k - 1] + nops(k)]
    BY <1>1, <2>1, <2>2
  <2> QED
    BY <2>3
<1>5. F = [k \in 0 .. n |-> IF k = 0 THEN 0 ELSE F[k - 1] + nops(k)]
  <2>1. F = CHOOSE g : g = [k \in 0 .. n |-> IF k = 0 THEN 0 ELSE g[k - 1] + nops(k)]
    BY DEF NopsUpTo, n, nops
  <2> HIDE DEF F
  <2>2. \E g : g = [k \in 0 .. n |-> IF k = 0 THEN 0 ELSE g[k - 1] + nops(k)]
    BY <1>4, Zenon
  <2> QED
    BY <2>1, <2>2, Zenon
<1> HIDE DEF F
<1>6. F[0] = 0 /\ \A k \in 1 .. n : F[k] = F[k - 1] + nops(k)
  <2>1. \A k \in 1 .. n : k \in 0 .. n /\ k # 0
    OBVIOUS
  <2>2. 0 \in 0 .. n
    BY <1>1
  <2> QED
    BY <1>5, <2>1, <2>2
<1> DEFINE P == { k \in 0 .. n : F[k] \in Nat }
<1>7. P \in SUBSET Nat /\ 0 \in P
  BY <1>1, <1>6
<1>8. \A k \in 1 .. n : k - 1 \in P => k \in P
  BY <1>1, <1>2, <1>6
<1>9. 0 .. n \subseteq P
  <2> HIDE DEF P
  <2> QED
    BY <1>1, <1>7, <1>8, StepsInduction
<1> QED
  BY <1>6, <1>9 DEF F, n, nops

\* The distance of a row.
LEMMA DeltaTyped ==
  ASSUME NEW rows \in Seq(HwRows), NEW i \in 1 .. Len(rows)
  PROVE  rows[i].delta_cycle \in Nat
<1>1. rows[i] \in HwRows
  OBVIOUS
<1>2. rows[i].delta_cycle \in ANZ_MIN_TICKS .. UINT16_T_MAX
  BY <1>1 DEF HwRows
<1>3. ANZ_MIN_TICKS \in Nat /\ UINT16_T_MAX \in Nat
  BY TickAssumption, RowAssumption
<1> QED
  BY <1>2, <1>3

\* When rows end: each its distance after the one before.
LEMMA TimesOfValues ==
  ASSUME NEW rows \in Seq(HwRows)
  PROVE  /\ TimesOf(rows)[0] = 0
         /\ \A i \in 1 .. Len(rows) : TimesOf(rows)[i] = TimesOf(rows)[i - 1] + rows[i].delta_cycle
         /\ \A i \in 0 .. Len(rows) : TimesOf(rows)[i] \in Nat
<1> DEFINE n == Len(rows)
           F == TimesOf(rows)
           delta(k) == rows[k].delta_cycle
           step == [k \in 1 .. n |-> [x \in Nat |-> x + delta(k)]]
<1>1. n \in Nat
  OBVIOUS
<1>2. \A k \in 1 .. n : delta(k) \in Nat
  BY DeltaTyped
<1> HIDE DEF n, delta
<1>3. step \in [1 .. n -> [Nat -> Nat]]
  BY <1>2
<1>4. PICK f \in [0 .. n -> Nat] : f = [k \in 0 .. n |-> IF k = 0 THEN 0 ELSE f[k - 1] + delta(k)]
  <2>1. PICK f \in [0 .. n -> Nat] : f[0] = 0 /\ \A k \in 1 .. n : f[k] = step[k][f[k - 1]]
    <3> HIDE DEF step
    <3>1. Loops(n, Nat, 0, step) # {}
      BY <1>1, <1>3, StepsExist
    <3> QED
      BY <3>1 DEF Loops
  <2>2. \A k \in 1 .. n : k - 1 \in 0 .. n /\ step[k][f[k - 1]] = f[k - 1] + delta(k)
    BY <1>1, <2>1
  <2> HIDE DEF step
  <2>3. f = [k \in 0 .. n |-> IF k = 0 THEN 0 ELSE f[k - 1] + delta(k)]
    BY <1>1, <2>1, <2>2
  <2> QED
    BY <2>3
<1>5. F = [k \in 0 .. n |-> IF k = 0 THEN 0 ELSE F[k - 1] + delta(k)]
  <2>1. F = CHOOSE g : g = [k \in 0 .. n |-> IF k = 0 THEN 0 ELSE g[k - 1] + delta(k)]
    BY DEF TimesOf, n, delta
  <2> HIDE DEF F
  <2>2. \E g : g = [k \in 0 .. n |-> IF k = 0 THEN 0 ELSE g[k - 1] + delta(k)]
    BY <1>4, Zenon
  <2> QED
    BY <2>1, <2>2, Zenon
<1> HIDE DEF F
<1>6. F[0] = 0 /\ \A k \in 1 .. n : F[k] = F[k - 1] + delta(k)
  <2>1. \A k \in 1 .. n : k \in 0 .. n /\ k # 0
    OBVIOUS
  <2>2. 0 \in 0 .. n
    BY <1>1
  <2> QED
    BY <1>5, <2>1, <2>2
<1> DEFINE P == { k \in 0 .. n : F[k] \in Nat }
<1>7. P \in SUBSET Nat /\ 0 \in P
  BY <1>1, <1>6
<1>8. \A k \in 1 .. n : k - 1 \in P => k \in P
  BY <1>1, <1>2, <1>6
<1>9. 0 .. n \subseteq P
  <2> HIDE DEF P
  <2> QED
    BY <1>1, <1>7, <1>8, StepsInduction
<1> QED
  BY <1>6, <1>9 DEF F, n, delta

\* Rows that follow others start when those end.
LEMMA TimesOfConcat ==
  ASSUME NEW u \in Seq(HwRows), NEW v \in Seq(HwRows)
  PROVE  /\ \A i \in 0 .. Len(u) : TimesOf(u \o v)[i] = TimesOf(u)[i]
         /\ \A i \in 0 .. Len(v) : TimesOf(u \o v)[Len(u) + i] = TimesOf(u)[Len(u)] + TimesOf(v)[i]
<1> DEFINE w == u \o v
           m == Len(u)
           n == Len(v)
           T == TimesOf(w)
           U == TimesOf(u)
           V == TimesOf(v)
<1>1. /\ w \in Seq(HwRows) /\ Len(w) = m + n /\ m \in Nat /\ n \in Nat
      /\ \A i \in 1 .. m + n : w[i] = IF i <= m THEN u[i] ELSE v[i - m]
  BY ConcatProperties
<1> HIDE DEF w
<1>2. /\ T[0] = 0 /\ \A i \in 1 .. m + n : T[i] = T[i - 1] + w[i].delta_cycle
      /\ \A i \in 0 .. m + n : T[i] \in Nat
  BY <1>1, TimesOfValues
<1>3. /\ U[0] = 0 /\ \A i \in 1 .. m : U[i] = U[i - 1] + u[i].delta_cycle
      /\ \A i \in 0 .. m : U[i] \in Nat
  BY TimesOfValues
<1>4. /\ V[0] = 0 /\ \A i \in 1 .. n : V[i] = V[i - 1] + v[i].delta_cycle
      /\ \A i \in 0 .. n : V[i] \in Nat
  BY TimesOfValues
<1>5. \A i \in 1 .. n : v[i].delta_cycle \in Nat
  BY DeltaTyped
<1> HIDE DEF m, n, T, U, V
<1>6. 0 .. m \subseteq { i \in 0 .. m : T[i] = U[i] }
  <2> DEFINE P == { i \in 0 .. m : T[i] = U[i] }
  <2>1. P \in SUBSET Nat /\ 0 \in P
    BY <1>1, <1>2, <1>3
  <2>2. ASSUME NEW k \in 1 .. m, k - 1 \in P
        PROVE  k \in P
    <3>1. k \in 1 .. m + n /\ k <= m /\ k \in 0 .. m /\ T[k - 1] = U[k - 1]
      BY <1>1, <2>2
    <3>2. w[k] = u[k]
      BY <1>1, <3>1
    <3> QED
      BY <1>2, <1>3, <3>1, <3>2
  <2> HIDE DEF P
  <2>3. 0 .. m \subseteq P
    BY <1>1, <2>1, <2>2, StepsInduction
  <2> QED
    BY <2>3 DEF P
<1>7. 0 .. n \subseteq { i \in 0 .. n : T[m + i] = U[m] + V[i] }
  <2> DEFINE P == { i \in 0 .. n : T[m + i] = U[m] + V[i] }
  <2>1. P \in SUBSET Nat /\ 0 \in P
    <3>1. m \in 0 .. m /\ m + 0 = m /\ 0 \in 0 .. n
      BY <1>1
    <3>2. T[m] = U[m] /\ U[m] \in Nat
      BY <1>3, <1>6, <3>1
    <3> QED
      BY <1>4, <3>1, <3>2
  <2>2. ASSUME NEW k \in 1 .. n, k - 1 \in P
        PROVE  k \in P
    <3>1. /\ m + k \in 1 .. m + n /\ ~(m + k <= m) /\ (m + k) - m = k /\ (m + k) - 1 = m + (k - 1)
          /\ k - 1 \in 0 .. n /\ m \in 0 .. m
      BY <1>1
    <3>2. w[m + k] = v[k]
      BY <1>1, <3>1
    <3>3. T[m + (k - 1)] = U[m] + V[k - 1]
      BY <2>2
    <3>4. T[m + k] = T[m + (k - 1)] + v[k].delta_cycle
      BY <1>2, <3>1, <3>2
    <3>5. PICK a \in Nat, b \in Nat, d \in Nat : a = U[m] /\ b = V[k - 1] /\ d = v[k].delta_cycle
      BY <1>3, <1>4, <1>5, <3>1
    <3>6. V[k] = b + d
      BY <1>4, <3>5
    <3>7. T[m + k] = (a + b) + d
      BY <3>3, <3>4, <3>5
    <3>8. (a + b) + d = a + (b + d)
      OBVIOUS
    <3>9. T[m + k] = U[m] + V[k]
      BY <3>5, <3>6, <3>7, <3>8, Zenon
    <3> QED
      BY <3>1, <3>9
  <2> HIDE DEF P
  <2>3. 0 .. n \subseteq P
    BY <1>1, <2>1, <2>2, StepsInduction
  <2> QED
    BY <2>3 DEF P
<1> QED
  BY <1>6, <1>7 DEF w, m, n, T, U, V

\* The slices of a distance add up to it.
LEMMA SlicesAddUp ==
  ASSUME NEW d \in Nat, d >= ANZ_MIN_TICKS, NEW rows \in Seq(HwRows), Len(rows) = NumSlices(d) + 1,
         \A i \in 1 .. Len(rows) : rows[i].delta_cycle = Slices(d)[i]
  PROVE  TimesOf(rows)[Len(rows)] = d
<1> DEFINE N == NumSlices(d)
           T == TimesOf(rows)
<1>1. N \in Nat /\ d - N * Slice \in ANZ_MIN_TICKS .. UINT16_T_MAX
  BY NumSlicesFits
<1>2. Slice \in Nat
  BY RowAssumption DEF Slice
<1>3. /\ \A i \in 1 .. N : rows[i].delta_cycle = Slice
      /\ rows[N + 1].delta_cycle = d - N * Slice
  <2>1. N + 1 \in 1 .. N + 1 /\ \A i \in 1 .. N : i \in 1 .. N + 1
    BY <1>1
  <2> QED
    BY <2>1, SlicesTyped
<1>4. /\ T[0] = 0 /\ \A i \in 1 .. N + 1 : T[i] = T[i - 1] + rows[i].delta_cycle
  BY TimesOfValues
<1> HIDE DEF N, T
<1> DEFINE P == { i \in 0 .. N : T[i] = i * Slice }
<1>5. P \in SUBSET Nat /\ 0 \in P
  BY <1>1, <1>2, <1>4
<1>6. ASSUME NEW k \in 1 .. N, k - 1 \in P
      PROVE  k \in P
  <2>1. T[k - 1] = (k - 1) * Slice /\ T[k] = T[k - 1] + Slice
    BY <1>1, <1>3, <1>4, <1>6
  <2>2. (k - 1) * Slice + Slice = k * Slice
    BY <1>2
  <2> QED
    BY <1>1, <2>1, <2>2
<1>7. 0 .. N \subseteq P
  <2> HIDE DEF P
  <2> QED
    BY <1>1, <1>5, <1>6, StepsInduction
<1>8. T[N] = N * Slice
  BY <1>1, <1>7
<1>9. T[N + 1] = N * Slice + (d - N * Slice)
  <2>1. N + 1 \in 1 .. N + 1 /\ (N + 1) - 1 = N
    BY <1>1
  <2> QED
    BY <1>3, <1>4, <1>8, <2>1
<1>10. N * Slice \in Nat
  BY <1>1, <1>2
<1>11. T[N + 1] = d
  BY <1>9, <1>10
<1> QED
  BY <1>11 DEF T, N

-----------------------------------------------------------------------------
(* The rows of a list of commands *)

CommandRows(rows) == { i \in DOMAIN rows : rows[i].cmd # NOP }
NumberOf(rows, i) == Cardinality({ k \in CommandRows(rows) : k <= i })

\* The rows hold the first k commands of the list, in its order, each at its time.
OnTime(rows, list, k) ==
  /\ Cardinality(CommandRows(rows)) = k
  /\ \A i \in CommandRows(rows) :
       /\ rows[i].cmd = list[NumberOf(rows, i)].cmd
       /\ TimesOf(rows)[i - 1] = list[NumberOf(rows, i)].abs_cycle

\* One more command: its row starts at its time, and only NOP rows are after it.
LEMMA OnTimeStep ==
  ASSUME NEW list \in SortedLists, NEW k \in 0 .. Len(list) - 1,
         NEW u \in Seq(HwRows), OnTime(u, list, k), TimesOf(u)[Len(u)] = list[k + 1].abs_cycle,
         NEW v \in Seq(HwRows), Len(v) >= 1, v[1].cmd = list[k + 1].cmd,
         \A i \in 2 .. Len(v) : v[i].cmd = NOP
  PROVE  OnTime(u \o v, list, k + 1)
<1> DEFINE w == u \o v
           m == Len(u)
           cu == CommandRows(u)
           cw == CommandRows(w)
<1>1. /\ w \in Seq(HwRows) /\ Len(w) = m + Len(v) /\ m \in Nat /\ Len(v) \in Nat
      /\ \A i \in 1 .. m + Len(v) : w[i] = IF i <= m THEN u[i] ELSE v[i - m]
  BY ConcatProperties
<1>2. \A i \in 0 .. m : TimesOf(w)[i] = TimesOf(u)[i]
  BY TimesOfConcat
<1> HIDE DEF w
<1>3. list[k + 1].cmd # NOP
  <2>1. k + 1 \in 1 .. Len(list)
    BY ListTyped
  <2>2. list[k + 1].cmd \in {SEND, OPEN, CLOSE}
    BY <2>1, ListTyped DEF SysfsItems
  <2> QED
    BY <2>2 DEF SEND, OPEN, CLOSE, NOP
<1>4. \A i \in 1 .. m : i \in 1 .. m + Len(v) /\ i <= m /\ w[i] = u[i]
  BY <1>1
<1>5. w[m + 1] = v[1] /\ m + 1 \in 1 .. m + Len(v)
  <2>1. m + 1 \in 1 .. m + Len(v) /\ ~(m + 1 <= m) /\ (m + 1) - m = 1
    BY <1>1
  <2> QED
    BY <1>1, <2>1
<1>6. DOMAIN w = 1 .. m + Len(v) /\ DOMAIN u = 1 .. m
  BY <1>1
<1>7. cw = cu \cup {m + 1}
  <2>1. ASSUME NEW i \in 1 .. m + Len(v)
        PROVE  w[i].cmd # NOP <=> i \in cu \/ i = m + 1
    <3>1. CASE i <= m
      <4>1. i \in 1 .. m /\ i # m + 1
        BY <1>1, <3>1
      <4>2. w[i] = u[i]
        BY <1>4, <4>1
      <4>3. i \in cu <=> u[i].cmd # NOP
        BY <1>6, <4>1 DEF CommandRows
      <4> HIDE DEF cu, m
      <4> QED
        BY <4>1, <4>2, <4>3
    <3>2. CASE i = m + 1
      <4>1. w[i].cmd = list[k + 1].cmd
        BY <1>5, <3>2
      <4> HIDE DEF cu, m
      <4> QED
        BY <1>3, <3>2, <4>1
    <3>3. CASE i > m + 1
      <4>1. i \notin cu
        BY <1>1, <1>6, <3>3 DEF CommandRows
      <4>2. ~(i <= m) /\ i - m \in 2 .. Len(v)
        BY <1>1, <3>3
      <4>3. w[i].cmd = NOP
        BY <1>1, <4>2
      <4> QED
        BY <1>1, <3>3, <4>1, <4>3
    <3> QED
      BY <1>1, <3>1, <3>2, <3>3
  <2>2. cw = { i \in 1 .. m + Len(v) : w[i].cmd # NOP }
    BY <1>6 DEF CommandRows
  <2>3. cu \subseteq 1 .. m + Len(v)
    BY <1>4, <1>6 DEF CommandRows
  <2> HIDE DEF cw, cu
  <2> QED
    BY <1>5, <2>1, <2>2, <2>3
<1>8. cu \subseteq 1 .. m
  BY <1>6 DEF CommandRows
<1>9. IsFiniteSet(cu) /\ m + 1 \notin cu
  <2>1. IsFiniteSet(1 .. m)
    BY <1>1, FS_Interval
  <2>2. m + 1 \notin 1 .. m
    BY <1>1
  <2> HIDE DEF cu
  <2> QED
    BY <1>8, <2>1, <2>2, FS_Subset
<1>10. Cardinality(cw) = k + 1
  <2>1. Cardinality(cu) = k
    BY DEF OnTime
  <2> HIDE DEF cu, cw
  <2> QED
    BY <1>7, <1>9, <2>1, FS_AddElement
<1>11. ASSUME NEW i \in cu
       PROVE  /\ w[i].cmd = list[NumberOf(w, i)].cmd
              /\ TimesOf(w)[i - 1] = list[NumberOf(w, i)].abs_cycle
  <2>1. i \in 1 .. m /\ i - 1 \in 0 .. m
    BY <1>1, <1>8
  <2>2. NumberOf(w, i) = NumberOf(u, i)
    <3>1. ~(m + 1 <= i)
      BY <1>1, <2>1
    <3>2. { j \in cw : j <= i } = { j \in cu : j <= i }
      BY <1>7, <3>1
    <3> QED
      BY <3>2 DEF NumberOf
  <2>3. w[i] = u[i] /\ TimesOf(w)[i - 1] = TimesOf(u)[i - 1]
    BY <1>2, <1>4, <2>1
  <2> QED
    BY <2>2, <2>3 DEF OnTime
<1>12. /\ w[m + 1].cmd = list[NumberOf(w, m + 1)].cmd
       /\ TimesOf(w)[(m + 1) - 1] = list[NumberOf(w, m + 1)].abs_cycle
  <2>1. NumberOf(w, m + 1) = k + 1
    <3>1. \A j \in cw : j <= m + 1
      BY <1>1, <1>7, <1>8
    <3>2. { j \in cw : j <= m + 1 } = cw
      BY <3>1
    <3> QED
      BY <1>10, <3>2 DEF NumberOf
  <2>2. (m + 1) - 1 = m /\ m \in 0 .. m
    BY <1>1
  <2>3. TimesOf(w)[(m + 1) - 1] = list[k + 1].abs_cycle
    BY <1>2, <2>2
  <2> QED
    BY <1>5, <2>1, <2>3
<1>13. \A i \in cw : /\ w[i].cmd = list[NumberOf(w, i)].cmd
                     /\ TimesOf(w)[i - 1] = list[NumberOf(w, i)].abs_cycle
  <2> TAKE i \in cw
  <2>1. i \in cu \/ i = m + 1
    <3> HIDE DEF cu, cw
    <3> QED
      BY <1>7
  <2>2. CASE i \in cu
    BY <1>11, <2>2
  <2>3. CASE i = m + 1
    BY <1>12, <2>3
  <2> QED
    BY <2>1, <2>2, <2>3
<1> QED
  BY <1>10, <1>13 DEF OnTime, w

First(list) == IF list[1].abs_cycle = 0 THEN 0 ELSE 1

\* The rows of the first k commands: distances the hardware can do, not more rows than
\* validation counted, and they end when command k + 1 is due.
RowsSound(rows, list, k) ==
  /\ rows \in Seq(HwRows)
  /\ Len(rows) <= NopsUpTo(list)[k + 1] + k + First(list)
  /\ TimesOf(rows)[Len(rows)] = list[k + 1].abs_cycle
  /\ OnTime(rows, list, k)

\* So are the rows in front of the first command.
LEMMA LeadSound ==
  ASSUME NEW list \in SortedLists, Apart(list), list # << >>
  PROVE  RowsSound(Lead(list[1].abs_cycle), list, 0)
<1> DEFINE d == list[1].abs_cycle
           rows == Lead(d)
<1>1. 1 \in 1 .. Len(list) /\ d \in Nat /\ list \in Seq(SysfsItems)
  <2>1. Len(list) # 0 /\ Len(list) \in Nat
    BY ListTyped
  <2> QED
    BY <2>1, ListTyped
<1>2. (d = 0 \/ d >= ANZ_MIN_TICKS) /\ Distance(list, 1) = d
  BY <1>1, DistancesApart
<1>3. NopsUpTo(list)[1] = NopsFor(d)
  <2>1. NopsUpTo(list)[0] = 0 /\ NopsUpTo(list)[1] = NopsUpTo(list)[1 - 1] + NopsFor(d)
    BY <1>1, <1>2, NopsUpToValues
  <2>2. NopsUpTo(list)[1] \in Nat /\ NopsUpTo(list)[1] = 0 + NopsFor(d)
    <3>1. 1 \in 0 .. Len(list)
      BY <1>1, ListTyped
    <3> QED
      BY <2>1, <3>1, NopsUpToValues
  <2>3. NopsFor(d) \in Nat
    BY <1>1, NopsForTyped
  <2> QED
    BY <2>2, <2>3
<1> HIDE DEF d
<1>4. /\ rows \in Seq(HwRows) /\ Len(rows) = IF d = 0 THEN 0 ELSE NumSlices(d) + 1
      /\ \A i \in 1 .. Len(rows) : rows[i].cmd = NOP /\ rows[i].delta_cycle = Slices(d)[i]
  BY <1>1, <1>2, LeadTyped
<1> HIDE DEF rows
<1>5. Len(rows) <= NopsUpTo(list)[0 + 1] + 0 + First(list)
  <2>1. CASE d = 0
    <3>1. NopsFor(d) = 0
      BY <2>1, RowAssumption DEF NopsFor
    <3> QED
      BY <1>3, <1>4, <2>1, <3>1 DEF First, d
  <2>2. CASE d # 0
    <3>1. NumSlices(d) \in Nat /\ NumSlices(d) <= NopsFor(d) /\ NopsFor(d) \in Nat
      BY <1>1, <1>2, <2>2, NumSlicesFits
    <3> QED
      BY <1>3, <1>4, <2>2, <3>1 DEF First, d
  <2> QED
    BY <2>1, <2>2
<1>6. TimesOf(rows)[Len(rows)] = list[0 + 1].abs_cycle
  <2>1. CASE d = 0
    <3>1. TimesOf(rows)[0] = 0
      BY <1>4, TimesOfValues
    <3> QED
      BY <1>4, <2>1, <3>1 DEF d
  <2>2. CASE d # 0
    <3>1. TimesOf(rows)[Len(rows)] = d
      BY <1>1, <1>2, <1>4, <2>2, SlicesAddUp
    <3> QED
      BY <3>1 DEF d
  <2> QED
    BY <2>1, <2>2
<1>7. OnTime(rows, list, 0)
  <2>1. CommandRows(rows) = {}
    BY <1>4 DEF CommandRows
  <2> QED
    BY <2>1, FS_EmptySet DEF OnTime
<1> QED
  BY <1>4, <1>5, <1>6, <1>7 DEF RowsSound, rows, d

\* So are they with the rows of one more command.
LEMMA RowsSoundStep ==
  ASSUME NEW list \in SortedLists, Apart(list), NEW k \in 1 .. Len(list) - 1,
         NEW rows, RowsSound(rows, list, k - 1)
  PROVE  RowsSound(rows \o RowsOf(list[k], Distance(list, k + 1)), list, k)
<1> DEFINE c == list[k]
           d == Distance(list, k + 1)
           v == RowsOf(c, d)
           w == rows \o v
           N == NumSlices(d)
<1>1. /\ k \in 1 .. Len(list) /\ k + 1 \in 1 .. Len(list) /\ k + 1 # 1 /\ (k + 1) - 1 = k
      /\ (k - 1) + 1 = k /\ k - 1 \in 0 .. Len(list) - 1 /\ k \in 0 .. Len(list)
      /\ k \in Nat
  BY ListTyped
<1>2. c \in SysfsItems /\ c.abs_cycle \in Nat
  BY <1>1, ListTyped
<1>3. d \in Nat /\ d >= ANZ_MIN_TICKS /\ list[k + 1].abs_cycle = c.abs_cycle + d
  <2>1. /\ Distance(list, k + 1) \in Nat
        /\ Distance(list, k + 1) >= ANZ_MIN_TICKS
        /\ list[k + 1].abs_cycle = list[(k + 1) - 1].abs_cycle + Distance(list, k + 1)
    BY <1>1, DistancesApart
  <2> QED
    BY <1>1, <2>1
<1>4. NopsUpTo(list)[k + 1] = NopsUpTo(list)[k] + NopsFor(d) /\ NopsUpTo(list)[k] \in Nat
  <2>1. NopsUpTo(list)[k + 1] = NopsUpTo(list)[(k + 1) - 1] + NopsFor(d)
    BY <1>1, NopsUpToValues
  <2>2. NopsUpTo(list)[k] \in Nat
    BY <1>1, NopsUpToValues
  <2> QED
    BY <1>1, <2>1, <2>2
<1>5. /\ rows \in Seq(HwRows) /\ Len(rows) <= NopsUpTo(list)[k] + (k - 1) + First(list)
      /\ TimesOf(rows)[Len(rows)] = c.abs_cycle /\ OnTime(rows, list, k - 1)
  BY <1>1 DEF RowsSound
<1> HIDE DEF d, c
<1>6. N \in Nat /\ N <= NopsFor(d) /\ NopsFor(d) \in Nat
  BY <1>3, NumSlicesFits
<1>7. /\ v \in Seq(HwRows) /\ Len(v) = N + 1
      /\ \A i \in 1 .. N + 1 : /\ v[i].delta_cycle = Slices(d)[i]
                               /\ v[i].cmd = IF i = 1 THEN c.cmd ELSE NOP
  BY <1>2, <1>3, RowsOfTyped
<1> HIDE DEF v
<1>8. TimesOf(v)[Len(v)] = d
  BY <1>3, <1>7, SlicesAddUp
<1>9. w \in Seq(HwRows) /\ Len(w) = Len(rows) + Len(v) /\ Len(rows) \in Nat
  <2>1. Len(rows) \in Nat
    BY <1>5
  <2>2. rows \o v \in Seq(HwRows) /\ Len(rows \o v) = Len(rows) + Len(v)
    BY <1>5, <1>7, ConcatProperties
  <2> QED
    BY <2>1, <2>2
<1>10. TimesOf(w)[Len(w)] = list[k + 1].abs_cycle
  <2>1. Len(v) \in 0 .. Len(v)
    BY <1>6, <1>7
  <2>2. TimesOf(w)[Len(rows) + Len(v)] = TimesOf(rows)[Len(rows)] + TimesOf(v)[Len(v)]
    BY <1>5, <1>7, <2>1, TimesOfConcat
  <2> QED
    BY <1>3, <1>5, <1>8, <1>9, <2>2
<1>11. OnTime(w, list, k)
  <2>1. v[1].cmd = c.cmd /\ Len(v) >= 1 /\ \A i \in 2 .. Len(v) : v[i].cmd = NOP
    <3>1. 1 \in 1 .. N + 1 /\ \A i \in 2 .. N + 1 : i \in 1 .. N + 1 /\ i # 1
      BY <1>6
    <3> QED
      BY <1>6, <1>7, <3>1
  <2>2. /\ TimesOf(rows)[Len(rows)] = list[(k - 1) + 1].abs_cycle
        /\ v[1].cmd = list[(k - 1) + 1].cmd
    BY <1>1, <1>5, <2>1 DEF c
  <2>3. OnTime(rows \o v, list, (k - 1) + 1)
    BY <1>1, <1>5, <1>7, <2>1, <2>2, OnTimeStep
  <2> QED
    BY <1>1, <2>3
<1>12. Len(w) <= NopsUpTo(list)[k + 1] + k + First(list)
  <2>1. PICK a \in Nat, b \in Nat, x \in Nat, y \in Nat :
          a = NopsUpTo(list)[k] /\ b = First(list) /\ x = Len(rows) /\ y = NopsFor(d)
    BY <1>4, <1>6, <1>9 DEF First
  <2>2. x <= a + (k - 1) + b
    BY <1>5, <2>1
  <2>3. Len(w) = x + (N + 1) /\ NopsUpTo(list)[k + 1] = a + y /\ N <= y
    BY <1>4, <1>6, <1>7, <1>9, <2>1
  <2>4. PICK i \in Nat, j \in Nat : i = k /\ j = N
    BY <1>1, <1>6
  <2>5. x <= (a + (i - 1)) + b /\ j <= y
    BY <2>2, <2>3, <2>4
  <2>6. x + (j + 1) <= ((a + y) + i) + b
    BY <2>5
  <2> QED
    BY <2>1, <2>3, <2>4, <2>6
<1> QED
  BY <1>9, <1>10, <1>11, <1>12 DEF RowsSound, w, v, c, d

\* So are all that write_fsc_schedules_to_HW() writes before the row of the last command.
LEMMA RowsUpToSound ==
  ASSUME NEW list \in SortedLists, Apart(list), list # << >>
  PROVE  \A k \in 0 .. Len(list) - 1 : RowsSound(RowsUpTo(list)[k], list, k)
<1> DEFINE n == Len(list) - 1
           F == RowsUpTo(list)
           lead == Lead(list[1].abs_cycle)
           of(k) == RowsOf(list[k], Distance(list, k + 1))
           S == Seq(HwRows)
           step == [k \in 1 .. n |-> [x \in S |-> x \o of(k)]]
<1>1. n \in Nat
  <2>1. Len(list) # 0 /\ Len(list) \in Nat /\ list \in Seq(SysfsItems)
    BY ListTyped
  <2> QED
    BY <2>1
<1>2. RowsSound(lead, list, 0) /\ lead \in S
  BY LeadSound DEF RowsSound
<1>3. \A k \in 1 .. n : of(k) \in S
  <2> TAKE k \in 1 .. n
  <2>1. k \in 1 .. Len(list) /\ k + 1 \in 1 .. Len(list) /\ k + 1 # 1
    BY ListTyped
  <2>2. list[k] \in SysfsItems /\ Distance(list, k + 1) \in Nat /\ Distance(list, k + 1) >= ANZ_MIN_TICKS
    BY <2>1, ListTyped, DistancesApart
  <2> QED
    BY <2>2, RowsOfTyped
<1> HIDE DEF n, lead, of
<1>4. step \in [1 .. n -> [S -> S]]
  <2>1. ASSUME NEW k \in 1 .. n, NEW x \in S
        PROVE  x \o of(k) \in S
    BY <1>3, ConcatProperties
  <2> QED
    BY <2>1
<1>5. PICK f : f = [k \in 0 .. n |-> IF k = 0 THEN lead ELSE f[k - 1] \o of(k)]
  <2>1. PICK f \in [0 .. n -> S] : f[0] = lead /\ \A k \in 1 .. n : f[k] = step[k][f[k - 1]]
    <3> HIDE DEF step, S
    <3>1. Loops(n, S, lead, step) # {}
      BY <1>1, <1>2, <1>4, StepsExist
    <3> QED
      BY <3>1 DEF Loops
  <2>2. \A k \in 1 .. n : step[k][f[k - 1]] = f[k - 1] \o of(k)
    <3> TAKE k \in 1 .. n
    <3>1. k - 1 \in 0 .. n /\ f[k - 1] \in S
      BY <1>1, <2>1
    <3> HIDE DEF S
    <3> QED
      BY <3>1
  <2> HIDE DEF step
  <2>3. \A k \in 0 .. n : f[k] = IF k = 0 THEN lead ELSE f[k - 1] \o of(k)
    <3> TAKE k \in 0 .. n
    <3>1. CASE k = 0
      BY <2>1, <3>1
    <3>2. CASE k # 0
      <4>1. k \in 1 .. n
        BY <1>1, <3>2
      <4> QED
        BY <2>1, <2>2, <3>2, <4>1
    <3> QED
      BY <3>1, <3>2
  <2>4. f = [k \in 0 .. n |-> IF k = 0 THEN lead ELSE f[k - 1] \o of(k)]
    BY <2>1, <2>3
  <2> QED
    BY <2>4
<1>6. F = [k \in 0 .. n |-> IF k = 0 THEN lead ELSE F[k - 1] \o of(k)]
  <2>1. F = CHOOSE g : g = [k \in 0 .. n |-> IF k = 0 THEN lead ELSE g[k - 1] \o of(k)]
    BY DEF RowsUpTo, n, lead, of
  <2> HIDE DEF F
  <2>2. \E g : g = [k \in 0 .. n |-> IF k = 0 THEN lead ELSE g[k - 1] \o of(k)]
    BY <1>5, Zenon
  <2> QED
    BY <2>1, <2>2, Zenon
<1> DEFINE P == { k \in 0 .. n : RowsSound(F[k], list, k) }
<1> HIDE DEF F
<1>7. P \in SUBSET Nat /\ 0 \in P
  <2>1. 0 \in 0 .. n
    BY <1>1
  <2>2. F[0] = lead
    BY <1>6, <2>1
  <2> QED
    BY <1>1, <1>2, <2>1, <2>2
<1>8. ASSUME NEW k \in 1 .. n, k - 1 \in P
      PROVE  k \in P
  <2>1. k \in 0 .. n /\ k # 0 /\ RowsSound(F[k - 1], list, k - 1)
    BY <1>1, <1>8
  <2>2. F[k] = F[k - 1] \o of(k)
    BY <1>6, <2>1
  <2>3. RowsSound(F[k - 1] \o of(k), list, k)
    BY <2>1, RowsSoundStep DEF of, n
  <2> QED
    BY <2>1, <2>2, <2>3
<1>9. 0 .. n \subseteq P
  <2> HIDE DEF P
  <2> QED
    BY <1>1, <1>7, <1>8, StepsInduction
<1> QED
  BY <1>9 DEF F, n

\* All rows of a list that passed validation fit the table, have distances the hardware
\* can do and hold every command at its time.
LEMMA RowsAreSound ==
  ASSUME NEW list \in SortedLists, Apart(list), EventsValid(list)
  PROVE  /\ Rows(list) \in Seq(HwRows) /\ Len(Rows(list)) <= MAX_EVENTS
         /\ OnTime(Rows(list), list, Len(list))
<1>1. CASE list = << >>
  <2>1. Rows(list) = << >> /\ Len(list) = 0
    BY <1>1 DEF Rows
  <2>2. CommandRows(<< >>) = {}
    BY DEF CommandRows
  <2>3. OnTime(<< >>, list, 0)
    BY <2>2, FS_EmptySet DEF OnTime
  <2> QED
    BY <2>1, <2>3, RowAssumption
<1>2. CASE list # << >>
  <2> DEFINE n == Len(list)
             u == RowsUpTo(list)[n - 1]
             x == Row(list[n].cmd, ANZ_MIN_TICKS)
             v == << x >>
  <2>1. n \in Nat /\ n # 0 /\ n \in 1 .. n /\ n - 1 \in 0 .. n - 1 /\ (n - 1) + 1 = n /\ n \in 0 .. n
    <3>1. list \in Seq(SysfsItems) /\ Len(list) \in Nat
      BY ListTyped
    <3>2. Len(list) # 0
      BY <1>2, <3>1
    <3> QED
      BY <3>1, <3>2
  <2>2. RowsSound(u, list, n - 1)
    BY <1>2, <2>1, RowsUpToSound
  <2>3. /\ u \in Seq(HwRows) /\ Len(u) <= NumNops(list) + (n - 1) + First(list)
        /\ TimesOf(u)[Len(u)] = list[(n - 1) + 1].abs_cycle /\ OnTime(u, list, n - 1)
    BY <2>1, <2>2 DEF RowsSound, NumNops
  <2>4. Rows(list) = Append(u, x)
    BY <1>2 DEF Rows
  <2>5. list[n].cmd \in {SEND, OPEN, CLOSE}
    BY <2>1, ListTyped DEF SysfsItems
  <2>6. ANZ_MIN_TICKS \in ANZ_MIN_TICKS .. UINT16_T_MAX
    BY RowAssumption, TickAssumption
  <2>7. x \in HwRows /\ x.cmd = list[n].cmd
    BY <2>5, <2>6 DEF Row, HwRows
  <2> HIDE DEF u, x
  <2>8. v \in Seq(HwRows) /\ Len(v) = 1 /\ v[1] = x
    BY <2>7
  <2>9. Append(u, x) = u \o v
    BY <2>3, <2>7, AppendIsConcat
  <2> HIDE DEF v
  <2>10. OnTime(u \o v, list, n)
    <3>1. Len(v) >= 1 /\ v[1].cmd = list[(n - 1) + 1].cmd /\ \A i \in 2 .. Len(v) : v[i].cmd = NOP
      BY <2>1, <2>7, <2>8
    <3>2. OnTime(u \o v, list, (n - 1) + 1)
      BY <2>1, <2>3, <2>8, <3>1, OnTimeStep
    <3> QED
      BY <2>1, <3>2
  <2>11. Rows(list) \in Seq(HwRows) /\ Len(Rows(list)) = Len(u) + 1 /\ Len(u) \in Nat
    BY <2>3, <2>4, <2>7
  <2>12. Len(u) + 1 <= MAX_EVENTS
    <3>1. NumNops(list) \in Nat
      BY <2>1, NopsUpToValues DEF NumNops
    <3>2. PICK a \in Nat, b \in Nat, m \in Nat :
            a = NumNops(list) /\ b = First(list) /\ m = Len(u)
      BY <2>11, <3>1 DEF First
    <3>3. n + a <= MAX_EVENTS - b
      <4>1. n + NumNops(list) <= IF list[1].abs_cycle = 0 THEN MAX_EVENTS ELSE MAX_EVENTS - 1
        BY <1>2 DEF EventsValid
      <4> QED
        BY <3>2, <4>1, RowAssumption DEF First
    <3>4. m <= a + (n - 1) + b
      BY <2>3, <3>2
    <3>5. MAX_EVENTS \in Nat
      BY RowAssumption
    <3>6. m + 1 <= MAX_EVENTS
      <4> HIDE DEF n
      <4> QED
        BY <2>1, <3>3, <3>4, <3>5
    <3> QED
      BY <3>2, <3>6
  <2> QED
    BY <2>4, <2>9, <2>10, <2>11, <2>12
<1> QED
  BY <1>1, <1>2

\* The rows that are written never need more rows than the table has, although
\* validation counts them by another formula (calc_nop_schedules_for_long_cycles())
\* than write_fsc_schedules_to_HW() makes them, for every size of table and word; and
\* no row has a distance that the hardware cannot do or that its word cannot hold.
THEOREM RowsAlwaysFit == Spec => []RowsFit
<1>1. FscInv => RowsFit
  <2> SUFFICES ASSUME FscInv PROVE RowsFit
    OBVIOUS
  <2>1. table \in Seq(HwRows)
    BY RowsAreSound DEF FscInv
  <2>2. \A i \in DOMAIN table : table[i] \in HwRows
    BY <2>1
  <2> QED
    BY <2>2, RowsAreSound DEF FscInv, RowsFit, HwRows
<1> QED
  BY <1>1, InvariantHolds, PTL

\* The distances of the rows add up: the row of every command starts at its time,
\* whatever long distances were divided, and the commands keep their order.
THEOREM RowsAreOnTime == Spec => []RowsOnTime
<1>1. FscInv => RowsOnTime
  <2> SUFFICES ASSUME FscInv PROVE RowsOnTime
    OBVIOUS
  <2>1. OnTime(table, written, Len(written))
    BY RowsAreSound DEF FscInv
  <2> QED
    BY <2>1 DEF OnTime, RowsOnTime, CommandRows, NumberOf
<1> QED
  BY <1>1, InvariantHolds, PTL

-----------------------------------------------------------------------------
(* The commands of an entry *)

Cmds(list) == { list[i] : i \in DOMAIN list }

\* Inserting a command adds it, and takes nothing away.
LEMMA InsertSortedCmds ==
  ASSUME NEW list \in SortedLists, NEW c \in SysfsItems
  PROVE  /\ Cmds(InsertSorted(list, c)) = Cmds(list) \cup {c}
         /\ Len(InsertSorted(list, c)) = Len(list) + 1
<1> DEFINE later == { i \in DOMAIN list : list[i].abs_cycle > c.abs_cycle }
           n == Len(list)
           new == InsertSorted(list, c)
<1>1. list \in Seq(SysfsItems) /\ n \in Nat /\ DOMAIN list = 1 .. n
  BY ListTyped
<1>2. Cmds(list) = { list[i] : i \in 1 .. n }
  BY <1>1 DEF Cmds
<1>3. CASE later = {}
  <2>1. new = Append(list, c)
    BY <1>3 DEF InsertSorted
  <2>2. /\ Len(new) = n + 1 /\ DOMAIN new = 1 .. n + 1 /\ new[n + 1] = c
        /\ \A i \in 1 .. n : new[i] = list[i]
    BY <1>1, <2>1
  <2> HIDE DEF new, n, later
  <2>3. Cmds(new) = { new[i] : i \in 1 .. n + 1 }
    BY <2>2 DEF Cmds
  <2>4. 1 .. n + 1 = (1 .. n) \cup {n + 1}
    BY <1>1
  <2>5. { new[i] : i \in 1 .. n + 1 } = { list[i] : i \in 1 .. n } \cup {c}
    BY <2>2, <2>4
  <2> QED
    BY <1>2, <2>2, <2>3, <2>5 DEF new, n
<1>4. CASE later # {}
  <2> DEFINE p == Min(later)
  <2>1. later \in SUBSET Nat
    BY <1>1
  <2>2. p \in 1 .. n
    <3>1. p \in later
      <4> HIDE DEF later
      <4> QED
        BY <1>4, <2>1, MinIsLeast
    <3> QED
      BY <1>1, <3>1
  <2>3. new = InsertAt(list, p, c)
    BY <1>4 DEF InsertSorted
  <2> HIDE DEF later, p, new
  <2>4. /\ new \in Seq(SysfsItems) /\ Len(new) = n + 1
        /\ \A i \in 1 .. n + 1 : new[i] = IF i < p THEN list[i] ELSE IF i = p THEN c ELSE list[i - 1]
    <3> DEFINE with == InsertAt(list, p, c)
    <3>1. /\ with \in Seq(SysfsItems) /\ Len(with) = n + 1
          /\ \A i \in 1 .. n + 1 :
               with[i] = IF i < p THEN list[i] ELSE IF i = p THEN c ELSE list[i - 1]
      <4>1. list \in Seq(SysfsItems) /\ p \in 1 .. Len(list)
        BY <1>1, <2>2
      <4> QED
        BY <4>1, InsertAtValues
    <3> QED
      BY <2>3, <3>1, Zenon
  <2>5. DOMAIN new = 1 .. n + 1
    BY <2>4
  <2> HIDE DEF n
  <2>6. Cmds(new) = { new[i] : i \in 1 .. n + 1 }
    BY <2>5 DEF Cmds
  <2>7. ASSUME NEW i \in 1 .. n + 1
        PROVE  new[i] \in { list[j] : j \in 1 .. n } \cup {c}
    <3>1. CASE i < p
      <4>1. i \in 1 .. n /\ new[i] = list[i]
        BY <1>1, <2>2, <2>4, <3>1
      <4> QED
        BY <4>1
    <3>2. CASE i = p
      BY <2>4, <3>2
    <3>3. CASE i > p
      <4>1. i - 1 \in 1 .. n /\ new[i] = list[i - 1]
        BY <1>1, <2>2, <2>4, <3>3
      <4> QED
        BY <4>1
    <3> QED
      BY <1>1, <2>2, <3>1, <3>2, <3>3
  <2>8. ASSUME NEW j \in 1 .. n
        PROVE  \E i \in 1 .. n + 1 : new[i] = list[j]
    <3>1. CASE j < p
      <4>1. j \in 1 .. n + 1 /\ new[j] = list[j]
        BY <1>1, <2>2, <2>4, <3>1
      <4> QED
        BY <4>1
    <3>2. CASE j >= p
      <4>1. j + 1 \in 1 .. n + 1 /\ ~(j + 1 < p) /\ j + 1 # p /\ (j + 1) - 1 = j
        BY <1>1, <2>2, <3>2
      <4>2. new[j + 1] = list[j]
        BY <2>4, <4>1
      <4> QED
        BY <4>1, <4>2
    <3> QED
      BY <1>1, <2>2, <3>1, <3>2
  <2>9. \E i \in 1 .. n + 1 : new[i] = c
    <3>1. p \in 1 .. n + 1 /\ ~(p < p)
      BY <1>1, <2>2
    <3>2. new[p] = c
      BY <2>4, <3>1
    <3> QED
      BY <3>1, <3>2
  <2>10. { new[i] : i \in 1 .. n + 1 } = { list[j] : j \in 1 .. n } \cup {c}
    BY <2>7, <2>8, <2>9
  <2> QED
    BY <1>2, <2>4, <2>6, <2>10 DEF new, n
<1> QED
  BY <1>3, <1>4

\* The list with all commands of an entry has those it had before, and these.
LEMMA InsertAllCmds ==
  ASSUME NEW list \in SortedLists, NEW cs \in Seq(SysfsItems)
  PROVE  /\ Cmds(InsertAll(list, cs)) = Cmds(list) \cup Cmds(cs)
         /\ Len(InsertAll(list, cs)) = Len(list) + Len(cs)
<1> DEFINE n == Len(cs)
           F == InsertedUpTo(list, cs)
           first(k) == { cs[i] : i \in 1 .. k }
           Has(k) == /\ F[k] \in SortedLists /\ Len(F[k]) = Len(list) + k
                     /\ Cmds(F[k]) = Cmds(list) \cup first(k)
           P == { k \in 0 .. n : Has(k) }
<1>1. n \in Nat /\ DOMAIN cs = 1 .. n /\ \A k \in 1 .. n : cs[k] \in SysfsItems
  OBVIOUS
<1>2. F = [k \in 0 .. n |-> IF k = 0 THEN list ELSE InsertSorted(F[k - 1], cs[k])]
  BY InsertedUpToValues
<1>3. Len(list) \in Nat
  BY ListTyped
<1> HIDE DEF F, n
<1>4. 0 \in P
  <2>1. F[0] = list
    BY <1>1, <1>2
  <2>2. first(0) = {}
    OBVIOUS
  <2> HIDE DEF first
  <2> QED
    BY <1>1, <1>3, <2>1, <2>2
<1>5. ASSUME NEW k \in 1 .. n, k - 1 \in P
      PROVE  k \in P
  <2>1. k \in 0 .. n /\ k # 0 /\ Has(k - 1) /\ k \in Nat
    BY <1>1, <1>5
  <2>2. F[k] = InsertSorted(F[k - 1], cs[k])
    BY <1>2, <2>1
  <2>3. cs[k] \in SysfsItems
    BY <1>1
  <2>4. /\ F[k] \in SortedLists
        /\ Cmds(F[k]) = Cmds(F[k - 1]) \cup {cs[k]} /\ Len(F[k]) = Len(F[k - 1]) + 1
    <3> HIDE DEF first
    <3> QED
      BY <2>1, <2>2, <2>3, InsertSortedSorted, InsertSortedCmds
  <2>5. first(k) = first(k - 1) \cup {cs[k]}
    <3>1. 1 .. k = (1 .. k - 1) \cup {k}
      BY <2>1
    <3> QED
      BY <3>1
  <2> HIDE DEF first
  <2>6. Cmds(F[k]) = Cmds(list) \cup first(k)
    BY <2>1, <2>4, <2>5, Zenon
  <2>7. Len(F[k]) = Len(list) + k
    BY <1>3, <2>1, <2>4
  <2>8. Has(k)
    BY <2>4, <2>6, <2>7
  <2> HIDE DEF Has
  <2> QED
    BY <2>1, <2>8
<1>6. n \in P
  <2>1. P \in SUBSET Nat
    BY <1>1
  <2> HIDE DEF P
  <2>2. 0 .. n \subseteq P
    BY <1>1, <1>4, <1>5, <2>1, StepsInduction
  <2> QED
    BY <1>1, <2>2
<1>7. first(n) = Cmds(cs)
  BY <1>1 DEF Cmds
<1>8. Has(n)
  <2> HIDE DEF Has
  <2> QED
    BY <1>6
<1> HIDE DEF first
<1> QED
  BY <1>7, <1>8 DEF InsertAll, F, n

\* When those of a stream are taken out, exactly the other ones remain.
LEMMA RemoveAllCmds ==
  ASSUME NEW list \in SortedLists, NEW s
  PROVE  Cmds(RemoveAll(list, s)) = { c \in Cmds(list) : c.schedule_reference.stream # s }
<1> DEFINE n == Len(list)
           F == KeptUpTo(list, s)
           out(k) == list[k].schedule_reference.stream = s
           first(k) == { list[i] : i \in { j \in 1 .. k : ~out(j) } }
           Has(k) == F[k] \in Seq(SysfsItems) /\ Cmds(F[k]) = first(k)
           P == { k \in 0 .. n : Has(k) }
<1>1. n \in Nat /\ DOMAIN list = 1 .. n /\ \A k \in 1 .. n : list[k] \in SysfsItems
  BY ListTyped
<1>2. F = [k \in 0 .. n |-> IF k = 0 THEN << >> ELSE IF out(k) THEN F[k - 1]
                            ELSE Append(F[k - 1], list[k])]
  BY KeptUpToValues
<1> HIDE DEF F, n, out
<1>3. 0 \in P
  <2>1. F[0] = << >>
    BY <1>1, <1>2
  <2>2. first(0) = {}
    OBVIOUS
  <2>3. Cmds(<< >>) = {} /\ << >> \in Seq(SysfsItems)
    BY DEF Cmds
  <2> HIDE DEF first
  <2>4. Has(0)
    BY <2>1, <2>2, <2>3
  <2> HIDE DEF Has
  <2> QED
    BY <1>1, <2>4
<1>4. ASSUME NEW k \in 1 .. n, k - 1 \in P
      PROVE  k \in P
  <2>1. k \in 0 .. n /\ k # 0 /\ Has(k - 1) /\ k \in Nat
    BY <1>1, <1>4
  <2>2. F[k] = IF out(k) THEN F[k - 1] ELSE Append(F[k - 1], list[k])
    BY <1>2, <2>1
  <2>3. list[k] \in SysfsItems
    BY <1>1
  <2>4. 1 .. k = (1 .. k - 1) \cup {k}
    BY <2>1
  <2>5. CASE out(k)
    <3>1. { j \in 1 .. k : ~out(j) } = { j \in 1 .. k - 1 : ~out(j) }
      BY <2>4, <2>5
    <3>2. first(k) = first(k - 1)
      BY <3>1
    <3> HIDE DEF first
    <3>3. Has(k)
      BY <2>1, <2>2, <2>5, <3>2
    <3> QED
      BY <2>1, <3>3
  <2>6. CASE ~out(k)
    <3>1. { j \in 1 .. k : ~out(j) } = { j \in 1 .. k - 1 : ~out(j) } \cup {k}
      BY <2>4, <2>6
    <3>2. first(k) = first(k - 1) \cup {list[k]}
      BY <3>1
    <3> DEFINE kept == F[k - 1]
               new == Append(kept, list[k])
               m == Len(kept)
    <3> HIDE DEF first
    <3>3. kept \in Seq(SysfsItems) /\ Cmds(kept) = first(k - 1) /\ F[k] = new
      BY <2>1, <2>2, <2>6
    <3> HIDE DEF kept
    <3>4. m \in Nat /\ DOMAIN kept = 1 .. m
      BY <3>3
    <3>5. /\ new \in Seq(SysfsItems) /\ DOMAIN new = 1 .. m + 1 /\ new[m + 1] = list[k]
          /\ \A i \in 1 .. m : new[i] = kept[i]
      BY <2>3, <3>3, <3>4
    <3> HIDE DEF new, m
    <3>6. 1 .. m + 1 = (1 .. m) \cup {m + 1}
      BY <3>4
    <3>7. Cmds(new) = Cmds(kept) \cup {list[k]}
      BY <3>4, <3>5, <3>6 DEF Cmds
    <3>8. Has(k)
      BY <3>2, <3>3, <3>5, <3>7
    <3> HIDE DEF Has
    <3> QED
      BY <2>1, <3>8
  <2> QED
    BY <2>5, <2>6
<1>5. n \in P
  <2>1. P \in SUBSET Nat
    BY <1>1
  <2> HIDE DEF P
  <2>2. 0 .. n \subseteq P
    BY <1>1, <1>3, <1>4, <2>1, StepsInduction
  <2> QED
    BY <1>1, <2>2
<1>6. first(n) = { c \in Cmds(list) : c.schedule_reference.stream # s }
  BY <1>1 DEF Cmds, out
<1>7. Has(n)
  <2> HIDE DEF Has
  <2> QED
    BY <1>5
<1> HIDE DEF first
<1> QED
  BY <1>6, <1>7 DEF RemoveAll, F, n

\* There are n numbers up to n.
LEMMA UpToCounted ==
  ASSUME NEW n \in Nat
  PROVE  IsFiniteSet(1 .. n) /\ Cardinality(1 .. n) = n
<1>1. IsFiniteSet(1 .. n) /\ Cardinality(1 .. n) = IF 1 > n THEN 0 ELSE n - 1 + 1
  BY FS_Interval
<1> QED
  BY <1>1

\* The commands of a list that are apart have different times.
LEMMA ApartDiffer ==
  ASSUME NEW list \in SortedLists, Apart(list)
  PROVE  \A i, j \in DOMAIN list : list[i] = list[j] => i = j
<1>1. /\ DOMAIN list = 1 .. Len(list) /\ Len(list) \in Nat
      /\ \A k \in 1 .. Len(list) : list[k].abs_cycle \in Nat
      /\ \A i, j \in 1 .. Len(list) : i <= j => list[i].abs_cycle <= list[j].abs_cycle
  BY ListTyped
<1>2. ASSUME NEW i \in 1 .. Len(list), NEW j \in 1 .. Len(list), i < j
      PROVE  list[i] # list[j]
  <2>1. j - 1 \in 1 .. Len(list) /\ i <= j - 1 /\ j # 1
    BY <1>1, <1>2
  <2>2. list[i].abs_cycle <= list[j - 1].abs_cycle
    BY <1>1, <2>1
  <2>3. Distance(list, j) >= ANZ_MIN_TICKS
    BY <1>1, <2>1 DEF Apart
  <2>4. Distance(list, j) = list[j].abs_cycle - list[j - 1].abs_cycle
    BY <2>1 DEF Distance
  <2>5. PICK a, b, d \in Nat :
          a = list[i].abs_cycle /\ b = list[j - 1].abs_cycle /\ d = list[j].abs_cycle
    BY <1>1, <2>1
  <2>6. a <= b
    BY <2>2, <2>5
  <2>7. d - b >= ANZ_MIN_TICKS
    BY <2>3, <2>4, <2>5
  <2>8. a < d
    BY <2>6, <2>7, TickAssumption
  <2> QED
    BY <2>5, <2>8
<1>3. ASSUME NEW i \in 1 .. Len(list), NEW j \in 1 .. Len(list), list[i] = list[j]
      PROVE  i = j
  <2>1. ~(i < j)
    BY <1>2, <1>3
  <2>2. ~(j < i)
    BY <1>2, <1>3
  <2> QED
    BY <1>1, <2>1, <2>2
<1> QED
  BY <1>1, <1>3

\* The commands of an entry, and of all entries.
CommandsIn(list, e) == { c \in Cmds(list) : c.schedule_reference = e }

\* There are as many of them as places in the list.
LEMMA PlacesCounted ==
  ASSUME NEW list \in SortedLists, Apart(list), NEW D \in SUBSET DOMAIN list
  PROVE  /\ IsFiniteSet({ list[i] : i \in D })
         /\ Cardinality({ list[i] : i \in D }) = Cardinality(D)
<1> DEFINE T == { list[i] : i \in D }
           f == [i \in D |-> list[i]]
<1>1. DOMAIN list = 1 .. Len(list) /\ Len(list) \in Nat
  BY ListTyped
<1>2. IsFiniteSet(D)
  <2>1. IsFiniteSet(DOMAIN list)
    BY <1>1, FS_Interval
  <2> QED
    BY <2>1, FS_Subset
<1>3. f \in Surjection(D, T) /\ f \in Injection(D, T)
  <2>1. f \in [D -> T] /\ \A t \in T : \E i \in D : f[i] = t
    OBVIOUS
  <2>2. \A i, j \in D : f[i] = f[j] => i = j
    BY ApartDiffer
  <2> HIDE DEF f, T
  <2>3. f \in Surjection(D, T)
    BY <2>1, Zenon DEF Surjection
  <2>4. f \in Injection(D, T)
    <3>1. IsInjective(f)
      <4>1. DOMAIN f = D
        BY <2>1
      <4> QED
        BY <2>2, <4>1, Zenon DEF IsInjective
    <3> QED
      BY <2>1, <3>1, Zenon DEF Injection
  <2> QED
    BY <2>3, <2>4
<1> HIDE DEF f, T
<1>4. IsFiniteSet(T) /\ Cardinality(T) = Cardinality(D)
  BY <1>2, <1>3, FS_Surjection
<1> QED
  BY <1>4 DEF T

\* So the places of the commands of an entry count its commands.
LEMMA EntryCounted ==
  ASSUME NEW list \in SortedLists, Apart(list), NEW e
  PROVE  Cardinality({ i \in DOMAIN list : list[i].schedule_reference = e }) =
           Cardinality(CommandsIn(list, e))
<1> DEFINE D == { i \in DOMAIN list : list[i].schedule_reference = e }
<1>1. { list[i] : i \in D } = CommandsIn(list, e)
  BY DEF CommandsIn, Cmds
<1>2. D \in SUBSET DOMAIN list
  OBVIOUS
<1> HIDE DEF D
<1>3. Cardinality(D) = Cardinality(CommandsIn(list, e))
  BY <1>1, <1>2, PlacesCounted
<1> QED
  BY <1>3 DEF D

\* And the length of the list counts all commands.
LEMMA ListCounted ==
  ASSUME NEW list \in SortedLists, Apart(list)
  PROVE  IsFiniteSet(Cmds(list)) /\ Cardinality(Cmds(list)) = Len(list)
<1>1. DOMAIN list = 1 .. Len(list) /\ Len(list) \in Nat
  BY ListTyped
<1>2. Cardinality(DOMAIN list) = Len(list)
  <2>1. Cardinality(1 .. Len(list)) = Len(list)
    BY <1>1, UpToCounted
  <2> QED
    BY <1>1, <2>1
<1>3. DOMAIN list \in SUBSET DOMAIN list
  OBVIOUS
<1>4. IsFiniteSet(Cmds(list)) /\ Cardinality(Cmds(list)) = Cardinality(DOMAIN list)
  BY <1>3, PlacesCounted DEF Cmds
<1> QED
  BY <1>2, <1>4

\* When the list with the commands of an entry is apart, none of them was in the
\* list before, and all of them differ.
LEMMA AddedOnce ==
  ASSUME NEW list \in SortedLists, Apart(list), NEW cs \in Seq(SysfsItems),
         Apart(InsertAll(list, cs))
  PROVE  /\ Cmds(list) \cap Cmds(cs) = {}
         /\ Cardinality(Cmds(cs)) = Len(cs)
<1> DEFINE new == InsertAll(list, cs)
           A == Cmds(list)
           B == Cmds(cs)
<1>1. new \in SortedLists
  BY InsertAllSorted
<1>2. Cmds(new) = A \cup B /\ Len(new) = Len(list) + Len(cs)
  BY InsertAllCmds
<1>3. Cardinality(Cmds(new)) = Len(new)
  BY <1>1, ListCounted
<1>4. IsFiniteSet(A) /\ Cardinality(A) = Len(list)
  BY ListCounted
<1>5. IsFiniteSet(B) /\ Cardinality(B) <= Len(cs)
  <2> DEFINE D == DOMAIN cs
             f == [i \in D |-> cs[i]]
  <2>1. D = 1 .. Len(cs) /\ Len(cs) \in Nat
    OBVIOUS
  <2>2. IsFiniteSet(D) /\ Cardinality(D) = Len(cs)
    <3>1. IsFiniteSet(1 .. Len(cs)) /\ Cardinality(1 .. Len(cs)) = Len(cs)
      BY <2>1, UpToCounted
    <3> HIDE DEF D
    <3> QED
      BY <2>1, <3>1
  <2>3. f \in Surjection(D, B)
    <3>1. f \in [D -> B] /\ \A t \in B : \E i \in D : f[i] = t
      BY DEF Cmds
    <3> HIDE DEF f, B, D
    <3> QED
      BY <3>1, Zenon DEF Surjection
  <2> HIDE DEF f, B, D
  <2> QED
    BY <2>2, <2>3, FS_Surjection
<1>6. Len(list) \in Nat /\ Len(cs) \in Nat
  BY ListTyped
<1> HIDE DEF new, A, B
<1>7. Cardinality(A \cup B) = Cardinality(A) + Cardinality(B) - Cardinality(A \cap B)
  BY <1>4, <1>5, FS_Union
<1>8. IsFiniteSet(A \cap B)
  BY <1>4, FS_Intersection
<1>9. Cardinality(B) \in Nat /\ Cardinality(A \cap B) \in Nat
  BY <1>5, <1>8, FS_CardinalityType
<1>10. Cardinality(A \cap B) = 0 /\ Cardinality(B) = Len(cs)
  BY <1>2, <1>3, <1>4, <1>5, <1>6, <1>7, <1>9
<1>11. A \cap B = {}
  BY <1>8, <1>10, FS_EmptySet
<1> QED
  BY <1>10, <1>11 DEF A, B

-----------------------------------------------------------------------------
(* Every entry has its commands *)

\* How many commands an entry has for a period.
Kinds(e) == IF e.stream \in Events THEN 1 ELSE 2

\* The command for its first period, in the cycle it was made for.
FirstCommand(e) ==
  IF e.stream \in Events
  THEN Command(SEND, DivRoundClosest(e.start + Skipped(e) * e.period - EgressDelay), e)
  ELSE LET abs == (e.start + OpenDelay) \div TICK
           last == e.made_for \div TICK
       IN  Command(OPEN, IF abs >= last THEN abs - last ELSE abs, e)

\* Every command is of an entry that was added, and an entry has all its commands,
\* among them the first one: an entry that is added again would have the same first
\* command, which would not be apart from the one in the list.
Complete(list, entries) ==
  /\ \A c \in Cmds(list) : c.schedule_reference \in entries
  /\ \A e \in entries :
       /\ Cardinality(CommandsIn(list, e)) = (e.made_for \div e.period) * Kinds(e)
       /\ FirstCommand(e) \in Cmds(list)

EntriesInv == Complete(fsc_list, schedules)

\* What is known of an entry that is added.
LEMMA EntryTyped ==
  ASSUME FscInv, NEW e \in EventEntries \cup WindowEntries
  PROVE  /\ e \in Entries /\ e.made_for = cycle_ns
         /\ e.period \in Nat \ {0} /\ e.start \in Nat /\ e.end \in Nat
         /\ e.start <= e.period /\ (e.stream \notin Events => e.end <= e.period)
         /\ cycle_ns \in Nat
<1>0. cycle_ns \in CycleTimes \cup {0} /\ cycle_ns \in Nat
  BY TimesAssumption DEF FscInv
<1>1. CASE e \in EventEntries
  <2>1. e \in [stream : Events, period : Periods, start : Times, end : {0}, made_for : {cycle_ns}]
    BY <1>1 DEF EventEntries
  <2>2. e.start <= e.period
    BY <1>1 DEF EventEntries
  <2>3. /\ e.stream \in Events /\ e.period \in Periods /\ e.start \in Times /\ e.end = 0
        /\ e.made_for = cycle_ns
    BY <2>1
  <2>4. e \in Entries
    BY <1>0, <2>1 DEF Entries
  <2>5. e.period \in Nat \ {0} /\ e.start \in Nat /\ e.end \in Nat
    <3>1. Periods \subseteq Nat \ {0} /\ Times \subseteq Nat
      BY TimesAssumption
    <3>2. e.period \in Nat \ {0} /\ e.start \in Nat
      BY <2>3, <3>1, Zenon
    <3>3. e.end \in Nat
      BY <2>3, <3>1
    <3> QED
      BY <3>2, <3>3
  <2> QED
    BY <1>0, <2>2, <2>3, <2>4, <2>5
<1>2. CASE e \in WindowEntries
  <2>1. e \in [stream : Windows, period : Periods, start : Times, end : Times, made_for : {cycle_ns}]
    BY <1>2 DEF WindowEntries
  <2>2. e.start <= e.period /\ e.end <= e.period
    BY <1>2 DEF WindowEntries
  <2>3. /\ e.period \in Periods /\ e.start \in Times /\ e.end \in Times
        /\ e.made_for = cycle_ns
    BY <2>1
  <2>4. e \in Entries
    BY <1>0, <2>1 DEF Entries
  <2>5. e.period \in Nat \ {0} /\ e.start \in Nat /\ e.end \in Nat
    <3>1. Periods \subseteq Nat \ {0} /\ Times \subseteq Nat
      BY TimesAssumption
    <3>2. e.period \in Nat \ {0} /\ e.start \in Nat
      BY <2>3, <3>1, Zenon
    <3>3. e.end \in Nat
      BY <2>3, <3>1
    <3> QED
      BY <3>2, <3>3
  <2> QED
    BY <1>0, <2>2, <2>3, <2>4, <2>5
<1> QED
  BY <1>1, <1>2

\* The commands of an entry refer to it, are as many as its periods ask for, and
\* the first is the first one.
LEMMA CommandsOfEntry ==
  ASSUME FscInv, NEW e \in EventEntries \cup WindowEntries, NumItems(e) >= 1
  PROVE  /\ Commands(e) \in Seq(SysfsItems)
         /\ Len(Commands(e)) = NumItems(e) * Kinds(e)
         /\ FirstCommand(e) \in Cmds(Commands(e))
         /\ \A c \in Cmds(Commands(e)) : c.schedule_reference = e
<1>1. /\ e.period \in Nat \ {0} /\ e.start \in Nat /\ e.made_for = cycle_ns /\ cycle_ns \in Nat
      /\ e \in Entries
  BY EntryTyped
<1>2. NumItems(e) \in Nat
  BY <1>1 DEF NumItems
<1>3. Commands(e) \in Seq(SysfsItems)
  BY CommandsTyped DEF FscInv
<1>4. CASE e.stream \in Events
  <2> DEFINE sent(i) == e.start + i * e.period - EgressDelay
             item(i) == Command(SEND, DivRoundClosest(sent(Skipped(e) + i - 1)), e)
  <2>1. Commands(e) = [i \in 1 .. NumItems(e) |-> item(i)]
    BY <1>4 DEF Commands, EventCommands
  <2>2. item(1) = FirstCommand(e)
    <3>1. Skipped(e) \in Nat
      BY <1>1, SkippedAreAll
    <3>2. Skipped(e) + 1 - 1 = Skipped(e)
      BY <3>1
    <3> QED
      BY <1>4, <3>2 DEF FirstCommand
  <2>3. \A i : item(i).schedule_reference = e
    BY DEF Command
  <2> HIDE DEF item
  <2>4. DOMAIN Commands(e) = 1 .. NumItems(e) /\ \A i \in 1 .. NumItems(e) : Commands(e)[i] = item(i)
    BY <2>1
  <2>5. Len(Commands(e)) = NumItems(e)
    BY <1>2, <1>3, <2>4
  <2>6. Kinds(e) = 1
    BY <1>4 DEF Kinds
  <2>7. 1 \in 1 .. NumItems(e)
    BY <1>2
  <2> QED
    BY <1>2, <1>3, <2>2, <2>3, <2>4, <2>5, <2>6, <2>7 DEF Cmds
<1>5. CASE e.stream \notin Events
  <2> DEFINE open(i) == WrapCycle((e.start + i * e.period + OpenDelay) \div TICK)
             close(i) == WrapCycle(DivRoundUp(e.end + i * e.period + CloseDelay))
             item(k) == IF k % 2 = 1 THEN Command(OPEN, open(k \div 2), e)
                        ELSE Command(CLOSE, close(k \div 2 - 1), e)
  <2>1. Commands(e) = [k \in 1 .. 2 * NumItems(e) |-> item(k)]
    BY <1>5 DEF Commands, WindowCommands
  <2>2. item(1) = FirstCommand(e)
    <3>1. 1 % 2 = 1 /\ 1 \div 2 = 0
      OBVIOUS
    <3>2. item(1) = Command(OPEN, open(0), e)
      BY <3>1
    <3>3. e.start + 0 * e.period + OpenDelay = e.start + OpenDelay
      BY <1>1, TimesAssumption
    <3>4. open(0) = WrapCycle((e.start + OpenDelay) \div TICK)
      BY <3>3
    <3> HIDE DEF item, open, close
    <3> QED
      BY <1>1, <1>5, <3>2, <3>4 DEF FirstCommand, WrapCycle
  <2>3. \A i : item(i).schedule_reference = e
    BY DEF Command
  <2> HIDE DEF item
  <2>4. /\ DOMAIN Commands(e) = 1 .. 2 * NumItems(e)
        /\ \A i \in 1 .. 2 * NumItems(e) : Commands(e)[i] = item(i)
    BY <2>1
  <2>5. Len(Commands(e)) = 2 * NumItems(e)
    BY <1>2, <1>3, <2>4
  <2>6. Kinds(e) = 2
    BY <1>5 DEF Kinds
  <2>7. 1 \in 1 .. 2 * NumItems(e)
    BY <1>2
  <2> QED
    BY <1>2, <1>3, <2>2, <2>3, <2>4, <2>5, <2>6, <2>7 DEF Cmds
<1> QED
  BY <1>4, <1>5

\* The module is without entries and commands at the start.
LEMMA InitEntriesInv ==
  ASSUME Init
  PROVE  EntriesInv
BY DEF Init, EntriesInv, Complete, Cmds

\* An entry is added with all its commands; it was not there before, and the
\* commands of the others stay.
LEMMA AddScheduleEntriesInv ==
  ASSUME FscInv, EntriesInv, NEW e \in EventEntries \cup WindowEntries, AddSchedule(e)
  PROVE  EntriesInv'
<1> DEFINE list == fsc_list
           cs == Commands(e)
           new == InsertAll(list, cs)
<1>1. fsc_list' = new /\ schedules' = schedules \cup {e}
  BY DEF AddSchedule
<1>2. PeriodsValid(schedules \cup {e}) /\ GapsValid(new)
  BY DEF AddSchedule, Valid
<1>3. /\ e \in Entries /\ e.period \in Nat \ {0} /\ cycle_ns \in Nat /\ e.made_for = cycle_ns
  BY EntryTyped
<1>4. NumItems(e) >= 1 /\ NumItems(e) \in Nat /\ NumItems(e) = e.made_for \div e.period
  <2>1. cycle_ns # 0 /\ cycle_ns % e.period = 0
    BY <1>2 DEF PeriodsValid
  <2> QED
    BY <1>3, <2>1 DEF NumItems
<1>5. /\ cs \in Seq(SysfsItems) /\ Len(cs) = NumItems(e) * Kinds(e)
      /\ FirstCommand(e) \in Cmds(cs)
      /\ \A c \in Cmds(cs) : c.schedule_reference = e
  BY <1>4, CommandsOfEntry
<1>6. list \in SortedLists /\ Apart(list)
  BY DEF FscInv
<1> HIDE DEF list, cs
<1>7. new \in SortedLists
  BY <1>5, <1>6, InsertAllSorted
<1>8. Apart(new)
  <2> HIDE DEF new
  <2> QED
    BY <1>2, <1>7, GapsApart
<1>9. Cmds(new) = Cmds(list) \cup Cmds(cs)
  BY <1>5, <1>6, InsertAllCmds
<1>10. Cmds(list) \cap Cmds(cs) = {} /\ Cardinality(Cmds(cs)) = Len(cs)
  BY <1>5, <1>6, <1>8, AddedOnce
<1> HIDE DEF new
<1>11. /\ \A c \in Cmds(list) : c.schedule_reference \in schedules
       /\ \A d \in schedules :
            /\ Cardinality(CommandsIn(list, d)) = (d.made_for \div d.period) * Kinds(d)
            /\ FirstCommand(d) \in Cmds(list)
  BY DEF EntriesInv, Complete, list
<1>12. e \notin schedules
  BY <1>5, <1>10, <1>11
<1>13. CommandsIn(new, e) = Cmds(cs)
  BY <1>5, <1>9, <1>11, <1>12 DEF CommandsIn
<1>14. ASSUME NEW d \in schedules
       PROVE  CommandsIn(new, d) = CommandsIn(list, d)
  BY <1>5, <1>9, <1>12 DEF CommandsIn
<1>15. \A c \in Cmds(new) : c.schedule_reference \in schedules \cup {e}
  BY <1>5, <1>9, <1>11
<1>16. ASSUME NEW d \in schedules \cup {e}
       PROVE  /\ Cardinality(CommandsIn(new, d)) = (d.made_for \div d.period) * Kinds(d)
              /\ FirstCommand(d) \in Cmds(new)
  <2>1. CASE d = e
    <3>1. Cardinality(CommandsIn(new, d)) = NumItems(e) * Kinds(e)
      BY <1>5, <1>10, <1>13, <2>1
    <3>2. FirstCommand(d) \in Cmds(new)
      BY <1>5, <1>9, <2>1
    <3> QED
      BY <1>4, <2>1, <3>1, <3>2
  <2>2. CASE d \in schedules
    <3>1. CommandsIn(new, d) = CommandsIn(list, d)
      BY <1>14, <2>2
    <3> QED
      BY <1>9, <1>11, <2>2, <3>1
  <2> QED
    BY <2>1, <2>2
<1>17. Complete(new, schedules \cup {e})
  BY <1>15, <1>16 DEF Complete
<1> QED
  BY <1>1, <1>17 DEF EntriesInv

\* The entries of a stream go with all their commands; those of the others stay.
LEMMA CleanScheduleEntriesInv ==
  ASSUME FscInv, EntriesInv, NEW s \in Events \cup Windows, CleanSchedule(s)
  PROVE  EntriesInv'
<1> DEFINE list == fsc_list
           new == RemoveAll(list, s)
           stay == { e \in schedules : e.stream # s }
<1>1. fsc_list' = new /\ schedules' = stay
  BY DEF CleanSchedule
<1>2. list \in SortedLists
  BY DEF FscInv
<1>3. /\ \A c \in Cmds(list) : c.schedule_reference \in schedules
      /\ \A d \in schedules :
           /\ Cardinality(CommandsIn(list, d)) = (d.made_for \div d.period) * Kinds(d)
           /\ FirstCommand(d) \in Cmds(list)
  BY DEF EntriesInv, Complete
<1> HIDE DEF list
<1>4. Cmds(new) = { c \in Cmds(list) : c.schedule_reference.stream # s }
  BY <1>2, RemoveAllCmds
<1> HIDE DEF new
<1>5. \A c \in Cmds(new) : c.schedule_reference \in stay
  BY <1>3, <1>4
<1>6. ASSUME NEW d \in stay
      PROVE  /\ Cardinality(CommandsIn(new, d)) = (d.made_for \div d.period) * Kinds(d)
             /\ FirstCommand(d) \in Cmds(new)
  <2>1. d \in schedules /\ d.stream # s
    OBVIOUS
  <2>2. CommandsIn(new, d) = CommandsIn(list, d)
    BY <1>4, <2>1 DEF CommandsIn
  <2>3. FirstCommand(d).schedule_reference = d
    BY DEF FirstCommand, Command
  <2>4. FirstCommand(d) \in Cmds(new)
    BY <1>3, <1>4, <2>1, <2>3
  <2> QED
    BY <1>3, <2>1, <2>2, <2>4
<1>7. Complete(new, stay)
  BY <1>5, <1>6 DEF Complete
<1> QED
  BY <1>1, <1>7 DEF EntriesInv

\* Every step keeps EntriesInv.
LEMMA NextEntriesInv ==
  ASSUME FscInv, EntriesInv, [Next]_vars
  PROVE  EntriesInv'
<1>1. ASSUME schedules' = schedules, fsc_list' = fsc_list
      PROVE  EntriesInv'
  BY <1>1 DEF EntriesInv
<1>2. ASSUME NEW c \in CycleTimes, SetModuleSchedule(c)
      PROVE  EntriesInv'
  BY <1>1, <1>2 DEF SetModuleSchedule
<1>3. ASSUME NEW e \in EventEntries \cup WindowEntries, AddSchedule(e)
      PROVE  EntriesInv'
  BY <1>3, AddScheduleEntriesInv
<1>4. ASSUME NEW s \in Events \cup Windows, CleanSchedule(s)
      PROVE  EntriesInv'
  BY <1>4, CleanScheduleEntriesInv
<1>5. CASE WriteSchedule
  BY <1>1, <1>5 DEF WriteSchedule
<1>6. CASE UNCHANGED vars
  BY <1>1, <1>6 DEF vars
<1> QED
  BY <1>2, <1>3, <1>4, <1>5, <1>6 DEF Next

\* The places of the commands of an entry, as the property counts them.
LEMMA CommandsOfCounted ==
  ASSUME FscInv, NEW e
  PROVE  Cardinality(CommandsOf(e)) = Cardinality(CommandsIn(fsc_list, e))
<1>1. fsc_list \in SortedLists /\ Apart(fsc_list)
  BY DEF FscInv
<1>2. CommandsOf(e) = { i \in DOMAIN fsc_list : fsc_list[i].schedule_reference = e }
  BY DEF CommandsOf
<1> QED
  BY <1>1, <1>2, EntryCounted

\* Every entry has a command for each period of the cycle it was added in, and a
\* window has two, whatever was added and removed (fsc_list of a module, sysfs.c and
\* module.c): none is lost, none is made twice and none outlives its entry.  An
\* entry that is there cannot be added again.
THEOREM CommandsAreCounted ==
  Spec => []( /\ \A i \in DOMAIN fsc_list : fsc_list[i].schedule_reference \in schedules
              /\ \A e \in schedules :
                   Cardinality(CommandsOf(e)) = (e.made_for \div e.period) * Kinds(e) )
<1> DEFINE Counted ==
             /\ \A i \in DOMAIN fsc_list : fsc_list[i].schedule_reference \in schedules
             /\ \A e \in schedules :
                  Cardinality(CommandsOf(e)) = (e.made_for \div e.period) * Kinds(e)
<1>1. Init => EntriesInv
  BY InitEntriesInv
<1>2. FscInv /\ EntriesInv /\ [Next]_vars => EntriesInv'
  BY NextEntriesInv
<1>3. FscInv /\ EntriesInv => Counted
  <2> SUFFICES ASSUME FscInv, EntriesInv PROVE Counted
    OBVIOUS
  <2>1. \A i \in DOMAIN fsc_list : fsc_list[i].schedule_reference \in schedules
    BY DEF EntriesInv, Complete, Cmds
  <2>2. ASSUME NEW e \in schedules
        PROVE  Cardinality(CommandsOf(e)) = (e.made_for \div e.period) * Kinds(e)
    BY CommandsOfCounted DEF EntriesInv, Complete
  <2> QED
    BY <2>1, <2>2
<1> QED
  BY <1>1, <1>2, <1>3, InvariantHolds, PTL DEF Spec

-----------------------------------------------------------------------------
(* No command is after the end of the cycle *)

\* Before the number of frames that are skipped, every frame would leave too early.
LEMMA SkippedAreEarly ==
  ASSUME NEW e \in Entries, Skipped(e) > 0
  PROVE  e.start + (Skipped(e) - 1) * e.period < EgressDelay
<1> DEFINE D == EgressDelay
           p == e.period
           a == e.start
           n == Skipped(e)
           S == { i \in 0 .. D : a + i * p < D }
<1>1. p \in Nat \ {0} /\ a \in Nat /\ D \in Nat /\ n \in Nat /\ n > 0
  BY SkippedAreAll, TimesAssumption DEF Entries
<1>2. n = Cardinality(S)
  BY DEF Skipped
<1> HIDE DEF D, p, a, n
<1> SUFFICES ASSUME a + (n - 1) * p >= D PROVE FALSE
  <2>1. a + (n - 1) * p \in Nat
    BY <1>1
  <2> QED
    BY <1>1, <2>1 DEF D, p, a, n
<1>3. ASSUME NEW i \in S
      PROVE  i \in 0 .. n - 2
  <2>1. i \in Nat /\ a + i * p < D
    BY <1>1
  <2>2. ASSUME i >= n - 1 PROVE FALSE
    <3>1. (n - 1) * p <= i * p /\ i * p \in Nat /\ (n - 1) * p \in Nat
      BY <1>1, <2>1, <2>2
    <3> QED
      BY <1>1, <2>1, <3>1
  <2> QED
    BY <1>1, <2>1, <2>2
<1>4. IsFiniteSet(0 .. n - 2) /\ Cardinality(0 .. n - 2) = IF 0 > n - 2 THEN 0 ELSE n - 2 - 0 + 1
  <2>1. n - 2 \in Int
    BY <1>1
  <2> QED
    BY <2>1, FS_Interval
<1>5. S \in SUBSET (0 .. n - 2)
  BY <1>3
<1> HIDE DEF S
<1>6. Cardinality(S) <= Cardinality(0 .. n - 2)
  BY <1>4, <1>5, FS_Subset
<1>7. Cardinality(0 .. n - 2) = IF n = 1 THEN 0 ELSE n - 1
  <2>1. CASE n = 1
    BY <1>1, <1>4, <2>1
  <2>2. CASE n # 1
    <3>1. ~(0 > n - 2) /\ n - 2 - 0 + 1 = n - 1
      BY <1>1, <2>2
    <3> QED
      BY <1>4, <2>2, <3>1, Zenon
  <2> QED
    BY <2>1, <2>2
<1>8. n <= IF n = 1 THEN 0 ELSE n - 1
  BY <1>2, <1>6, <1>7
<1> QED
  BY <1>1, <1>8

\* A time in the cycle is a tick of the cycle, when it is rounded to the closest.
LEMMA ClosestInCycle ==
  ASSUME NEW T \in Nat, NEW x \in Nat, x <= T * TICK
  PROVE  DivRoundClosest(x) <= T
<1>1. TICK \in Nat \ {0}
  BY TickAssumption
<1> DEFINE h == TICK \div 2
           q == (x + h) \div TICK
<1>2. h \in Nat /\ h < TICK
  BY <1>1
<1> HIDE DEF h
<1>3. T * TICK \in Nat
  BY <1>1
<1>4. q \in Nat /\ q * TICK \in Nat /\ q * TICK <= x + h
  BY <1>1, <1>2
<1> HIDE DEF q
<1>5. q * TICK < (T + 1) * TICK
  <2>1. (T + 1) * TICK = T * TICK + TICK
    BY <1>1
  <2> QED
    BY <1>1, <1>2, <1>3, <1>4, <2>1
<1>6. q < T + 1
  BY <1>1, <1>4, <1>5
<1>7. q <= T
  BY <1>4, <1>6
<1> QED
  BY <1>7 DEF DivRoundClosest, q, h

\* Whole divisions: what is below n + 1 parts has at most n.
LEMMA AtMostParts ==
  ASSUME NEW n \in Nat, NEW x \in Nat, x < (n + 1) * TICK
  PROVE  x \div TICK \in 0 .. n
<1> DEFINE q == x \div TICK
<1>1. TICK \in Nat \ {0}
  BY TickAssumption
<1>2. q \in Nat /\ q * TICK \in Nat /\ q * TICK <= x
  BY <1>1
<1> HIDE DEF q
<1>3. q * TICK < (n + 1) * TICK /\ (n + 1) * TICK \in Nat
  BY <1>1, <1>2
<1>4. q < n + 1
  BY <1>1, <1>2, <1>3
<1>5. q \in 0 .. n
  BY <1>2, <1>4
<1> QED
  BY <1>5 DEF q

\* What is at most twice the cycle is moved into it.
LEMMA WrapInCycle ==
  ASSUME NEW T \in Nat, cycle_ns \div TICK = T, NEW x \in 0 .. 2 * T
  PROVE  WrapCycle(x) \in 0 .. T
BY DEF WrapCycle

\* The commands of an entry are in the cycle they are made for.
LEMMA CommandsInCycle ==
  ASSUME WholeCycles, FscInv, cycle_ns # 0, NEW e \in EventEntries \cup WindowEntries
  PROVE  \A c \in Cmds(Commands(e)) : c.abs_cycle \in 0 .. cycle_ns \div TICK
<1> DEFINE T == cycle_ns \div TICK
           p == e.period
           a == e.start
           z == e.end
           D == EgressDelay
           O == OpenDelay
           C == CloseDelay
           S == Skipped(e)
           n == NumItems(e)
<1>1. /\ p \in Nat \ {0} /\ a \in Nat /\ z \in Nat /\ a <= p /\ (e.stream \notin Events => z <= p)
      /\ cycle_ns \in Nat /\ e \in Entries
  BY EntryTyped
<1>2. TICK \in Nat \ {0} /\ D \in Nat /\ O \in Nat /\ C \in Nat
  BY TickAssumption, TimesAssumption
<1>3. cycle_ns % TICK = 0 /\ O <= cycle_ns /\ C <= cycle_ns
  BY DEF WholeCycles, FscInv
<1>4. T \in Nat /\ cycle_ns = T * TICK
  BY <1>1, <1>2, <1>3
<1>5. n \in Nat /\ n * p <= cycle_ns /\ n * p \in Nat
  BY <1>1 DEF NumItems
<1>6. S \in Nat /\ \A j \in Nat : j >= S => a + j * p >= D
  BY <1>1, SkippedAreAll
<1>7. S > 0 => a + (S - 1) * p < D
  BY <1>1, SkippedAreEarly
<1> HIDE DEF p, a, z, D, O, C, S, n, T
<1>8. ASSUME NEW i \in 0 .. n - 1
      PROVE  i * p \in Nat /\ i * p + p <= cycle_ns
  <2>1. i \in Nat /\ i + 1 <= n
    BY <1>5
  <2>2. i * p \in Nat /\ (i + 1) * p = i * p + p /\ (i + 1) * p <= n * p
    BY <1>1, <1>5, <2>1
  <2> QED
    BY <1>1, <1>5, <2>1, <2>2
<1>9. ASSUME e.stream \in Events, NEW i \in 1 .. n
      PROVE  DivRoundClosest(a + (S + i - 1) * p - D) \in 0 .. T
  <2> DEFINE j == S + i - 1
             sent == a + j * p - D
  <2>1. i \in Nat /\ i <= n /\ i >= 1 /\ j \in Nat /\ j >= S /\ i - 1 \in 0 .. n - 1
    BY <1>5, <1>6
  <2>2. (i - 1) * p \in Nat /\ (i - 1) * p + p <= cycle_ns
    BY <1>8, <2>1
  <2>3. i * p = (i - 1) * p + p
    BY <1>1, <2>1
  <2>4. a + j * p >= D
    BY <1>6, <2>1
  <2>5. sent <= cycle_ns
    <3>1. CASE S = 0
      <4>1. j = i - 1
        BY <2>1, <3>1
      <4>2. j * p = (i - 1) * p
        BY <4>1
      <4> HIDE DEF j
      <4> QED
        BY <1>1, <1>2, <2>2, <4>2
    <3>2. CASE S # 0
      <4>1. S - 1 \in Nat /\ j = (S - 1) + i
        BY <1>6, <2>1, <3>2
      <4>2. j * p = (S - 1) * p + i * p /\ (S - 1) * p \in Nat
        BY <1>1, <2>1, <4>1
      <4>3. a + (S - 1) * p < D
        BY <1>6, <1>7, <3>2
      <4> HIDE DEF j
      <4> QED
        BY <1>1, <1>2, <2>2, <2>3, <4>2, <4>3
    <3> QED
      BY <3>1, <3>2
  <2>6. sent \in Nat
    <3>1. j * p \in Nat
      BY <1>1, <2>1
    <3> HIDE DEF j
    <3> QED
      BY <1>1, <1>2, <2>4, <3>1
  <2> HIDE DEF sent
  <2>7. DivRoundClosest(sent) <= T
    BY <1>4, <2>5, <2>6, ClosestInCycle
  <2>8. DivRoundClosest(sent) \in Nat
    <3>1. sent + TICK \div 2 \in Nat
      BY <1>2, <2>6
    <3> QED
      BY <3>1, DivNat DEF DivRoundClosest
  <2>9. DivRoundClosest(sent) \in 0 .. T
    BY <1>4, <2>7, <2>8
  <2> QED
    BY <2>9 DEF sent
<1>10. (2 * T) * TICK = cycle_ns + cycle_ns /\ 2 * T \in Nat /\ (2 * T + 1) * TICK = (2 * T) * TICK + TICK
  BY <1>1, <1>2, <1>4
<1>11. ASSUME e.stream \notin Events, NEW i \in 0 .. n - 1
       PROVE  /\ WrapCycle((a + i * p + O) \div TICK) \in 0 .. T
              /\ WrapCycle(DivRoundUp(z + i * p + C)) \in 0 .. T
  <2> DEFINE x == a + i * p + O
             y == z + i * p + C
  <2>1. i * p \in Nat /\ i * p + p <= cycle_ns
    BY <1>8
  <2>2. x \in Nat /\ x <= cycle_ns + cycle_ns
    BY <1>1, <1>2, <1>3, <2>1
  <2>3. y \in Nat /\ y <= cycle_ns + cycle_ns
    BY <1>1, <1>2, <1>3, <1>11, <2>1
  <2> HIDE DEF x, y
  <2>4. x < (2 * T + 1) * TICK
    BY <1>1, <1>2, <1>10, <2>2
  <2>5. x \div TICK \in 0 .. 2 * T
    BY <1>10, <2>2, <2>4, AtMostParts
  <2>6. y + TICK - 1 \in Nat /\ y + TICK - 1 < (2 * T + 1) * TICK
    BY <1>1, <1>2, <1>10, <2>3
  <2>7. (y + TICK - 1) \div TICK \in 0 .. 2 * T
    BY <1>10, <2>6, AtMostParts
  <2>8. DivRoundUp(y) \in 0 .. 2 * T
    BY <2>7 DEF DivRoundUp
  <2>9. cycle_ns \div TICK = T
    BY DEF T
  <2>10. WrapCycle(x \div TICK) \in 0 .. T
    BY <1>4, <2>5, <2>9, WrapInCycle
  <2>11. WrapCycle(DivRoundUp(y)) \in 0 .. T
    BY <1>4, <2>8, <2>9, WrapInCycle
  <2> QED
    BY <2>10, <2>11 DEF x, y
<1>12. CASE e.stream \in Events
  <2> DEFINE time(i) == DivRoundClosest(a + (S + i - 1) * p - D)
  <2>1. Commands(e) = [i \in 1 .. n |-> Command(SEND, time(i), e)]
    BY <1>12 DEF Commands, EventCommands, a, S, p, D, n
  <2>2. \A i \in 1 .. n : time(i) \in 0 .. T
    BY <1>9, <1>12
  <2> HIDE DEF time
  <2>3. \A i \in DOMAIN Commands(e) : Commands(e)[i].abs_cycle \in 0 .. T
    BY <2>1, <2>2 DEF Command
  <2> QED
    BY <2>3 DEF Cmds, T
<1>13. CASE e.stream \notin Events
  <2> DEFINE open(i) == WrapCycle((a + i * p + O) \div TICK)
             close(i) == WrapCycle(DivRoundUp(z + i * p + C))
             item(k) == IF k % 2 = 1 THEN Command(OPEN, open(k \div 2), e)
                        ELSE Command(CLOSE, close(k \div 2 - 1), e)
  <2>1. Commands(e) = [k \in 1 .. 2 * n |-> item(k)]
    BY <1>13 DEF Commands, WindowCommands, a, z, p, O, C, n
  <2>2. \A i \in 0 .. n - 1 : open(i) \in 0 .. T /\ close(i) \in 0 .. T
    BY <1>11, <1>13
  <2> HIDE DEF open, close
  <2>3. ASSUME NEW k \in 1 .. 2 * n
        PROVE  item(k).abs_cycle \in 0 .. T
    <3>1. CASE k % 2 = 1
      <4>1. k \div 2 \in 0 .. n - 1
        BY <1>5, <3>1
      <4>2. open(k \div 2) \in 0 .. T
        BY <2>2, <4>1
      <4> QED
        BY <3>1, <4>2 DEF Command
    <3>2. CASE k % 2 # 1
      <4>1. k \div 2 - 1 \in 0 .. n - 1
        BY <1>5, <3>2
      <4>2. close(k \div 2 - 1) \in 0 .. T
        BY <2>2, <4>1
      <4> QED
        BY <3>2, <4>2 DEF Command
    <3> QED
      BY <3>1, <3>2
  <2> HIDE DEF item
  <2>4. \A i \in DOMAIN Commands(e) : Commands(e)[i].abs_cycle \in 0 .. T
    BY <2>1, <2>3
  <2> QED
    BY <2>4 DEF Cmds, T
<1> QED
  BY <1>12, <1>13

\* Every command is in the cycle its entry was made for.
TimesInv ==
  \A c \in Cmds(fsc_list) : c.abs_cycle \in 0 .. c.schedule_reference.made_for \div TICK

\* Every step keeps TimesInv.
LEMMA NextTimesInv ==
  ASSUME WholeCycles, FscInv, TimesInv, [Next]_vars
  PROVE  TimesInv'
<1> DEFINE InTime(list) ==
             \A c \in Cmds(list) : c.abs_cycle \in 0 .. c.schedule_reference.made_for \div TICK
<1>1. InTime(fsc_list) /\ (TimesInv' <=> InTime(fsc_list'))
  BY DEF TimesInv
<1>2. fsc_list \in SortedLists
  BY DEF FscInv
<1>3. ASSUME NEW c \in CycleTimes, SetModuleSchedule(c)
      PROVE  TimesInv'
  BY <1>1, <1>3 DEF SetModuleSchedule
<1>4. ASSUME NEW e \in EventEntries \cup WindowEntries, AddSchedule(e)
      PROVE  TimesInv'
  <2> DEFINE cs == Commands(e)
  <2>1. fsc_list' = InsertAll(fsc_list, cs) /\ cycle_ns # 0 /\ PeriodsValid(schedules \cup {e})
    BY <1>4 DEF AddSchedule, Valid, PeriodsValid
  <2>2. e.made_for = cycle_ns /\ e.period \in Nat \ {0} /\ cycle_ns \in Nat
    BY EntryTyped
  <2>3. NumItems(e) >= 1
    <3>1. cycle_ns % e.period = 0
      BY <2>1 DEF PeriodsValid
    <3> QED
      BY <2>1, <2>2, <3>1 DEF NumItems
  <2>4. cs \in Seq(SysfsItems) /\ \A c \in Cmds(cs) : c.schedule_reference = e
    BY <2>3, CommandsOfEntry
  <2>5. \A c \in Cmds(cs) : c.abs_cycle \in 0 .. cycle_ns \div TICK
    BY <2>1, CommandsInCycle
  <2> HIDE DEF cs
  <2>6. Cmds(fsc_list') = Cmds(fsc_list) \cup Cmds(cs)
    BY <1>2, <2>1, <2>4, InsertAllCmds
  <2>7. InTime(fsc_list')
    BY <1>1, <2>2, <2>4, <2>5, <2>6
  <2> QED
    BY <1>1, <2>7
<1>5. ASSUME NEW s \in Events \cup Windows, CleanSchedule(s)
      PROVE  TimesInv'
  <2>1. fsc_list' = RemoveAll(fsc_list, s)
    BY <1>5 DEF CleanSchedule
  <2>2. Cmds(fsc_list') \subseteq Cmds(fsc_list)
    BY <1>2, <2>1, RemoveAllCmds
  <2>3. InTime(fsc_list')
    BY <1>1, <2>2
  <2> QED
    BY <1>1, <2>3
<1>6. CASE WriteSchedule
  BY <1>1, <1>6 DEF WriteSchedule
<1>7. CASE UNCHANGED vars
  BY <1>1, <1>7 DEF vars
<1> HIDE DEF InTime
<1> QED
  BY <1>3, <1>4, <1>5, <1>6, <1>7 DEF Next

\* Every entry has its commands for all periods of the cycle it was added in, and
\* none of them is after the end of that cycle: what the delays move before the
\* start or after the end of the cycle is not lost (create_event_sysfs_items() and
\* create_window_sysfs_items()).  The count needs no hypothesis, the time does.
THEOREM EntriesAreComplete ==
  ASSUME WholeCycles
  PROVE  Spec => []EntriesComplete
<1>1. Init => EntriesInv
  BY InitEntriesInv
<1>2. FscInv /\ EntriesInv /\ [Next]_vars => EntriesInv'
  BY NextEntriesInv
<1>3. Init => TimesInv
  BY DEF Init, TimesInv, Cmds
<1>4. FscInv /\ TimesInv /\ [Next]_vars => TimesInv'
  BY NextTimesInv
<1>5. FscInv /\ EntriesInv /\ TimesInv => EntriesComplete
  <2> SUFFICES ASSUME FscInv, EntriesInv, TimesInv, NEW e \in schedules
               PROVE  /\ Cardinality(CommandsOf(e)) =
                           (e.made_for \div e.period) * (IF e.stream \in Events THEN 1 ELSE 2)
                      /\ \A i \in CommandsOf(e) : fsc_list[i].abs_cycle \in 0 .. e.made_for \div TICK
    BY DEF EntriesComplete
  <2>1. Cardinality(CommandsOf(e)) = (e.made_for \div e.period) * Kinds(e)
    BY CommandsOfCounted DEF EntriesInv, Complete
  <2>2. \A i \in CommandsOf(e) : fsc_list[i].abs_cycle \in 0 .. e.made_for \div TICK
    BY DEF TimesInv, Cmds, CommandsOf
  <2> QED
    BY <2>1, <2>2 DEF Kinds
<1> QED
  BY <1>1, <1>2, <1>3, <1>4, <1>5, InvariantHolds, PTL DEF Spec

=============================================================================
