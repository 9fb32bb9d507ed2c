---------------------------- MODULE AcmTablesProofs ----------------------------
(***************************************************************************)
(* Proofs about AcmTables, for any number of streams, modules and          *)
(* configurations.  The calls with lists and indexes are calls of the      *)
(* object graph, so what AcmStreamsProofs proves of the graph holds here.  *)
(* Listing says that a list holds the streams that point back to it, each  *)
(* once; with it two streams of a list never get the same index, and the   *)
(* indexes of a pair agree from the call that computes them on, because    *)
(* every later change of one of the two lists computes them again.         *)
(* The cached rows need not be those that would be computed now, but those *)
(* of the streams of a module are apart: a call that changes the list or   *)
(* the needs of its streams computes the table concerned again, and the    *)
(* only change that keeps the indexes, losing a partner, needs fewer rows. *)
(***************************************************************************)
EXTENDS AcmTables, AcmStreamsProofs, NaturalsInduction, WellFoundedInduction

USE DEF INGRESS_TRIGGERED_STREAM, TIME_TRIGGERED_STREAM, EVENT_STREAM,
        RECOVERY_STREAM, REDUNDANT_STREAM_TX, REDUNDANT_STREAM_RX,
        Kinds, RedundantTypes, LookupTypes, StreamTypes, ChildKinds, MODULE_IDS,
        LiveStreams, REDUNDANCY_START_IDX

NoneTwice(seq) == \A i, j \in DOMAIN seq : seq[i] = seq[j] => i = j

\* The list of a module and the back pointers of the streams.
Listing ==
  /\ order \in [Modules -> Seq(Streams)]
  /\ \A m \in Modules : Listed(order[m]) = StreamsOf(m) /\ NoneTwice(order[m])

\* A module refers to a configuration only while it is in a slot of it.
ReferenceHasSlot ==
  \A c \in Configs \cap live, n \in Modules :
    config_reference[n] = c => bypass[c][ModuleId[n]] = n

\* Both halves of the pair of s are in lists.
Paired(s) ==
  /\ s \in live /\ type[s] \in RedundantTypes /\ entry[s] # Null
  /\ reference_redundant[s] \in live /\ entry[reference_redundant[s]] # Null

\* Streams of one module that are paired with streams of one module.
SideBySide(s, t) ==
  entry[s] = entry[t] /\ entry[reference_redundant[s]] = entry[reference_redundant[t]]

\* The two halves of a pair have one index; pairs of the same two modules
\* have different ones.
PairIndexes ==
  \A s \in Streams : Paired(s) =>
    /\ redundand_index[s] >= REDUNDANCY_START_IDX
    /\ redundand_index[s] = redundand_index[reference_redundant[s]]
    /\ \A t \in Streams \ {s} :
         Paired(t) /\ SideBySide(s, t) => redundand_index[s] # redundand_index[t]

IndexesTyped == redundand_index \in [Streams -> Nat]

TInv == IInv /\ Listing /\ ReferenceHasSlot /\ IndexesTyped /\ PairIndexes

-----------------------------------------------------------------------------
(* The graph of objects *)

\* A call is one of the object graph, or it concerns operations only.
LEMMA StepOfGraph == [TNext]_tvars => [Next]_vars
<1> SUFFICES ASSUME TNext PROVE [Next]_vars
  BY DEF tvars
<1>1. ASSUME NEW s \in Streams, NEW r \in Streams, TSetChild(s, r) \/ TSetRedundant(s, r)
      PROVE  Next
  BY <1>1 DEF TNext, Next, SetReference, TSetChild, TSetRedundant
<1>2. ASSUME NEW s \in Streams, TDestroyStream(s)
      PROVE  Next
  BY <1>2 DEF TNext, Next, TDestroyStream
<1>3. ASSUME NEW m \in Modules, NEW s \in Streams, TAddStream(m, s)
      PROVE  Next
  BY <1>3 DEF TNext, Next, TAddStream, TAddModuleStream, AddStream
<1>4. ASSUME NEW m \in Modules, TDestroyModule(m)
      PROVE  Next
  BY <1>4 DEF TNext, Next, TDestroyModule
<1>5. ASSUME NEW c \in Configs, TDestroyConfig(c)
      PROVE  Next
  BY <1>5 DEF TNext, Next, TDestroyConfig
<1>6. CASE OtherCalls
  BY <1>6 DEF TNext, Next, OtherCalls
<1>7. ASSUME NEW s \in Streams, CleanOperations(s) \/ \E o \in OpCodes : AddOperation(s, o)
      PROVE  UNCHANGED vars
  BY <1>7 DEF CleanOperations, AddOperation
<1> QED
  BY <1>1, <1>2, <1>3, <1>4, <1>5, <1>6, <1>7 DEF TNext

\* The program with lists and indexes implements the object graph: everything
\* proved of AcmStreams holds of it.
THEOREM GraphImplemented == TSpec => Spec
<1>1. TInit => Init
  BY DEF TInit
<1> QED
  BY <1>1, StepOfGraph, PTL DEF TSpec, Spec

-----------------------------------------------------------------------------
(* Sequences without repetition *)

\* A concatenation lists what its parts list, and nothing twice if they have
\* nothing in common.
LEMMA ListedConcat ==
  ASSUME NEW S, NEW u \in Seq(S), NEW v \in Seq(S)
  PROVE  /\ u \o v \in Seq(S)
         /\ Listed(u \o v) = Listed(u) \cup Listed(v)
         /\ NoneTwice(u) /\ NoneTwice(v) /\ Listed(u) \cap Listed(v) = {} => NoneTwice(u \o v)
<1> DEFINE w == u \o v
<1>1. /\ w \in Seq(S) /\ DOMAIN w = 1 .. Len(u) + Len(v)
      /\ DOMAIN u = 1 .. Len(u) /\ DOMAIN v = 1 .. Len(v)
      /\ Len(u) \in Nat /\ Len(v) \in Nat
      /\ \A i \in 1 .. Len(u) : i \in DOMAIN w /\ w[i] = u[i]
      /\ \A i \in 1 .. Len(v) : Len(u) + i \in DOMAIN w /\ w[Len(u) + i] = v[i]
  OBVIOUS
<1>2. \A i \in DOMAIN w : i \in 1 .. Len(u) \/ \E j \in 1 .. Len(v) : i = Len(u) + j
  <2> TAKE i \in DOMAIN w
  <2>1. CASE i > Len(u)
    <3>1. i - Len(u) \in 1 .. Len(v) /\ i = Len(u) + (i - Len(u))
      BY <1>1, <2>1
    <3> QED
      BY <3>1
  <2> QED
    BY <1>1, <2>1
<1> HIDE DEF w
<1>3. Listed(w) = Listed(u) \cup Listed(v)
  <2>1. ASSUME NEW i \in DOMAIN w PROVE w[i] \in Listed(u) \cup Listed(v)
    <3>1. CASE i \in 1 .. Len(u)
      BY <1>1, <3>1 DEF Listed
    <3>2. CASE \E j \in 1 .. Len(v) : i = Len(u) + j
      BY <1>1, <3>2 DEF Listed
    <3> QED
      BY <1>2, <3>1, <3>2
  <2>2. ASSUME NEW i \in DOMAIN u PROVE u[i] \in Listed(w)
    BY <1>1 DEF Listed
  <2>3. ASSUME NEW i \in DOMAIN v PROVE v[i] \in Listed(w)
    <3>1. Len(u) + i \in DOMAIN w /\ w[Len(u) + i] = v[i]
      BY <1>1
    <3> QED
      BY <3>1, Zenon DEF Listed
  <2> QED
    BY <2>1, <2>2, <2>3 DEF Listed
<1>4. ASSUME NoneTwice(u), NoneTwice(v), Listed(u) \cap Listed(v) = {},
             NEW i \in DOMAIN w, NEW j \in DOMAIN w, w[i] = w[j]
      PROVE  i = j
  <2>1. CASE i \in 1 .. Len(u) /\ j \in 1 .. Len(u)
    BY <1>1, <1>4, <2>1 DEF NoneTwice
  <2>2. CASE i \notin 1 .. Len(u) /\ j \notin 1 .. Len(u)
    <3>1. PICK k \in 1 .. Len(v), l \in 1 .. Len(v) : i = Len(u) + k /\ j = Len(u) + l
      BY <1>2, <2>2
    <3>2. v[k] = v[l]
      BY <1>1, <1>4, <3>1
    <3> QED
      BY <1>1, <1>4, <3>1, <3>2 DEF NoneTwice
  <2>3. ASSUME NEW k \in 1 .. Len(u), NEW l \in 1 .. Len(v)
        PROVE  u[k] # v[l]
    BY <1>1, <1>4 DEF Listed
  <2>4. CASE i \in 1 .. Len(u) /\ j \notin 1 .. Len(u)
    BY <1>1, <1>2, <1>4, <2>3, <2>4
  <2>5. CASE i \notin 1 .. Len(u) /\ j \in 1 .. Len(u)
    BY <1>1, <1>2, <1>4, <2>3, <2>5
  <2> QED
    BY <2>1, <2>2, <2>4, <2>5
<1> QED
  BY <1>1, <1>3, <1>4 DEF NoneTwice, w

\* The empty sequence and that of one stream.
LEMMA ListedShort ==
  ASSUME NEW S, NEW x \in S
  PROVE  /\ << >> \in Seq(S) /\ Listed(<< >>) = {} /\ NoneTwice(<< >>)
         /\ <<x>> \in Seq(S) /\ Listed(<<x>>) = {x} /\ NoneTwice(<<x>>)
BY DEF Listed, NoneTwice

\* What is listed without repetition is as long as what it lists.
LEMMA LengthOfListed ==
  ASSUME NEW S, NEW seq \in Seq(S), NoneTwice(seq)
  PROVE  IsFiniteSet(Listed(seq)) /\ Cardinality(Listed(seq)) = Len(seq)
<1>1. Len(seq) \in Nat /\ DOMAIN seq = 1 .. Len(seq)
  OBVIOUS
<1>2. IsFiniteSet(1 .. Len(seq)) /\ Cardinality(1 .. Len(seq)) = Len(seq)
  <2> DEFINE n == Len(seq)
  <2>1. n \in Nat /\ n \in Int /\ 1 \in Int
    BY <1>1
  <2> HIDE DEF n
  <2>2. IsFiniteSet(1 .. n) /\ Cardinality(1 .. n) = IF 1 > n THEN 0 ELSE n - 1 + 1
    BY <2>1, FS_Interval
  <2>3. Cardinality(1 .. n) = n
    BY <2>1, <2>2
  <2> QED
    BY <2>2, <2>3 DEF n
<1>3. seq \in Bijection(1 .. Len(seq), Listed(seq))
  BY <1>1 DEF Bijection, Injection, IsInjective, Surjection, Listed, NoneTwice
<1>4. ExistsBijection(1 .. Len(seq), Listed(seq))
  BY <1>3 DEF ExistsBijection
<1> QED
  BY <1>2, <1>4, FS_Bijection

-----------------------------------------------------------------------------
(* The lists of the modules *)

\* The streams one call adds are listed in order, each once.
LEMMA AddedListed ==
  ASSUME IInv, NEW m \in Modules, NEW s \in Streams,
         NEW added \in AddedPrefixes(s), AddModuleStream(m, s, added)
  PROVE  /\ AddedSequence(s, added) \in Seq(Streams)
         /\ Listed(AddedSequence(s, added)) = added
         /\ NoneTwice(AddedSequence(s, added))
<1> DEFINE f == FirstChild(s)
           g == SecondChild(s)
           ifAdded(x) == IF x \in added THEN <<x>> ELSE << >>
<1> USE NullAssumption, KindAssumption
<1>1. /\ s \in live
      /\ f # Null => Kind[s] = INGRESS_TRIGGERED_STREAM /\ f = reference[s]
      /\ g # Null => f # Null /\ g = reference[f]
      /\ f \in Streams \cup {Null} /\ g \in Streams \cup {Null}
  BY DEF AddModuleStream, StreamAddable, FirstChild, SecondChild, IInv, TypeOK
<1>2. f # Null => f \in live /\ Kind[f] = EVENT_STREAM
  BY <1>1 DEF IInv, TypeOK, ReferencesInverse
<1>3. g # Null => Kind[g] = RECOVERY_STREAM
  BY <1>1, <1>2 DEF IInv, TypeOK, ReferencesInverse
<1>4. /\ f # s /\ g # s /\ (f = g => f = Null)
      /\ Null \notin added /\ added \subseteq Streams
      /\ added = {s} \cup ({f} \cap added) \cup ({g} \cap added)
  BY <1>1, <1>2, <1>3 DEF AddedPrefixes
<1>5. ASSUME NEW x \in Streams \cup {Null}
      PROVE  /\ ifAdded(x) \in Seq(Streams) /\ Listed(ifAdded(x)) = {x} \cap added
             /\ NoneTwice(ifAdded(x))
  <2>1. CASE x \in added
    <3>1. x \in Streams /\ ifAdded(x) = <<x>> /\ {x} \cap added = {x}
      BY <1>4, <2>1
    <3> QED
      BY <3>1, ListedShort
  <2>2. CASE x \notin added
    <3>1. ifAdded(x) = << >> /\ {x} \cap added = {}
      BY <2>2
    <3> QED
      BY <3>1, ListedShort
  <2> QED
    BY <2>1, <2>2
<1>6. AddedSequence(s, added) = <<s>> \o ifAdded(f) \o ifAdded(g)
  BY DEF AddedSequence
<1>7. /\ ifAdded(f) \in Seq(Streams) /\ Listed(ifAdded(f)) = {f} \cap added /\ NoneTwice(ifAdded(f))
      /\ ifAdded(g) \in Seq(Streams) /\ Listed(ifAdded(g)) = {g} \cap added /\ NoneTwice(ifAdded(g))
      /\ <<s>> \in Seq(Streams) /\ Listed(<<s>>) = {s} /\ NoneTwice(<<s>>)
  BY <1>1, <1>5, ListedShort
<1> DEFINE a == ifAdded(f)
           b == ifAdded(g)
           u == <<s>> \o a
<1> HIDE DEF a, b, f, g, ifAdded
<1>8. u \in Seq(Streams) /\ Listed(u) = {s} \cup ({f} \cap added) /\ NoneTwice(u)
  <2> DEFINE first == <<s>>
  <2>1. first \in Seq(Streams) /\ Listed(first) = {s} /\ NoneTwice(first)
    BY <1>7
  <2> HIDE DEF first
  <2>2. a \in Seq(Streams) /\ Listed(a) = {f} \cap added /\ NoneTwice(a) /\ Listed(first) \cap Listed(a) = {}
    BY <1>4, <1>7, <2>1 DEF a
  <2>3. first \o a \in Seq(Streams) /\ Listed(first \o a) = Listed(first) \cup Listed(a) /\ NoneTwice(first \o a)
    BY <2>1, <2>2, ListedConcat
  <2> QED
    BY <2>1, <2>2, <2>3 DEF first
<1> HIDE DEF u
<1>9. u \o b \in Seq(Streams) /\ Listed(u \o b) = Listed(u) \cup ({g} \cap added) /\ NoneTwice(u \o b)
  <2>1. b \in Seq(Streams) /\ Listed(b) = {g} \cap added /\ NoneTwice(b) /\ Listed(u) \cap Listed(b) = {}
    BY <1>4, <1>7, <1>8 DEF b
  <2> QED
    BY <1>8, <2>1, ListedConcat
<1> QED
  BY <1>4, <1>6, <1>8, <1>9 DEF u, a, b

\* A list that gets streams that are in no list yet lists them too.
LEMMA ListExtended ==
  ASSUME TInv, NEW m \in Modules, NEW more \in Seq(Streams), NoneTwice(more),
         \A x \in Listed(more) : entry[x] = Null,
         order' = [order EXCEPT ![m] = order[m] \o more],
         entry' = [x \in Streams |-> IF x \in Listed(more) THEN m ELSE entry[x]]
  PROVE  Listing'
<1> USE NullAssumption
<1>1. order[m] \in Seq(Streams) /\ Listed(order[m]) = StreamsOf(m) /\ NoneTwice(order[m])
  BY DEF TInv, Listing
<1>2. Listed(order[m]) \cap Listed(more) = {}
  BY <1>1 DEF StreamsOf
<1> DEFINE new == order[m] \o more
<1>3. new \in Seq(Streams) /\ Listed(new) = Listed(order[m]) \cup Listed(more) /\ NoneTwice(new)
  BY <1>1, <1>2, ListedConcat
<1> HIDE DEF new
<1>4. order' = [order EXCEPT ![m] = new]
  BY DEF new
<1>5. Listed(more) \subseteq Streams
  BY DEF Listed
<1>6. ASSUME NEW n \in Modules
      PROVE  Listed(order'[n]) = StreamsOf(n)' /\ NoneTwice(order'[n])
  <2>1. CASE n = m
    <3>1. order'[n] = new
      BY <1>4, <2>1 DEF TInv, Listing
    <3>2. StreamsOf(n)' = StreamsOf(m) \cup Listed(more)
      BY <1>5, <2>1 DEF StreamsOf
    <3> QED
      BY <1>1, <1>3, <3>1, <3>2
  <2>2. CASE n # m
    <3>1. order'[n] = order[n]
      BY <1>4, <2>2 DEF TInv, Listing
    <3>2. StreamsOf(n)' = StreamsOf(n)
      BY <2>2 DEF StreamsOf
    <3> QED
      BY <3>1, <3>2 DEF TInv, Listing
  <2> QED
    BY <2>1, <2>2
<1>7. order' \in [Modules -> Seq(Streams)]
  BY <1>3, <1>4 DEF TInv, Listing
<1> QED
  BY <1>6, <1>7 DEF Listing

\* Where neither the lists nor the back pointers change they still agree.
LEMMA ListsKept ==
  ASSUME TInv, order' = order, entry' = entry
  PROVE  Listing'
BY DEF TInv, Listing, StreamsOf

\* The lists of the modules that are freed are emptied.
LEMMA ListsEmptied ==
  ASSUME TInv, ResetFreed,
         \A m \in Modules : StreamsOf(m)' = IF m \in live \ live' THEN {} ELSE StreamsOf(m)
  PROVE  Listing'
<1>1. order' = [m \in Modules |-> IF m \in live \ live' THEN << >> ELSE order[m]]
  BY DEF ResetFreed
<1>2. << >> \in Seq(Streams) /\ Listed(<< >>) = {} /\ NoneTwice(<< >>)
  BY DEF Listed, NoneTwice
<1>3. order' \in [Modules -> Seq(Streams)]
  BY <1>1, <1>2 DEF TInv, Listing
<1>4. ASSUME NEW m \in Modules
      PROVE  Listed(order'[m]) = StreamsOf(m)' /\ NoneTwice(order'[m])
  BY <1>1, <1>2 DEF TInv, Listing
<1> QED
  BY <1>3, <1>4 DEF Listing

\* A child that gets into a list was in none.
LEMMA SetChildListing ==
  ASSUME TInv, NEW s \in Streams, NEW r \in Streams, TSetChild(s, r)
  PROVE  Listing'
<1> DEFINE m == entry[s]
<1> USE NullAssumption
<1>1. CASE m = Null
  <2>1. order' = order /\ entry' = entry
    BY <1>1 DEF TSetChild, SetChild, TInv, IInv, TypeOK
  <2> QED
    BY <2>1, ListsKept
<1>2. CASE m # Null
  <2>1. m \in Modules /\ entry[r] = Null /\ order[m] \in Seq(Streams)
    BY <1>2 DEF TSetChild, SetChild, TInv, IInv, TypeOK, Listing
  <2>2. order' = [order EXCEPT ![m] = order[m] \o <<r>>]
    <3>1. order' = [order EXCEPT ![m] = Append(order[m], r)]
      BY <1>2 DEF TSetChild
    <3>2. Append(order[m], r) = order[m] \o <<r>>
      BY <2>1
    <3> QED
      BY <3>1, <3>2
  <2>3. <<r>> \in Seq(Streams) /\ Listed(<<r>>) = {r} /\ NoneTwice(<<r>>)
    BY ListedShort
  <2>4. entry' = [x \in Streams |-> IF x \in Listed(<<r>>) THEN m ELSE entry[x]]
    BY <1>2, <2>1, <2>3 DEF TSetChild, SetChild, TInv, IInv, TypeOK
  <2>5. \A x \in Listed(<<r>>) : entry[x] = Null
    BY <2>1, <2>3
  <2> DEFINE more == <<r>>
  <2> HIDE DEF more, m
  <2>6. /\ more \in Seq(Streams) /\ NoneTwice(more) /\ \A x \in Listed(more) : entry[x] = Null
        /\ order' = [order EXCEPT ![m] = order[m] \o more]
        /\ entry' = [x \in Streams |-> IF x \in Listed(more) THEN m ELSE entry[x]]
    BY <2>2, <2>3, <2>4, <2>5 DEF more
  <2> QED
    BY <2>1, <2>6, ListExtended
<1> QED
  BY <1>1, <1>2

\* The streams that are added are put at the end of the list.
LEMMA AddModuleStreamListing ==
  ASSUME TInv, NEW m \in Modules, NEW s \in Streams,
         NEW added \in AddedPrefixes(s), TAddModuleStream(m, s, added)
  PROVE  Listing'
<1> DEFINE more == AddedSequence(s, added)
<1>1. more \in Seq(Streams) /\ Listed(more) = added /\ NoneTwice(more)
  BY AddedListed DEF TAddModuleStream, TInv
<1>2. order' = [order EXCEPT ![m] = order[m] \o more]
  BY DEF TAddModuleStream
<1>3. /\ \A x \in added : entry[x] = Null
      /\ entry' = [x \in Streams |-> IF x \in added THEN m ELSE entry[x]]
  BY DEF TAddModuleStream, AddModuleStream
<1> HIDE DEF more
<1>4. /\ \A x \in Listed(more) : entry[x] = Null
      /\ entry' = [x \in Streams |-> IF x \in Listed(more) THEN m ELSE entry[x]]
  BY <1>1, <1>3
<1> QED
  BY <1>1, <1>2, <1>4, ListExtended

\* A stream that is destroyed is in no list; a module takes its list with it,
\* and a configuration the lists of its modules.
LEMMA DestroyListing ==
  ASSUME TInv,
         \/ \E s \in Streams : TDestroyStream(s)
         \/ \E m \in Modules : TDestroyModule(m)
         \/ \E c \in Configs : TDestroyConfig(c)
  PROVE  Listing'
<1> USE NullAssumption, DisjointAssumption
<1>1. ASSUME NEW s \in Streams, TDestroyStream(s)
      PROVE  Listing'
  <2>1. live' = live \ DeletedWith(s) /\ entry' = entry /\ ResetFreed
    BY <1>1 DEF TDestroyStream, DestroyStream
  <2>2. DeletedWith(s) \subseteq Streams
    BY DEF DeletedWith, TInv, IInv, TypeOK
  <2>3. \A m \in Modules : StreamsOf(m)' = StreamsOf(m) /\ m \notin live \ live'
    BY <2>1, <2>2 DEF StreamsOf
  <2> QED
    BY <2>1, <2>3, ListsEmptied
<1>2. ASSUME NEW m \in Modules, TDestroyModule(m)
      PROVE  Listing'
  <2>1. /\ live' = live \ ({m} \cup StreamsOf(m)) /\ m \in live /\ ResetFreed
        /\ entry' = [x \in Streams |-> IF entry[x] = m THEN Null ELSE entry[x]]
    BY <1>2 DEF TDestroyModule, DestroyModule, FreeModules
  <2>2. \A n \in Modules : n \in live \ live' <=> n = m
    BY <2>1 DEF StreamsOf
  <2>3. \A n \in Modules : StreamsOf(n)' = IF n = m THEN {} ELSE StreamsOf(n)
    BY <2>1 DEF StreamsOf
  <2> QED
    BY <2>1, <2>2, <2>3, ListsEmptied
<1>3. ASSUME NEW c \in Configs, TDestroyConfig(c)
      PROVE  Listing'
  <2> DEFINE ms == ModulesOf(c)
  <2>1. /\ live' = live \ ({c} \cup ms \cup { s \in Streams : entry[s] \in ms }) /\ ResetFreed
        /\ entry' = [x \in Streams |-> IF entry[x] \in ms THEN Null ELSE entry[x]]
    BY <1>3 DEF TDestroyConfig, DestroyConfig, FreeModules, ModulesOf
  <2>2. ms \subseteq Modules \cap live
    BY DEF ModulesOf, TInv, IInv, SlotsConsistent
  <2> HIDE DEF ms
  <2>3. \A n \in Modules : n \in live \ live' <=> n \in ms
    BY <2>1, <2>2
  <2>4. \A n \in Modules : StreamsOf(n)' = IF n \in ms THEN {} ELSE StreamsOf(n)
    BY <2>1, <2>2 DEF StreamsOf
  <2> QED
    BY <2>1, <2>3, <2>4, ListsEmptied
<1> QED
  BY <1>1, <1>2, <1>3

\* Every call leaves the lists and the back pointers in agreement.
LEMMA NextListing ==
  ASSUME TInv, TNext
  PROVE  Listing'
<1>1. ASSUME NEW s \in Streams, NEW r \in Streams, TSetRedundant(s, r)
      PROVE  Listing'
  BY <1>1, ListsKept DEF TSetRedundant, SetRedundant
<1>2. ASSUME NEW s \in Streams, CleanOperations(s) \/ \E o \in OpCodes : AddOperation(s, o)
      PROVE  Listing'
  <2>1. order' = order /\ entry' = entry
    BY <1>2 DEF CleanOperations, AddOperation, vars, streamVars
  <2> QED
    BY <2>1, ListsKept
<1>3. CASE OtherCalls /\ UNCHANGED tableVars
  <2>1. order' = order
    BY <1>3 DEF tableVars
  <2>2. entry' = entry
    BY <1>3 DEF OtherCalls, AddModule, Enable, EnableFails, UseAfterFree, streamVars
  <2> QED
    BY <2>1, <2>2, ListsKept
<1> QED
  BY <1>1, <1>2, <1>3, SetChildListing, AddModuleStreamListing, DestroyListing
     DEF TNext, TAddStream

-----------------------------------------------------------------------------
(* Slots *)

\* A call keeps the slot of every module that refers to a configuration.
LEMMA NextReferenceHasSlot ==
  ASSUME TInv, TNext
  PROVE  ReferenceHasSlot'
<1> USE NullAssumption, ModuleIdAssumption
<1>1. CASE UNCHANGED <<bypass, config_reference>> /\ live' \cap Configs \subseteq live
  BY <1>1 DEF TInv, ReferenceHasSlot
<1>2. ASSUME NEW c \in Configs, NEW m \in Modules, AddModule(c, m)
      PROVE  ReferenceHasSlot'
  BY <1>2 DEF AddModule, ModuleAddable, TInv, IInv, TypeOK, ReferenceHasSlot
<1>3. ASSUME NEW c \in Configs, DestroyConfig(c)
      PROVE  ReferenceHasSlot'
  <2>1. /\ live' \subseteq live \ {c}
        /\ \A d \in Configs \ {c} : bypass'[d] = bypass[d]
        /\ \A n \in Modules : config_reference'[n] \in {config_reference[n], Null}
    BY <1>3 DEF DestroyConfig, TInv, IInv, TypeOK
  <2> QED
    BY <2>1 DEF TInv, ReferenceHasSlot
<1>4. ASSUME NEW s \in Streams, NEW r \in Streams, TSetChild(s, r) \/ TSetRedundant(s, r)
      PROVE  ReferenceHasSlot'
  BY <1>1, <1>4 DEF TSetChild, TSetRedundant, SetChild, SetRedundant, configVars
<1>5. ASSUME NEW s \in Streams, TDestroyStream(s) \/ CleanOperations(s) \/ \E o \in OpCodes : AddOperation(s, o)
      PROVE  ReferenceHasSlot'
  BY <1>1, <1>5 DEF TDestroyStream, DestroyStream, CleanOperations, AddOperation, vars, configVars
<1>6. ASSUME NEW m \in Modules, (\E s \in Streams : TAddStream(m, s)) \/ TDestroyModule(m)
      PROVE  ReferenceHasSlot'
  BY <1>1, <1>6 DEF TAddStream, TAddModuleStream, AddModuleStream, TDestroyModule, DestroyModule, configVars
<1>7. CASE OtherCalls
  BY <1>1, <1>2, <1>7 DEF OtherCalls, Enable, EnableFails, UseAfterFree, configVars
<1> QED
  BY <1>3, <1>4, <1>5, <1>6, <1>7 DEF TNext, TDestroyConfig

-----------------------------------------------------------------------------
(* The indexes of the redundancy table *)

\* A listed stream has a position.
LEMMA PositionListed ==
  ASSUME NEW seq, NEW s \in Listed(seq)
  PROVE  PositionOf(seq, s) \in DOMAIN seq /\ seq[PositionOf(seq, s)] = s
BY DEF Listed, PositionOf

\* The streams before a position can be counted; the count grows with every one
\* of the set.
LEMMA CountBefore ==
  ASSUME NEW S, NEW seq \in Seq(S), NEW set, NEW i \in DOMAIN seq
  PROVE  /\ NumBefore(seq, i, set) \in Nat
         /\ \A j \in DOMAIN seq :
              i < j /\ seq[i] \in set => NumBefore(seq, i, set) < NumBefore(seq, j, set)
<1> DEFINE before(k) == { n \in 1 .. k - 1 : seq[n] \in set }
<1>1. i \in Nat /\ DOMAIN seq \subseteq Nat
  OBVIOUS
<1>2. ASSUME NEW k \in Nat
      PROVE  IsFiniteSet(before(k)) /\ Cardinality(before(k)) \in Nat
  <2>1. IsFiniteSet(1 .. k - 1)
    BY FS_Interval
  <2>2. before(k) \in SUBSET (1 .. k - 1)
    OBVIOUS
  <2>3. IsFiniteSet(before(k))
    BY <2>1, <2>2, FS_Subset
  <2> QED
    BY <2>3, FS_CardinalityType
<1>3. ASSUME NEW j \in DOMAIN seq, i < j, seq[i] \in set
      PROVE  Cardinality(before(i)) < Cardinality(before(j))
  <2>1. before(i) \in SUBSET before(j) /\ i \in before(j) /\ i \notin before(i) /\ j \in Nat
    BY <1>1, <1>3
  <2> HIDE DEF before
  <2>2. IsFiniteSet(before(j)) /\ Cardinality(before(i)) \in Nat /\ Cardinality(before(j)) \in Nat
    BY <1>1, <1>2, <2>1
  <2>3. /\ Cardinality(before(i)) <= Cardinality(before(j))
        /\ Cardinality(before(j)) = Cardinality(before(i)) => before(j) = before(i)
    BY <2>1, <2>2, FS_Subset
  <2> QED
    BY <2>1, <2>2, <2>3
<1> QED
  BY <1>1, <1>2, <1>3 DEF NumBefore

\* Two streams of the set that are listed have different numbers of others of
\* the set before them.
LEMMA CountsDiffer ==
  ASSUME NEW S, NEW seq \in Seq(S), NEW set,
         NEW s \in Listed(seq) \cap set, NEW t \in Listed(seq) \cap set, s # t
  PROVE  NumBefore(seq, PositionOf(seq, s), set) # NumBefore(seq, PositionOf(seq, t), set)
<1> DEFINE i == PositionOf(seq, s)
           j == PositionOf(seq, t)
<1>1. i \in DOMAIN seq /\ seq[i] = s /\ j \in DOMAIN seq /\ seq[j] = t
  BY PositionListed
<1> HIDE DEF i, j
<1>2. i \in Nat /\ j \in Nat /\ i # j
  BY <1>1
<1>3. /\ NumBefore(seq, i, set) \in Nat /\ NumBefore(seq, j, set) \in Nat
      /\ i < j => NumBefore(seq, i, set) < NumBefore(seq, j, set)
      /\ j < i => NumBefore(seq, j, set) < NumBefore(seq, i, set)
  BY <1>1, CountBefore
<1> QED
  BY <1>2, <1>3 DEF i, j

\* Indexes that are not computed again stay right as long as no stream gets
\* paired.
LEMMA IndexesKept ==
  ASSUME TInv, redundand_index' \in [Streams -> Nat],
         \A s \in Streams : Paired(s)' =>
           /\ Paired(s) /\ redundand_index'[s] = redundand_index[s]
           /\ reference_redundant'[s] = reference_redundant[s]
           /\ entry'[s] = entry[s]
           /\ entry'[reference_redundant[s]] = entry[reference_redundant[s]]
           /\ redundand_index'[reference_redundant[s]] = redundand_index[reference_redundant[s]]
  PROVE  PairIndexes'
<1>1. ASSUME NEW s \in Streams, Paired(s)'
      PROVE  /\ redundand_index'[s] >= REDUNDANCY_START_IDX
             /\ redundand_index'[s] = redundand_index'[reference_redundant'[s]]
  BY <1>1 DEF TInv, PairIndexes
<1>2. ASSUME NEW s \in Streams, Paired(s)', NEW t \in Streams \ {s}, Paired(t)', SideBySide(s, t)'
      PROVE  redundand_index'[s] # redundand_index'[t]
  <2>1. SideBySide(s, t) /\ Paired(s) /\ Paired(t)
    BY <1>2 DEF SideBySide
  <2> QED
    BY <1>2, <2>1 DEF TInv, PairIndexes
<1> QED
  BY <1>1, <1>2 DEF PairIndexes

\* The call that computes the indexes of the list of m makes those of all pairs
\* with a half in m right, for both halves; the others it leaves alone.
LEMMA IndexesComputed ==
  ASSUME TInv, IInv', Listing', NEW m \in Modules, ~PairFreed(m)',
         redundand_index' = CalculateRedundancy(order'[m], type', reference_redundant'),
         \A s \in Streams :
           Paired(s)' /\ entry'[s] # m /\ entry'[reference_redundant'[s]] # m =>
             /\ Paired(s) /\ entry'[s] = entry[s]
             /\ reference_redundant'[s] = reference_redundant[s]
             /\ entry'[reference_redundant[s]] = entry[reference_redundant[s]]
  PROVE  IndexesTyped' /\ PairIndexes'
<1> DEFINE seq == order'[m]
           set == OfType(type', RedundantTypes)
           rank(x) == REDUNDANCY_START_IDX + NumBefore(seq, PositionOf(seq, x), set)
           other(x) == reference_redundant'[x]
<1> USE NullAssumption
<1>1. seq \in Seq(Streams) /\ Listed(seq) = { x \in Streams : entry'[x] = m }
  BY DEF Listing, StreamsOf
<1>2. \A x \in Listed(seq) : rank(x) \in Nat /\ rank(x) >= REDUNDANCY_START_IDX
  <2>1. ASSUME NEW x \in Listed(seq)
        PROVE  NumBefore(seq, PositionOf(seq, x), set) \in Nat
    <3>1. PositionOf(seq, x) \in DOMAIN seq
      BY PositionListed
    <3> HIDE DEF seq, set
    <3> QED
      BY <1>1, <3>1, CountBefore
  <2> HIDE DEF seq, set
  <2> QED
    BY <2>1
<1>3. ASSUME NEW x \in Listed(seq), NEW y \in Listed(seq), x # y, x \in set, y \in set
      PROVE  rank(x) # rank(y)
  <2> HIDE DEF seq, set
  <2>1. /\ NumBefore(seq, PositionOf(seq, x), set) \in Nat
        /\ NumBefore(seq, PositionOf(seq, y), set) \in Nat
    BY <1>1, PositionListed, CountBefore
  <2>2. NumBefore(seq, PositionOf(seq, x), set) # NumBefore(seq, PositionOf(seq, y), set)
    BY <1>1, <1>3, CountsDiffer
  <2> QED
    BY <2>1, <2>2
<1>4. redundand_index' =
        [s \in Streams |->
           IF s \in Listed(seq)
           THEN IF type'[s] \in RedundantTypes THEN rank(s) ELSE 0
           ELSE IF \E x \in Listed(seq) : type'[x] \in RedundantTypes /\ other(x) = s
           THEN rank(other(s))
           ELSE redundand_index[s]]
  BY DEF CalculateRedundancy
<1>5. ASSUME NEW x \in Listed(seq), x \in set
      PROVE  other(x) \in Streams \cap live' /\ other(other(x)) = x /\ other(x) \in set
  BY <1>1, <1>5 DEF IInv, TypeOK, PairsInverse, ListsAllocated, PairFreed, Freed, StreamsOf, OfType
<1>6. \A s \in Streams : s \in set <=> type'[s] \in RedundantTypes
  BY DEF OfType
<1> HIDE DEF seq, set, rank
<1>7. IndexesTyped'
  <2>1. \A s \in Streams : redundand_index'[s] \in Nat
    BY <1>1, <1>2, <1>4, <1>5, <1>6 DEF TInv, IndexesTyped
  <2> QED
    BY <1>4, <2>1 DEF IndexesTyped
\* A pair has its halves in different modules.
<1>8. ASSUME NEW s \in Streams, Paired(s)'
      PROVE  /\ other(s) \in Streams /\ other(other(s)) = s
             /\ s \in set /\ other(s) \in set
             /\ entry'[s] # entry'[other(s)]
  BY <1>6, <1>8 DEF Paired, IInv, TypeOK, PairsInverse, PairsSplit
<1>9. ASSUME NEW s \in Streams, Paired(s)', s \in Listed(seq)
      PROVE  redundand_index'[s] = rank(s) /\ redundand_index'[other(s)] = rank(s)
  <2>1. other(s) \notin Listed(seq)
    BY <1>1, <1>8, <1>9
  <2> QED
    BY <1>4, <1>6, <1>8, <1>9, <2>1
<1>10. ASSUME NEW s \in Streams, Paired(s)', other(s) \in Listed(seq)
       PROVE  redundand_index'[s] = rank(other(s)) /\ redundand_index'[other(s)] = rank(other(s))
  <2>1. s \notin Listed(seq)
    BY <1>1, <1>8, <1>10
  <2> QED
    BY <1>4, <1>6, <1>8, <1>10, <2>1
<1>11. ASSUME NEW s \in Streams, Paired(s)', s \notin Listed(seq), other(s) \notin Listed(seq)
       PROVE  /\ redundand_index'[s] = redundand_index[s]
              /\ redundand_index'[other(s)] = redundand_index[other(s)]
              /\ Paired(s) /\ other(s) = reference_redundant[s]
              /\ entry'[s] = entry[s] /\ entry'[other(s)] = entry[other(s)]
  <2>1. /\ Paired(s) /\ other(s) = reference_redundant[s]
        /\ entry'[s] = entry[s] /\ entry'[other(s)] = entry[other(s)]
    BY <1>1, <1>8, <1>11
  <2>2. \A x \in Listed(seq) : type'[x] \in RedundantTypes => other(x) # s /\ other(x) # other(s)
    BY <1>1, <1>5, <1>6, <1>8, <1>11
  <2> QED
    BY <1>4, <1>8, <1>11, <2>1, <2>2
<1>12. ASSUME NEW s \in Streams, Paired(s)'
       PROVE  redundand_index'[s] >= REDUNDANCY_START_IDX /\ redundand_index'[s] = redundand_index'[other(s)]
  <2>1. CASE s \in Listed(seq)
    BY <1>2, <1>9, <1>12, <2>1
  <2>2. CASE other(s) \in Listed(seq)
    BY <1>2, <1>10, <1>12, <2>2
  <2>3. CASE s \notin Listed(seq) /\ other(s) \notin Listed(seq)
    BY <1>11, <1>12, <2>3 DEF TInv, PairIndexes
  <2> QED
    BY <2>1, <2>2, <2>3
<1>13. ASSUME NEW s \in Streams, Paired(s)', NEW t \in Streams \ {s}, Paired(t)', SideBySide(s, t)'
       PROVE  redundand_index'[s] # redundand_index'[t]
  <2>1. entry'[s] = entry'[t] /\ entry'[other(s)] = entry'[other(t)]
    BY <1>13 DEF SideBySide
  <2>2. CASE s \in Listed(seq)
    <3>1. t \in Listed(seq) /\ s \in set /\ t \in set
      BY <1>1, <1>8, <1>13, <2>1, <2>2
    <3> QED
      BY <1>3, <1>9, <1>13, <2>2, <3>1
  <2>3. CASE other(s) \in Listed(seq)
    <3>1. /\ other(t) \in Listed(seq) /\ other(s) \in set /\ other(t) \in set
          /\ other(s) # other(t)
      BY <1>1, <1>8, <1>13, <2>1, <2>3
    <3> QED
      BY <1>3, <1>10, <1>13, <2>3, <3>1
  <2>4. CASE s \notin Listed(seq) /\ other(s) \notin Listed(seq)
    <3>1. t \notin Listed(seq) /\ other(t) \notin Listed(seq)
      BY <1>1, <1>8, <1>13, <2>1, <2>4
    <3>2. /\ Paired(s) /\ Paired(t) /\ redundand_index'[s] = redundand_index[s]
          /\ redundand_index'[t] = redundand_index[t]
      BY <1>11, <1>13, <2>4, <3>1
    <3>3. SideBySide(s, t)
      BY <1>11, <1>13, <2>1, <2>4, <3>1 DEF SideBySide
    <3> QED
      BY <1>13, <3>2, <3>3 DEF TInv, PairIndexes
  <2> QED
    BY <2>2, <2>3, <2>4
<1>14. PairIndexes'
  BY <1>12, <1>13 DEF PairIndexes
<1> QED
  BY <1>7, <1>14

\* A stream that becomes a child is no half of a pair.
LEMMA SetChildIndexes ==
  ASSUME TInv, NEW s \in Streams, NEW r \in Streams, TSetChild(s, r)
  PROVE  IndexesTyped' /\ PairIndexes'
<1> USE NullAssumption, KindAssumption
<1>1. /\ redundand_index' = redundand_index /\ live' = live /\ type' = type
      /\ reference_redundant' = reference_redundant
      /\ \A x \in Streams \ {r} : entry'[x] = entry[x]
      /\ r \in live /\ type[r] \notin RedundantTypes
  BY DEF TSetChild, SetChild, ReferenceAllowed, IsParentChild, TInv, IInv, TypeOK
<1>2. redundand_index' \in [Streams -> Nat]
  BY <1>1 DEF TInv, IndexesTyped
<1>3. ASSUME NEW x \in Streams, Paired(x)'
      PROVE  /\ x # r /\ reference_redundant[x] \in Streams \ {r}
             /\ x \in live /\ type[x] \in RedundantTypes /\ reference_redundant[x] \in live
  BY <1>1, <1>3 DEF Paired, TInv, IInv, TypeOK, PairsInverse
<1>4. \A x \in Streams : Paired(x)' =>
        /\ Paired(x) /\ redundand_index'[x] = redundand_index[x]
        /\ reference_redundant'[x] = reference_redundant[x]
        /\ entry'[x] = entry[x]
        /\ entry'[reference_redundant[x]] = entry[reference_redundant[x]]
        /\ redundand_index'[reference_redundant[x]] = redundand_index[reference_redundant[x]]
  BY <1>1, <1>3 DEF Paired
<1> QED
  BY <1>2, <1>4, IndexesKept DEF IndexesTyped

\* A pair made of two listed streams gets its index at once; otherwise it is not
\* complete yet and, as no half of it can be added any more, never will be.
LEMMA SetRedundantIndexes ==
  ASSUME TInv, IInv', Listing', NEW s \in Streams, NEW r \in Streams, TSetRedundant(s, r)
  PROVE  IndexesTyped' /\ PairIndexes'
<1> USE NullAssumption, KindAssumption
<1>1. /\ live' = live /\ entry' = entry /\ order' = order
      /\ {s, r} \subseteq live
      /\ reference_redundant'[s] = r /\ reference_redundant'[r] = s
      /\ \A x \in Streams \ {s, r} : type'[x] = type[x] /\ reference_redundant'[x] = reference_redundant[x]
  BY DEF TSetRedundant, SetRedundant, ReferenceAllowed, TInv, IInv, TypeOK
<1>2. ASSUME NEW x \in Streams \ {s, r}, Paired(x)'
      PROVE  /\ Paired(x) /\ entry'[x] = entry[x]
             /\ reference_redundant'[x] = reference_redundant[x]
             /\ entry'[reference_redundant[x]] = entry[reference_redundant[x]]
  BY <1>1, <1>2 DEF Paired
<1>3. CASE entry[s] = Null
  <2>1. redundand_index' = redundand_index
    BY <1>3 DEF TSetRedundant
  <2>2. ~Paired(s)' /\ ~Paired(r)'
    BY <1>1, <1>3 DEF Paired
  <2>3. redundand_index' \in [Streams -> Nat]
    BY <2>1 DEF TInv, IndexesTyped
  <2>4. \A x \in Streams : Paired(x)' =>
          /\ Paired(x) /\ redundand_index'[x] = redundand_index[x]
          /\ reference_redundant'[x] = reference_redundant[x]
          /\ entry'[x] = entry[x]
          /\ entry'[reference_redundant[x]] = entry[reference_redundant[x]]
          /\ redundand_index'[reference_redundant[x]] = redundand_index[reference_redundant[x]]
    BY <1>2, <2>1, <2>2
  <2> QED
    BY <2>3, <2>4, IndexesKept DEF IndexesTyped
<1>4. CASE entry[s] # Null
  <2> PICK m \in Modules : m = entry[s]
    BY <1>4 DEF TInv, IInv, TypeOK
  <2>1. redundand_index' = CalculateRedundancy(order'[m], type', reference_redundant')
    BY <1>1, <1>4 DEF TSetRedundant
  <2>2. ~PairFreed(m)
    BY <1>4 DEF TSetRedundant, SetRedundant
  <2>3. ~PairFreed(m)'
    BY <1>1, <2>2 DEF PairFreed, Freed, StreamsOf
  <2>4. \A x \in Streams :
          Paired(x)' /\ entry'[x] # m /\ entry'[reference_redundant'[x]] # m =>
            /\ Paired(x) /\ entry'[x] = entry[x]
            /\ reference_redundant'[x] = reference_redundant[x]
            /\ entry'[reference_redundant[x]] = entry[reference_redundant[x]]
    BY <1>1, <1>2
  <2> QED
    BY <2>1, <2>3, <2>4, IndexesComputed
<1> QED
  BY <1>3, <1>4

\* The streams an ingress triggered stream takes along are in no pair; a time
\* triggered stream moves no other, and the indexes of its list are computed.
LEMMA AddModuleStreamIndexes ==
  ASSUME TInv, IInv', Listing', NEW m \in Modules, NEW s \in Streams,
         NEW added \in AddedPrefixes(s), TAddModuleStream(m, s, added)
  PROVE  IndexesTyped' /\ PairIndexes'
<1> USE NullAssumption, KindAssumption
<1>1. /\ live' = live /\ type' = type /\ reference_redundant' = reference_redundant
      /\ \A x \in Streams : entry'[x] = IF x \in added THEN m ELSE entry[x]
      /\ order' = [order EXCEPT ![m] = order[m] \o AddedSequence(s, added)]
  BY DEF TAddModuleStream, AddModuleStream
<1>2. \A x \in added : x \in Streams /\ type[x] \notin RedundantTypes
  <2>1. s \in live /\ type[s] \notin RedundantTypes
    BY DEF TAddModuleStream, AddModuleStream, StreamAddable
  <2>2. FirstChild(s) # Null =>
          /\ FirstChild(s) \in Streams \cap live /\ type[FirstChild(s)] \notin RedundantTypes
    BY <2>1 DEF FirstChild, TInv, IInv, TypeOK, ReferencesInverse
  <2>3. SecondChild(s) # Null =>
          SecondChild(s) \in Streams /\ type[SecondChild(s)] \notin RedundantTypes
    BY <2>2 DEF SecondChild, TInv, IInv, TypeOK, ReferencesInverse
  <2> QED
    BY <2>1, <2>2, <2>3 DEF AddedPrefixes
<1>3. ASSUME NEW x \in Streams, Paired(x)'
      PROVE  /\ Paired(x) /\ entry'[x] = entry[x]
             /\ reference_redundant'[x] = reference_redundant[x]
             /\ entry'[reference_redundant[x]] = entry[reference_redundant[x]]
             /\ reference_redundant[x] \in Streams
  <2>1. /\ x \in live /\ type[x] \in RedundantTypes
        /\ reference_redundant[x] \in live \cap Streams /\ type[reference_redundant[x]] \in RedundantTypes
    BY <1>1, <1>3 DEF Paired, TInv, IInv, TypeOK, PairsInverse
  <2> QED
    BY <1>1, <1>2, <1>3, <2>1 DEF Paired
<1>4. CASE type[s] = INGRESS_TRIGGERED_STREAM
  <2>1. redundand_index' = redundand_index
    BY <1>4 DEF TAddModuleStream
  <2>2. redundand_index' \in [Streams -> Nat]
    BY <2>1 DEF TInv, IndexesTyped
  <2>3. \A x \in Streams : Paired(x)' =>
          /\ Paired(x) /\ redundand_index'[x] = redundand_index[x]
          /\ reference_redundant'[x] = reference_redundant[x]
          /\ entry'[x] = entry[x]
          /\ entry'[reference_redundant[x]] = entry[reference_redundant[x]]
          /\ redundand_index'[reference_redundant[x]] = redundand_index[reference_redundant[x]]
    BY <1>3, <2>1
  <2> QED
    BY <2>2, <2>3, IndexesKept DEF IndexesTyped
<1>5. CASE type[s] = TIME_TRIGGERED_STREAM
  <2>1. redundand_index' = CalculateRedundancy(order'[m], type', reference_redundant')
    <3>1. order'[m] = order[m] \o AddedSequence(s, added)
      BY <1>1 DEF TInv, Listing
    <3> QED
      BY <1>1, <1>5, <3>1 DEF TAddModuleStream
  <2>2. ~PairFreed(m)
    BY <1>5 DEF TAddModuleStream, AddModuleStream
  <2>3. ~PairFreed(m)'
    BY <1>1, <1>2, <2>2 DEF PairFreed, Freed, StreamsOf
  <2> QED
    BY <1>3, <2>1, <2>3, IndexesComputed
<1> QED
  BY <1>4, <1>5 DEF TAddModuleStream, AddModuleStream, StreamAddable

\* Streams that are destroyed leave the other pairs as they are.
LEMMA DestroyIndexes ==
  ASSUME TInv,
         \/ \E s \in Streams : TDestroyStream(s)
         \/ \E m \in Modules : TDestroyModule(m)
         \/ \E c \in Configs : TDestroyConfig(c)
  PROVE  IndexesTyped' /\ PairIndexes'
<1> USE NullAssumption, DisjointAssumption, KindAssumption
<1>1. redundand_index' = [x \in Streams |-> IF x \in live \ live' THEN 0 ELSE redundand_index[x]]
  BY DEF TDestroyStream, TDestroyModule, TDestroyConfig, ResetFreed
<1>2. redundand_index' \in [Streams -> Nat]
  BY <1>1 DEF TInv, IndexesTyped
<1> DEFINE Kept(x) ==
             /\ x \in live /\ entry'[x] = entry[x]
             /\ reference_redundant'[x] # Null => reference_redundant'[x] = reference_redundant[x]
             /\ type'[x] \in RedundantTypes => type'[x] = type[x]
<1>3. ASSUME NEW x \in Streams \cap live'
      PROVE  Kept(x)
  <2>1. ASSUME NEW s \in Streams, TDestroyStream(s)
        PROVE  Kept(x)
    BY <1>3, <2>1 DEF TDestroyStream, DestroyStream, UnpairedType
  <2>2. ASSUME NEW m \in Modules, TDestroyModule(m)
        PROVE  Kept(x)
    BY <1>3, <2>2 DEF TDestroyModule, DestroyModule, FreeModules, StreamsOf
  <2>3. ASSUME NEW c \in Configs, TDestroyConfig(c)
        PROVE  Kept(x)
    BY <1>3, <2>3 DEF TDestroyConfig, DestroyConfig, FreeModules
  <2> QED
    BY <2>1, <2>2, <2>3
<1>4. ASSUME NEW x \in Streams, Paired(x)'
      PROVE  /\ x \in live' /\ reference_redundant'[x] \in live' \cap Streams
             /\ reference_redundant'[x] = reference_redundant[x]
  <2>1. x \in live' /\ type'[x] \in RedundantTypes /\ reference_redundant'[x] \in live'
    BY <1>4 DEF Paired
  <2>2. live' \subseteq live /\ Null \notin live'
    BY DEF TDestroyStream, DestroyStream, TDestroyModule, DestroyModule, TDestroyConfig, DestroyConfig,
           TInv, IInv, TypeOK
  <2>3. Kept(x) /\ reference_redundant'[x] = reference_redundant[x]
    BY <1>3, <2>1, <2>2
  <2>4. reference_redundant[x] \in Streams \cup {Null}
    BY DEF TInv, IInv, TypeOK
  <2> HIDE DEF Kept
  <2> QED
    BY <2>1, <2>2, <2>3, <2>4
<1>5. \A x \in Streams : Paired(x)' =>
        /\ Paired(x) /\ redundand_index'[x] = redundand_index[x]
        /\ reference_redundant'[x] = reference_redundant[x]
        /\ entry'[x] = entry[x]
        /\ entry'[reference_redundant[x]] = entry[reference_redundant[x]]
        /\ redundand_index'[reference_redundant[x]] = redundand_index[reference_redundant[x]]
  <2> TAKE x \in Streams
  <2> HAVE Paired(x)'
  <2>1. /\ x \in live' /\ reference_redundant[x] \in live' \cap Streams
        /\ reference_redundant'[x] = reference_redundant[x]
    BY <1>4
  <2>2. Kept(x) /\ Kept(reference_redundant[x])
    BY <1>3, <2>1
  <2> QED
    BY <1>1, <2>1, <2>2 DEF Paired
<1> QED
  BY <1>2, <1>5, IndexesKept DEF IndexesTyped

\* Every call leaves the indexes of the complete pairs right.
LEMMA NextIndexes ==
  ASSUME TInv, IInv', Listing', TNext
  PROVE  IndexesTyped' /\ PairIndexes'
<1>1. CASE UNCHANGED <<live, streamVars, redundand_index>>
  BY <1>1 DEF TInv, IndexesTyped, PairIndexes, Paired, SideBySide, streamVars
<1>2. ASSUME NEW s \in Streams, CleanOperations(s) \/ \E o \in OpCodes : AddOperation(s, o)
      PROVE  IndexesTyped' /\ PairIndexes'
  BY <1>1, <1>2 DEF CleanOperations, AddOperation, vars
<1>3. CASE OtherCalls /\ UNCHANGED tableVars
  BY <1>1, <1>3 DEF OtherCalls, AddModule, Enable, EnableFails, UseAfterFree, tableVars, indexVars
<1> QED
  BY <1>2, <1>3, SetChildIndexes, SetRedundantIndexes, AddModuleStreamIndexes, DestroyIndexes
     DEF TNext, TAddStream

-----------------------------------------------------------------------------
(* Sums of rows *)

\* A set of natural numbers has a least one.
LEMMA Least ==
  ASSUME NEW S \in SUBSET Nat, S # {}
  PROVE  \E x \in S : \A y \in S : x <= y
<1> DEFINE R == OpToRel(<, Nat)
           Q == {ss \in Nat \X Nat : ss[1] < ss[2]}
<1>1. IsWellFoundedOn(R, Nat)
  BY NatLessThanWellFounded, Zenon
<1>2. R = Q
  BY Zenon DEF OpToRel
<1> HIDE DEF R
<1>3. PICK x \in S : \A y \in S : ~(<<y, x>> \in Q)
  BY <1>1, <1>2, WFMin, Zenon
<1>4. ASSUME NEW y \in S PROVE x <= y
  <2>1. <<y, x>> \in Nat \X Nat
    OBVIOUS
  <2>2. ~(y < x)
    BY <1>3, <2>1
  <2> QED
    BY <2>2
<1> QED
  BY <1>4

\* What holds at the start and after every further step holds for all of them.
LEMMA StepsInduction ==
  ASSUME NEW n \in Nat, NEW P \in SUBSET Nat, 0 \in P, \A k \in 1 .. n : k - 1 \in P => k \in P
  PROVE  0 .. n \subseteq P
<1> SUFFICES ASSUME (0 .. n) \ P # {} PROVE FALSE
  OBVIOUS
<1> DEFINE S == (0 .. n) \ P
<1>0. S \in SUBSET Nat /\ S # {}
  OBVIOUS
<1> HIDE DEF S
<1>1. PICK k \in S : \A y \in S : k <= y
  BY <1>0, Least
<1> USE DEF S
<1>2. k # 0 /\ k - 1 \in 0 .. n /\ k \in 1 .. n
  BY <1>1
<1>3. k - 1 \in P
  BY <1>1, <1>2
<1> QED
  BY <1>1, <1>2, <1>3


\* The rows of the streams of a list can be summed up.
LEMMA SumsExist ==
  ASSUME NEW n \in Nat, NEW r \in [1 .. n -> Nat]
  PROVE  \E f \in [0 .. n -> Nat] : f = [k \in 0 .. n |-> IF k = 0 THEN 0 ELSE f[k - 1] + r[k]]
<1> DEFINE Is(f, m) == f = [k \in 0 .. m |-> IF k = 0 THEN 0 ELSE f[k - 1] + r[k]]
           P == { m \in 0 .. n : \E f \in [0 .. m -> Nat] : Is(f, m) }
<1>1. 0 \in P
  <2> DEFINE f == [k \in 0 .. 0 |-> 0]
  <2>1. f \in [0 .. 0 -> Nat] /\ Is(f, 0)
    OBVIOUS
  <2> HIDE DEF Is, f
  <2> QED
    BY <2>1
<1>2. ASSUME NEW m \in 1 .. n, m - 1 \in P
      PROVE  m \in P
  <2>1. PICK f \in [0 .. m - 1 -> Nat] : Is(f, m - 1)
    BY <1>2
  <2> DEFINE g == [k \in 0 .. m |-> IF k = m THEN f[m - 1] + r[m] ELSE f[k]]
  <2>2. m - 1 \in 0 .. m - 1 /\ f[m - 1] \in Nat /\ r[m] \in Nat
    BY <2>1
  <2>3. g \in [0 .. m -> Nat]
    BY <2>1, <2>2
  <2>4. \A k \in 0 .. m : g[k] = IF k = 0 THEN 0 ELSE g[k - 1] + r[k]
    <3> TAKE k \in 0 .. m
    <3>1. CASE k = m
      BY <2>1, <2>2, <3>1
    <3>2. CASE k # m
      <4>1. k \in 0 .. m - 1 /\ g[k] = f[k]
        BY <3>2
      <4>2. k # 0 => k - 1 \in 0 .. m /\ k - 1 # m /\ g[k - 1] = f[k - 1]
        BY <4>1
      <4>3. f[k] = IF k = 0 THEN 0 ELSE f[k - 1] + r[k]
        BY <2>1, <4>1
      <4> QED
        BY <4>1, <4>2, <4>3
    <3> QED
      BY <3>1, <3>2
  <2> HIDE DEF g
  <2>5. Is(g, m)
    BY <2>3, <2>4
  <2> HIDE DEF Is
  <2> QED
    BY <2>3, <2>5
<1> HIDE DEF P
<1>3. P \subseteq Nat
  BY DEF P
<1>4. 0 .. n \subseteq P
  BY <1>1, <1>2, <1>3, StepsInduction
<1>5. n \in P
  BY <1>4
<1>6. PICK f \in [0 .. n -> Nat] : Is(f, n)
  BY <1>5 DEF P
<1> QED
  BY <1>6

\* The rows before a stream are at least those before an earlier stream and the
\* rows of that stream.
LEMMA RowsBeforeGrow ==
  ASSUME NEW S, NEW seq \in Seq(S), NEW rows \in [S -> Nat]
  PROVE  /\ \A i \in DOMAIN seq : RowsBefore(seq, i, rows) \in Nat
         /\ \A i, j \in DOMAIN seq :
              i < j => RowsBefore(seq, i, rows) + rows[seq[i]] <= RowsBefore(seq, j, rows)
<1> DEFINE n == Len(seq)
           r == [k \in 1 .. n |-> rows[seq[k]]]
           Sum(f) == f = [k \in 0 .. n |-> IF k = 0 THEN 0 ELSE f[k - 1] + rows[seq[k]]]
           sum == RowsUpTo(seq, rows)
<1>1. n \in Nat /\ DOMAIN seq = 1 .. n /\ r \in [1 .. n -> Nat]
  OBVIOUS
<1>2. \E f : Sum(f) /\ f \in [0 .. n -> Nat]
  <2>1. PICK f \in [0 .. n -> Nat] : f = [k \in 0 .. n |-> IF k = 0 THEN 0 ELSE f[k - 1] + r[k]]
    <3> HIDE DEF n, r
    <3> QED
      BY <1>1, SumsExist
  <2>2. \A k \in 0 .. n : f[k] = IF k = 0 THEN 0 ELSE f[k - 1] + rows[seq[k]]
    <3> TAKE k \in 0 .. n
    <3>1. f[k] = IF k = 0 THEN 0 ELSE f[k - 1] + r[k]
      BY <2>1
    <3> QED
      BY <1>1, <3>1
  <2>3. Sum(f)
    BY <2>1, <2>2
  <2> QED
    BY <2>1, <2>3
<1>3. sum = CHOOSE f : Sum(f)
  BY Zenon DEF RowsUpTo
<1> HIDE DEF sum
<1>4. Sum(sum)
  <2> HIDE DEF Sum
  <2> QED
    BY <1>2, <1>3, Zenon
<1> HIDE DEF n, r
<1>5. sum[0] = 0 /\ \A k \in 1 .. n : sum[k] = sum[k - 1] + rows[seq[k]] /\ rows[seq[k]] \in Nat
  BY <1>1, <1>4
<1> HIDE DEF Sum
<1> DEFINE P == { k \in 0 .. n : sum[k] \in Nat }
<1>6. 0 .. n \subseteq P
  <2>1. P \in SUBSET Nat /\ 0 \in P
    BY <1>1, <1>5
  <2>2. ASSUME NEW k \in 1 .. n, k - 1 \in P
        PROVE  k \in P
    BY <1>1, <1>5, <2>2
  <2> HIDE DEF P
  <2> QED
    BY <1>1, <2>1, <2>2, StepsInduction
<1>7. ASSUME NEW i \in 1 .. n, NEW j \in 1 .. n, i < j
      PROVE  sum[i - 1] + rows[seq[i]] <= sum[j - 1]
  <2> DEFINE Q == { k \in 0 .. n : k >= i => sum[i] <= sum[k] }
  <2>1. Q \in SUBSET Nat /\ 0 \in Q
    BY <1>1
  <2>2. ASSUME NEW k \in 1 .. n, k - 1 \in Q
        PROVE  k \in Q
    <3>1. sum[k] = sum[k - 1] + rows[seq[k]] /\ rows[seq[k]] \in Nat /\ sum[k - 1] \in Nat /\ sum[k] \in Nat
      BY <1>1, <1>5, <1>6
    <3>2. CASE k > i
      <4>1. k - 1 >= i
        BY <1>1, <3>2
      <4>2. sum[i] <= sum[k - 1] /\ sum[i] \in Nat
        BY <1>6, <2>2, <4>1
      <4>3. \A a, b, c \in Nat : a <= b => a <= b + c
        OBVIOUS
      <4>4. sum[i] <= sum[k - 1] + rows[seq[k]]
        BY <3>1, <4>2, <4>3
      <4>5. sum[i] <= sum[k]
        BY <3>1, <4>4, Zenon
      <4> QED
        BY <4>5
    <3>3. CASE k = i
      BY <1>1, <3>1, <3>3
    <3>4. CASE k < i
      BY <1>1, <3>4
    <3> QED
      BY <1>1, <3>2, <3>3, <3>4
  <2> HIDE DEF Q
  <2>3. 0 .. n \subseteq Q
    BY <1>1, <2>1, <2>2, StepsInduction
  <2>4. sum[i] <= sum[j - 1]
    BY <1>1, <1>7, <2>3 DEF Q
  <2>5. sum[i] = sum[i - 1] + rows[seq[i]]
    BY <1>5
  <2> QED
    BY <2>4, <2>5
<1>8. \A i : RowsBefore(seq, i, rows) = sum[i - 1]
  BY DEF RowsBefore, sum
<1>9. \A i \in 1 .. n : sum[i - 1] \in Nat
  BY <1>1, <1>6
<1> QED
  BY <1>1, <1>7, <1>8, <1>9

-----------------------------------------------------------------------------
(* Rows of the gather and the scatter table *)

\* The rows of two streams of L are never the same ones, and none is before start.
Apart(L, index, rows, start) ==
  /\ \A s \in L : rows[s] # 0 => index[s] >= start
  /\ \A s, t \in L :
       s # t /\ rows[s] # 0 /\ rows[t] # 0 =>
         index[s] + rows[s] <= index[t] \/ index[t] + rows[t] <= index[s]

\* Rows that are laid out in the order of a list are apart.
LEMMA ComputedApart ==
  ASSUME NEW seq \in Seq(Streams), NEW rows \in [Streams -> Nat], NEW start \in Nat, NEW index,
         \A s \in Listed(seq) :
           rows[s] # 0 => index[s] = start + RowsBefore(seq, PositionOf(seq, s), rows)
  PROVE  Apart(Listed(seq), index, rows, start)
<1> DEFINE pos(s) == PositionOf(seq, s)
           before(s) == RowsBefore(seq, PositionOf(seq, s), rows)
<1>1. ASSUME NEW s \in Listed(seq)
      PROVE  s \in Streams /\ rows[s] \in Nat /\ before(s) \in Nat
  <2>1. pos(s) \in DOMAIN seq /\ seq[pos(s)] = s
    BY PositionListed
  <2>2. before(s) \in Nat
    <3> HIDE DEF pos
    <3>1. RowsBefore(seq, pos(s), rows) \in Nat
      BY <2>1, RowsBeforeGrow
    <3> QED
      BY <3>1 DEF pos
  <2>3. s \in Streams
    <3> HIDE DEF pos
    <3> QED
      BY <2>1
  <2> QED
    BY <2>2, <2>3
<1>2. ASSUME NEW s \in Listed(seq), NEW t \in Listed(seq), s # t
      PROVE  before(s) + rows[s] <= before(t) \/ before(t) + rows[t] <= before(s)
  <2>1. /\ pos(s) \in DOMAIN seq /\ seq[pos(s)] = s
        /\ pos(t) \in DOMAIN seq /\ seq[pos(t)] = t
    BY PositionListed
  <2> HIDE DEF pos
  <2>2. pos(s) \in Nat /\ pos(t) \in Nat /\ pos(s) # pos(t)
    BY <1>2, <2>1
  <2>3. \/ RowsBefore(seq, pos(s), rows) + rows[seq[pos(s)]] <= RowsBefore(seq, pos(t), rows)
        \/ RowsBefore(seq, pos(t), rows) + rows[seq[pos(t)]] <= RowsBefore(seq, pos(s), rows)
    <3>1. pos(s) < pos(t) \/ pos(t) < pos(s)
      BY <2>2
    <3> QED
      BY <2>1, <3>1, RowsBeforeGrow
  <2> QED
    BY <2>1, <2>3, Zenon DEF pos
<1>3. \A s \in Listed(seq) : rows[s] # 0 => index[s] = start + before(s)
  OBVIOUS
<1> HIDE DEF before
<1>4. \A s \in Listed(seq) : rows[s] # 0 => index[s] >= start
  BY <1>1, <1>3
<1>5. ASSUME NEW s \in Listed(seq), NEW t \in Listed(seq), s # t, rows[s] # 0, rows[t] # 0
      PROVE  index[s] + rows[s] <= index[t] \/ index[t] + rows[t] <= index[s]
  <2>1. /\ before(s) \in Nat /\ before(t) \in Nat /\ rows[s] \in Nat /\ rows[t] \in Nat
        /\ index[s] = start + before(s) /\ index[t] = start + before(t)
    BY <1>1, <1>3, <1>5
  <2>2. before(s) + rows[s] <= before(t) \/ before(t) + rows[t] <= before(s)
    BY <1>2, <1>5
  <2> QED
    BY <2>1, <2>2
<1> QED
  BY <1>4, <1>5 DEF Apart

\* Streams that keep their index and need no more rows than before stay apart.
LEMMA ApartKept ==
  ASSUME NEW L, NEW index, NEW rows, NEW start, Apart(L, index, rows, start),
         NEW L2, NEW index2, NEW rows2,
         \A s \in L2 : rows2[s] # 0 =>
           /\ s \in L /\ index2[s] = index[s] /\ index[s] \in Nat
           /\ rows[s] \in Nat /\ rows2[s] \in Nat /\ rows2[s] <= rows[s]
  PROVE  Apart(L2, index2, rows2, start)
<1>1. ASSUME NEW s \in L2, rows2[s] # 0
      PROVE  index2[s] >= start
  <2>1. rows[s] # 0
    BY <1>1
  <2> QED
    BY <1>1, <2>1 DEF Apart
<1>2. ASSUME NEW s \in L2, NEW t \in L2, s # t, rows2[s] # 0, rows2[t] # 0
      PROVE  index2[s] + rows2[s] <= index2[t] \/ index2[t] + rows2[t] <= index2[s]
  <2>1. rows[s] # 0 /\ rows[t] # 0 /\ s \in L /\ t \in L
    BY <1>2
  <2>2. index[s] + rows[s] <= index[t] \/ index[t] + rows[t] <= index[s]
    BY <1>2, <2>1 DEF Apart
  <2> QED
    BY <1>2, <2>2
<1> QED
  BY <1>1, <1>2 DEF Apart

\* How many operations of a code there are, and what one more changes.
LEMMA NumOfTyped ==
  ASSUME NEW ops \in Seq(OpCodes), NEW o
  PROVE  NumOf(ops, o) \in Nat /\ NumOf(ops, o) <= Len(ops)
<1> DEFINE n == Len(ops)
           D == { i \in DOMAIN ops : ops[i] = o }
<1>1. n \in Nat /\ DOMAIN ops = 1 .. n /\ D \in SUBSET (1 .. n)
  OBVIOUS
<1> HIDE DEF n, D
<1>2. IsFiniteSet(1 .. n) /\ Cardinality(1 .. n) = n
  <2>1. IsFiniteSet(1 .. n) /\ Cardinality(1 .. n) = IF 1 > n THEN 0 ELSE n - 1 + 1
    BY <1>1, FS_Interval
  <2> QED
    BY <1>1, <2>1
<1>3. IsFiniteSet(D) /\ Cardinality(D) <= Cardinality(1 .. n)
  BY <1>1, <1>2, FS_Subset
<1>4. Cardinality(D) \in Nat
  BY <1>3, FS_CardinalityType
<1> QED
  BY <1>2, <1>3, <1>4 DEF NumOf, D, n

\* stream_num_operations_x() after one more operation.
LEMMA NumOfAppend ==
  ASSUME NEW ops \in Seq(OpCodes), NEW p \in OpCodes, NEW o
  PROVE  NumOf(Append(ops, p), o) = NumOf(ops, o) + (IF p = o THEN 1 ELSE 0)
<1> DEFINE n == Len(ops)
           more == Append(ops, p)
           D == { i \in DOMAIN ops : ops[i] = o }
           E == { i \in DOMAIN more : more[i] = o }
<1>1. /\ n \in Nat /\ DOMAIN ops = 1 .. n /\ D \in SUBSET (1 .. n)
      /\ DOMAIN more = 1 .. (n + 1) /\ more[n + 1] = p
      /\ \A i \in 1 .. n : more[i] = ops[i]
  OBVIOUS
<1>2. E = IF p = o THEN D \cup {n + 1} ELSE D
  BY <1>1
<1>3. n + 1 \notin D
  BY <1>1
<1> HIDE DEF n, D, E, more
<1>4. IsFiniteSet(D)
  <2>1. IsFiniteSet(1 .. n)
    BY <1>1, FS_Interval
  <2> QED
    BY <1>1, <2>1, FS_Subset
<1>5. Cardinality(D) \in Nat
  BY <1>4, FS_CardinalityType
<1>6. Cardinality(D \cup {n + 1}) = Cardinality(D) + 1
  BY <1>3, <1>4, FS_AddElement
<1>7. Cardinality(E) = Cardinality(D) + (IF p = o THEN 1 ELSE 0)
  BY <1>2, <1>5, <1>6
<1>8. NumOf(ops, o) = Cardinality(D) /\ NumOf(more, o) = Cardinality(E)
  BY Zenon DEF NumOf, D, E
<1> QED
  BY <1>7, <1>8 DEF more

\* The rows a stream needs are a number.
LEMMA RowsTyped ==
  ASSUME NEW s \in Streams, NEW ty, NEW op \in [Streams -> Seq(OpCodes)]
  PROVE  /\ NumGatherOps(s, ty, op) \in Nat /\ NumPrefetchOps(s, op) \in Nat
         /\ GatherRows(s, ty, op) \in Nat /\ ScatterRows(s, ty, op) \in Nat
<1>1. op[s] \in Seq(OpCodes) /\ Len(op[s]) \in Nat /\ HeaderOps(s) \in Nat
  BY DEF HeaderOps, NUM_AUTOGEN_OPS
<1>2. \A o : NumOf(op[s], o) \in Nat /\ NumOf(op[s], o) <= Len(op[s])
  BY <1>1, NumOfTyped
<1>3. NumGatherOps(s, ty, op) \in Nat
  <2>1. Len(op[s]) - NumOf(op[s], READ) \in Nat
    BY <1>1, <1>2
  <2> QED
    BY <1>1, <2>1, <1>2 DEF NumGatherOps
<1>4. NumPrefetchOps(s, op) \in Nat
  BY <1>2 DEF NumPrefetchOps, NUM_PREFETCH_LOCK_COMMANDS
<1>5. ScatterRows(s, ty, op) \in Nat
  BY <1>2 DEF ScatterRows
<1> QED
  BY <1>3, <1>4, <1>5 DEF GatherRows

\* They depend on the type and the operations of the stream only.
LEMMA SameRows ==
  ASSUME NEW s, NEW ty, NEW op, NEW ty2, NEW op2, ty2[s] = ty[s], op2[s] = op[s]
  PROVE  /\ NumGatherOps(s, ty2, op2) = NumGatherOps(s, ty, op)
         /\ GatherRows(s, ty2, op2) = GatherRows(s, ty, op)
         /\ ScatterRows(s, ty2, op2) = ScatterRows(s, ty, op)
BY DEF NumGatherOps, GatherRows, ScatterRows, OnlyForwards, NumPrefetchOps

-----------------------------------------------------------------------------
(* The tables of a module *)

\* The tables of the streams L, as RowsOwned has them: L, the types ty and the
\* operations op are those before or after a call.
GatherLaid(L, ty, op, index) ==
  /\ Apart(L, index, [x \in Streams |-> GatherRows(x, ty, op)], GATHER_START_IDX)
  /\ \A s \in L : ty[s] \in LookupTypes /\ GatherRows(s, ty, op) = 0 =>
       index[s] = IF NumGatherOps(s, ty, op) = 0 THEN GATHER_NOP_IDX ELSE GATHER_FORWARD_IDX

ScatterLaid(L, ty, op, index) ==
  /\ Apart(L, index, [x \in Streams |-> ScatterRows(x, ty, op)], SCATTER_START_IDX)
  /\ \A s \in L : ty[s] \in LookupTypes /\ ScatterRows(s, ty, op) = 0 => index[s] = SCATTER_NOP_IDX

LookupLaid(L, ty, index) ==
  \A s \in L : ty[s] \in LookupTypes =>
    /\ index[s] \in LOOKUP_START_IDX .. MaxLookup - 1
    /\ \A t \in L \ {s} : ty[t] \in LookupTypes => index[s] # index[t]

GatherHolds(m) == m \notin unrefreshed => GatherLaid(StreamsOf(m), type, operations, gather_dma_index)
ScatterHolds(m) == ScatterLaid(StreamsOf(m), type, operations, scatter_dma_index)
LookupHolds(m) == LookupLaid(StreamsOf(m), type, lookup_index)

OperationsTyped == operations \in [Streams -> Seq(OpCodes)]
TablesTyped ==
  /\ gather_dma_index \in [Streams -> Nat]
  /\ scatter_dma_index \in [Streams -> Nat]
  /\ lookup_index \in [Streams -> Nat]

TablesLaid == \A m \in Modules : GatherHolds(m) /\ ScatterHolds(m) /\ LookupHolds(m)

RInv == TInv /\ OperationsTyped /\ TablesTyped /\ TablesLaid

\* Computing the indexes of a list puts the rows of its streams in order.
LEMMA GatherComputed ==
  ASSUME NEW seq \in Seq(Streams), NEW ty, NEW op \in [Streams -> Seq(OpCodes)],
         gather_dma_index \in [Streams -> Nat]
  PROVE  /\ GatherLaid(Listed(seq), ty, op, CalculateGather(seq, ty, op))
         /\ CalculateGather(seq, ty, op) \in [Streams -> Nat]
         /\ \A s \in Streams \ Listed(seq) : CalculateGather(seq, ty, op)[s] = gather_dma_index[s]
<1> DEFINE rows == [x \in Streams |-> GatherRows(x, ty, op)]
           new == CalculateGather(seq, ty, op)
           before(s) == RowsBefore(seq, PositionOf(seq, s), rows)
<1>1. rows \in [Streams -> Nat] /\ \A s \in Streams : rows[s] = GatherRows(s, ty, op)
  BY RowsTyped
<1>2. new = [s \in Streams |->
               IF s \notin Listed(seq) THEN gather_dma_index[s]
               ELSE IF NumGatherOps(s, ty, op) = 0 THEN GATHER_NOP_IDX
               ELSE IF OnlyForwards(s, ty, op) THEN GATHER_FORWARD_IDX
               ELSE GATHER_START_IDX + before(s)]
  BY Zenon DEF CalculateGather
<1>3. ASSUME NEW s \in Listed(seq)
      PROVE  s \in Streams /\ before(s) \in Nat
  <2>1. PositionOf(seq, s) \in DOMAIN seq /\ seq[PositionOf(seq, s)] = s
    BY PositionListed
  <2>2. s \in Streams
    BY <2>1
  <2> DEFINE i == PositionOf(seq, s)
  <2> HIDE DEF i, rows
  <2>3. RowsBefore(seq, i, rows) \in Nat
    BY <1>1, <2>1, RowsBeforeGrow DEF i
  <2> QED
    BY <2>2, <2>3 DEF i
<1> HIDE DEF new, before
<1>4. new \in [Streams -> Nat]
  <2>1. GATHER_NOP_IDX \in Nat /\ GATHER_FORWARD_IDX \in Nat /\ GATHER_START_IDX \in Nat
    BY DEF GATHER_NOP_IDX, GATHER_FORWARD_IDX, GATHER_START_IDX
  <2>2. \A s \in Listed(seq) : GATHER_START_IDX + before(s) \in Nat
    BY <1>3, <2>1
  <2>3. \A s \in Streams : new[s] \in Nat
    BY <1>2, <2>1, <2>2
  <2> QED
    BY <1>2, <2>3
<1>5. \A s \in Streams \ Listed(seq) : new[s] = gather_dma_index[s]
  BY <1>2
<1>6. \A s \in Listed(seq) : rows[s] # 0 => new[s] = GATHER_START_IDX + before(s)
  <2>1. \A s \in Streams : rows[s] # 0 => NumGatherOps(s, ty, op) # 0 /\ ~OnlyForwards(s, ty, op)
    BY <1>1 DEF GatherRows
  <2> HIDE DEF rows
  <2> QED
    BY <1>2, <1>3, <2>1
<1>7. \A s \in Listed(seq) : GatherRows(s, ty, op) = 0 =>
        new[s] = IF NumGatherOps(s, ty, op) = 0 THEN GATHER_NOP_IDX ELSE GATHER_FORWARD_IDX
  <2>1. ASSUME NEW s \in Streams, GatherRows(s, ty, op) = 0
        PROVE  NumGatherOps(s, ty, op) = 0 \/ OnlyForwards(s, ty, op)
    <3>1. NumGatherOps(s, ty, op) \in Nat /\ NumPrefetchOps(s, op) \in Nat
      BY RowsTyped
    <3> QED
      BY <2>1, <3>1 DEF GatherRows
  <2> QED
    BY <1>2, <1>3, <2>1
<1> HIDE DEF rows
<1>8. Apart(Listed(seq), new, rows, GATHER_START_IDX)
  <2>1. GATHER_START_IDX \in Nat
    BY DEF GATHER_START_IDX
  <2> QED
    BY <1>1, <1>6, <2>1, ComputedApart DEF before
<1>9. GatherLaid(Listed(seq), ty, op, new)
  BY <1>7, <1>8, Zenon DEF GatherLaid, rows
<1> QED
  BY <1>4, <1>5, <1>9 DEF new

\* calculate_scatter_indizes() does the same for the rows of reads.
LEMMA ScatterComputed ==
  ASSUME NEW seq \in Seq(Streams), NEW ty, NEW op \in [Streams -> Seq(OpCodes)],
         scatter_dma_index \in [Streams -> Nat]
  PROVE  /\ ScatterLaid(Listed(seq), ty, op, CalculateScatter(seq, ty, op))
         /\ CalculateScatter(seq, ty, op) \in [Streams -> Nat]
         /\ \A s \in Streams \ Listed(seq) : CalculateScatter(seq, ty, op)[s] = scatter_dma_index[s]
<1> DEFINE rows == [x \in Streams |-> ScatterRows(x, ty, op)]
           new == CalculateScatter(seq, ty, op)
           before(s) == RowsBefore(seq, PositionOf(seq, s), rows)
<1>1. rows \in [Streams -> Nat] /\ \A s \in Streams : rows[s] = ScatterRows(s, ty, op)
  BY RowsTyped
<1>2. new = [s \in Streams |->
               IF s \notin Listed(seq) THEN scatter_dma_index[s]
               ELSE IF ScatterRows(s, ty, op) = 0 THEN SCATTER_NOP_IDX
               ELSE SCATTER_START_IDX + before(s)]
  BY Zenon DEF CalculateScatter
<1>3. ASSUME NEW s \in Listed(seq)
      PROVE  s \in Streams /\ before(s) \in Nat
  <2>1. PositionOf(seq, s) \in DOMAIN seq /\ seq[PositionOf(seq, s)] = s
    BY PositionListed
  <2>2. s \in Streams
    BY <2>1
  <2> DEFINE i == PositionOf(seq, s)
  <2> HIDE DEF i, rows
  <2>3. RowsBefore(seq, i, rows) \in Nat
    BY <1>1, <2>1, RowsBeforeGrow DEF i
  <2> QED
    BY <2>2, <2>3 DEF i
<1> HIDE DEF new, before
<1>4. new \in [Streams -> Nat]
  BY <1>2, <1>3 DEF SCATTER_NOP_IDX, SCATTER_START_IDX
<1>5. \A s \in Streams \ Listed(seq) : new[s] = scatter_dma_index[s]
  BY <1>2
<1>6. \A s \in Listed(seq) : rows[s] # 0 => new[s] = SCATTER_START_IDX + before(s)
  BY <1>1, <1>2, <1>3
<1>7. \A s \in Listed(seq) : ScatterRows(s, ty, op) = 0 => new[s] = SCATTER_NOP_IDX
  BY <1>2, <1>3
<1> HIDE DEF rows
<1>8. Apart(Listed(seq), new, rows, SCATTER_START_IDX)
  <2>1. SCATTER_START_IDX \in Nat
    BY DEF SCATTER_START_IDX
  <2> QED
    BY <1>1, <1>6, <2>1, ComputedApart DEF before
<1>9. ScatterLaid(Listed(seq), ty, op, new)
  BY <1>7, <1>8, Zenon DEF ScatterLaid, rows
<1> QED
  BY <1>4, <1>5, <1>9 DEF new

\* The rules get numbers from 0 on, so the limit on their number is that of the
\* table.
LEMMA LookupComputed ==
  ASSUME NEW seq \in Seq(Streams), NoneTwice(seq), NEW ty,
         lookup_index \in [Streams -> Nat],
         Cardinality({ s \in Listed(seq) : ty[s] \in LookupTypes }) <= MaxLookup
  PROVE  /\ LookupLaid(Listed(seq), ty, CalculateLookup(seq, ty))
         /\ CalculateLookup(seq, ty) \in [Streams -> Nat]
         /\ \A s \in Streams \ Listed(seq) : CalculateLookup(seq, ty)[s] = lookup_index[s]
<1> DEFINE set == OfType(ty, LookupTypes)
           new == CalculateLookup(seq, ty)
           rank(s) == NumBefore(seq, PositionOf(seq, s), set)
           L == { s \in Listed(seq) : ty[s] \in LookupTypes }
<1>1. new = [s \in Streams |->
               IF s \notin Listed(seq) THEN lookup_index[s]
               ELSE IF ty[s] \notin LookupTypes THEN 0
               ELSE LOOKUP_START_IDX + rank(s)]
  BY Zenon DEF CalculateLookup
<1>2. Listed(seq) \subseteq Streams
  BY DEF Listed
<1>3. \A s \in Listed(seq) : s \in L <=> s \in set
  BY <1>2 DEF OfType
<1> HIDE DEF set
<1>4. ASSUME NEW s \in Listed(seq)
      PROVE  rank(s) \in Nat
  BY PositionListed, CountBefore
<1>5. ASSUME NEW s \in L, NEW t \in L, s # t
      PROVE  rank(s) # rank(t)
  <2>1. s \in Listed(seq) \cap set /\ t \in Listed(seq) \cap set
    BY <1>3
  <2> QED
    BY <1>5, <2>1, CountsDiffer
<1>6. ASSUME NEW s \in L
      PROVE  rank(s) <= MaxLookup - 1
  <2> DEFINE i == PositionOf(seq, s)
             B == { k \in 1 .. i - 1 : seq[k] \in set }
             image == { seq[k] : k \in B }
  <2>1. i \in DOMAIN seq /\ seq[i] = s /\ i \in Nat /\ DOMAIN seq = 1 .. Len(seq) /\ Len(seq) \in Nat
    <3>1. i \in DOMAIN seq /\ seq[i] = s
      BY PositionListed
    <3> QED
      BY <3>1
  <2> HIDE DEF i
  <2>2. B \in SUBSET (DOMAIN seq) /\ i \notin B /\ \A k \in B : seq[k] \in L
    <3>1. \A k \in 1 .. i - 1 : k \in DOMAIN seq /\ k # i
      BY <2>1
    <3>2. \A k \in DOMAIN seq : seq[k] \in Listed(seq)
      BY DEF Listed
    <3> HIDE DEF L
    <3> QED
      BY <1>3, <3>1, <3>2
  <2>3. IsFiniteSet(B)
    <3>1. IsFiniteSet(1 .. i - 1)
      BY <2>1, FS_Interval
    <3>2. B \in SUBSET (1 .. i - 1)
      OBVIOUS
    <3> QED
      BY <3>1, <3>2, FS_Subset
  <2> HIDE DEF B
  <2>4. image \in SUBSET (L \ {s})
    BY <2>1, <2>2 DEF NoneTwice
  <2>5. IsFiniteSet(L) /\ L \in SUBSET Listed(seq)
    <3>1. IsFiniteSet(Listed(seq)) /\ L \in SUBSET Listed(seq)
      BY LengthOfListed
    <3> QED
      BY <3>1, FS_Subset
  <2>6. Cardinality(image) = Cardinality(B) /\ IsFiniteSet(image)
    <3> DEFINE f == [k \in B |-> seq[k]]
    <3>1. f \in Bijection(B, image)
      <4>1. f \in Surjection(B, image)
        BY DEF Surjection
      <4>2. \A k, n \in B : f[k] = f[n] => k = n
        BY <2>2 DEF NoneTwice
      <4>3. f \in Injection(B, image)
        BY <4>2 DEF Injection, IsInjective
      <4> QED
        BY <4>1, <4>3, Zenon DEF Bijection
    <3>2. ExistsBijection(B, image)
      BY <3>1, Zenon DEF ExistsBijection
    <3> HIDE DEF image, f
    <3> QED
      BY <2>3, <3>2, FS_Bijection
  <2> HIDE DEF image, L
  <2>7. Cardinality(image) <= Cardinality(L \ {s}) /\ IsFiniteSet(L \ {s})
    <3>1. IsFiniteSet(L \ {s})
      BY <2>5, FS_RemoveElement
    <3> QED
      BY <2>4, <3>1, FS_Subset
  <2>8. Cardinality(L \ {s}) = Cardinality(L) - 1 /\ Cardinality(L) \in Nat
    BY <2>5, FS_RemoveElement, FS_CardinalityType
  <2>9. Cardinality(L) <= MaxLookup
    BY DEF L
  <2>10. rank(s) = Cardinality(B)
    BY Zenon DEF NumBefore, B, i
  <2>11. Cardinality(B) \in Nat
    BY <2>3, FS_CardinalityType
  <2> QED
    BY <2>6, <2>7, <2>8, <2>9, <2>10, <2>11, LimitAssumption
<1> HIDE DEF new, rank
<1>7. new \in [Streams -> Nat]
  BY <1>1, <1>2, <1>4 DEF LOOKUP_START_IDX
<1>8. \A s \in Streams \ Listed(seq) : new[s] = lookup_index[s]
  BY <1>1
<1>9. \A s \in L : s \in Streams /\ new[s] = rank(s) /\ rank(s) \in 0 .. MaxLookup - 1
  <2>1. ASSUME NEW s \in L
        PROVE  s \in Streams /\ new[s] = rank(s) /\ rank(s) \in 0 .. MaxLookup - 1
    <3>1. s \in Streams /\ s \in Listed(seq) /\ ty[s] \in LookupTypes
      BY <1>2
    <3>2. rank(s) \in Nat /\ rank(s) <= MaxLookup - 1
      BY <1>4, <1>6, <3>1
    <3>3. new[s] = LOOKUP_START_IDX + rank(s)
      BY <1>1, <3>1
    <3> QED
      BY <3>1, <3>2, <3>3, LimitAssumption DEF LOOKUP_START_IDX
  <2> QED
    BY <2>1
<1>10. LookupLaid(Listed(seq), ty, new)
  BY <1>5, <1>9 DEF LookupLaid, LOOKUP_START_IDX
<1> QED
  BY <1>7, <1>8, <1>10 DEF new

\* The tables of a module stay as they are while its streams keep their indexes
\* and need no more rows.
LEMMA GatherKept ==
  ASSUME RInv, OperationsTyped', NEW m \in Modules, m \in unrefreshed => m \in unrefreshed',
         \A s \in StreamsOf(m)' :
           /\ s \in StreamsOf(m) /\ gather_dma_index'[s] = gather_dma_index[s]
           /\ GatherRows(s, type', operations') <= GatherRows(s, type, operations)
           /\ type'[s] \in LookupTypes =>
                /\ type[s] \in LookupTypes
                /\ GatherRows(s, type', operations') = GatherRows(s, type, operations)
                /\ NumGatherOps(s, type', operations') = NumGatherOps(s, type, operations)
  PROVE  GatherHolds(m)'
<1> DEFINE L == StreamsOf(m)
           L2 == StreamsOf(m)'
           ty2 == type'
           op2 == operations'
           rows == [x \in Streams |-> GatherRows(x, type, operations)]
           rows2 == [x \in Streams |-> GatherRows(x, ty2, op2)]
<1> SUFFICES ASSUME m \notin unrefreshed PROVE GatherLaid(L2, ty2, op2, gather_dma_index')
  BY DEF GatherHolds
<1>1. GatherLaid(L, type, operations, gather_dma_index)
  BY DEF RInv, TablesLaid, GatherHolds
<1>2. L \subseteq Streams /\ L2 \subseteq Streams
  BY DEF StreamsOf
<1>3. \A s \in Streams :
        /\ rows[s] = GatherRows(s, type, operations) /\ rows[s] \in Nat
        /\ rows2[s] = GatherRows(s, ty2, op2) /\ rows2[s] \in Nat
  <2>1. op2 \in [Streams -> Seq(OpCodes)] /\ operations \in [Streams -> Seq(OpCodes)]
    BY DEF OperationsTyped, RInv
  <2> HIDE DEF ty2, op2
  <2> QED
    BY <2>1, RowsTyped
<1>4. Apart(L, gather_dma_index, rows, GATHER_START_IDX)
  BY <1>1, Zenon DEF GatherLaid
<1>5. \A s \in L2 :
        /\ s \in L /\ gather_dma_index'[s] = gather_dma_index[s] /\ gather_dma_index[s] \in Nat
        /\ GatherRows(s, ty2, op2) <= GatherRows(s, type, operations)
        /\ ty2[s] \in LookupTypes =>
             /\ type[s] \in LookupTypes
             /\ GatherRows(s, ty2, op2) = GatherRows(s, type, operations)
             /\ NumGatherOps(s, ty2, op2) = NumGatherOps(s, type, operations)
  BY <1>2 DEF RInv, TablesTyped
<1> HIDE DEF L, L2, ty2, op2, rows, rows2
<1>6. Apart(L2, gather_dma_index', rows2, GATHER_START_IDX)
  <2>1. \A s \in L2 :
          /\ s \in L /\ gather_dma_index'[s] = gather_dma_index[s] /\ gather_dma_index[s] \in Nat
          /\ rows[s] \in Nat /\ rows2[s] \in Nat /\ rows2[s] <= rows[s]
    BY <1>2, <1>3, <1>5
  <2> QED
    BY <1>4, <2>1, ApartKept
<1>7. \A s \in L2 : ty2[s] \in LookupTypes /\ GatherRows(s, ty2, op2) = 0 =>
        gather_dma_index'[s] =
          IF NumGatherOps(s, ty2, op2) = 0 THEN GATHER_NOP_IDX ELSE GATHER_FORWARD_IDX
  <2> TAKE s \in L2
  <2> HAVE ty2[s] \in LookupTypes /\ GatherRows(s, ty2, op2) = 0
  <2>1. /\ s \in L /\ gather_dma_index'[s] = gather_dma_index[s]
        /\ type[s] \in LookupTypes /\ GatherRows(s, type, operations) = 0
        /\ NumGatherOps(s, ty2, op2) = NumGatherOps(s, type, operations)
    BY <1>5
  <2> QED
    BY <1>1, <2>1, Zenon DEF GatherLaid
<1> QED
  BY <1>6, <1>7, Zenon DEF GatherLaid, rows2

\* The scatter rows of a module, when its streams that receive keep their
\* reads.
LEMMA ScatterKept ==
  ASSUME RInv, OperationsTyped', NEW m \in Modules,
         \A s \in StreamsOf(m)' : type'[s] \in LookupTypes =>
           /\ s \in StreamsOf(m) /\ scatter_dma_index'[s] = scatter_dma_index[s]
           /\ type[s] \in LookupTypes
           /\ NumOf(operations'[s], READ) = NumOf(operations[s], READ)
  PROVE  ScatterHolds(m)'
<1> DEFINE L == StreamsOf(m)
           L2 == StreamsOf(m)'
           ty2 == type'
           op2 == operations'
           rows == [x \in Streams |-> ScatterRows(x, type, operations)]
           rows2 == [x \in Streams |-> ScatterRows(x, ty2, op2)]
<1>1. ScatterLaid(L, type, operations, scatter_dma_index)
  BY DEF RInv, TablesLaid, ScatterHolds
<1>2. L \subseteq Streams /\ L2 \subseteq Streams
  BY DEF StreamsOf
<1>3. \A s \in Streams :
        /\ rows[s] = ScatterRows(s, type, operations) /\ rows[s] \in Nat
        /\ rows2[s] = ScatterRows(s, ty2, op2) /\ rows2[s] \in Nat
  <2>1. op2 \in [Streams -> Seq(OpCodes)] /\ operations \in [Streams -> Seq(OpCodes)]
    BY DEF OperationsTyped, RInv
  <2> HIDE DEF ty2, op2
  <2> QED
    BY <2>1, RowsTyped
<1>4. Apart(L, scatter_dma_index, rows, SCATTER_START_IDX)
  BY <1>1, Zenon DEF ScatterLaid
<1>5. \A s \in L2 : ty2[s] \in LookupTypes =>
        /\ s \in L /\ scatter_dma_index'[s] = scatter_dma_index[s] /\ scatter_dma_index[s] \in Nat
        /\ type[s] \in LookupTypes /\ ScatterRows(s, ty2, op2) = ScatterRows(s, type, operations)
  BY <1>2 DEF RInv, TablesTyped, ScatterRows
<1>6. \A s \in L2 : ty2[s] \notin LookupTypes => ScatterRows(s, ty2, op2) = 0
  BY Zenon DEF ScatterRows
<1> HIDE DEF L, L2, ty2, op2, rows, rows2
<1>7. Apart(L2, scatter_dma_index', rows2, SCATTER_START_IDX)
  <2>1. \A s \in L2 : rows2[s] # 0 =>
          /\ s \in L /\ scatter_dma_index'[s] = scatter_dma_index[s] /\ scatter_dma_index[s] \in Nat
          /\ rows[s] \in Nat /\ rows2[s] \in Nat /\ rows2[s] <= rows[s]
    BY <1>2, <1>3, <1>5, <1>6
  <2> QED
    BY <1>4, <2>1, ApartKept
<1>8. \A s \in L2 : ty2[s] \in LookupTypes /\ ScatterRows(s, ty2, op2) = 0 =>
        scatter_dma_index'[s] = SCATTER_NOP_IDX
  BY <1>1, <1>5 DEF ScatterLaid
<1>9. ScatterLaid(L2, ty2, op2, scatter_dma_index')
  BY <1>7, <1>8, Zenon DEF ScatterLaid, rows2
<1> QED
  BY <1>9 DEF ScatterHolds, L2, ty2, op2

\* The rules of a module, when no stream that receives comes to it.
LEMMA LookupKept ==
  ASSUME RInv, NEW m \in Modules,
         \A s \in StreamsOf(m)' : type'[s] \in LookupTypes =>
           s \in StreamsOf(m) /\ lookup_index'[s] = lookup_index[s] /\ type[s] \in LookupTypes
  PROVE  LookupHolds(m)'
<1>1. LookupLaid(StreamsOf(m), type, lookup_index)
  BY DEF RInv, TablesLaid, LookupHolds
<1> QED
  BY <1>1 DEF LookupLaid, LookupHolds

\* A call that changes the list of m, or what its streams need, computes the
\* indexes for the list it leaves behind.
LEMMA GatherRenewed ==
  ASSUME RInv, Listing', OperationsTyped', NEW m \in Modules,
         gather_dma_index' = CalculateGather(order'[m], type', operations')
  PROVE  /\ gather_dma_index' \in [Streams -> Nat]
         /\ GatherHolds(m)'
         /\ \A s \in Streams : entry'[s] # m => gather_dma_index'[s] = gather_dma_index[s]
<1> DEFINE seq == order'[m]
           ty2 == type'
           op2 == operations'
<1>1. /\ seq \in Seq(Streams) /\ Listed(seq) = StreamsOf(m)'
      /\ op2 \in [Streams -> Seq(OpCodes)] /\ gather_dma_index \in [Streams -> Nat]
      /\ gather_dma_index' = CalculateGather(seq, ty2, op2)
  BY DEF Listing, OperationsTyped, RInv, TablesTyped
<1> HIDE DEF seq, ty2, op2
<1>2. /\ GatherLaid(Listed(seq), ty2, op2, gather_dma_index')
      /\ gather_dma_index' \in [Streams -> Nat]
      /\ \A s \in Streams \ Listed(seq) : gather_dma_index'[s] = gather_dma_index[s]
  BY <1>1, GatherComputed
<1>3. GatherHolds(m)'
  BY <1>1, <1>2 DEF GatherHolds, ty2, op2
<1> QED
  BY <1>1, <1>2, <1>3 DEF StreamsOf

\* The scatter rows of a module whose list was computed again.
LEMMA ScatterRenewed ==
  ASSUME RInv, Listing', OperationsTyped', NEW m \in Modules,
         scatter_dma_index' = CalculateScatter(order'[m], type', operations')
  PROVE  /\ scatter_dma_index' \in [Streams -> Nat]
         /\ ScatterHolds(m)'
         /\ \A s \in Streams : entry'[s] # m => scatter_dma_index'[s] = scatter_dma_index[s]
<1> DEFINE seq == order'[m]
           ty2 == type'
           op2 == operations'
<1>1. /\ seq \in Seq(Streams) /\ Listed(seq) = StreamsOf(m)'
      /\ op2 \in [Streams -> Seq(OpCodes)] /\ scatter_dma_index \in [Streams -> Nat]
      /\ scatter_dma_index' = CalculateScatter(seq, ty2, op2)
  BY DEF Listing, OperationsTyped, RInv, TablesTyped
<1> HIDE DEF seq, ty2, op2
<1>2. /\ ScatterLaid(Listed(seq), ty2, op2, scatter_dma_index')
      /\ scatter_dma_index' \in [Streams -> Nat]
      /\ \A s \in Streams \ Listed(seq) : scatter_dma_index'[s] = scatter_dma_index[s]
  BY <1>1, ScatterComputed
<1>3. ScatterHolds(m)'
  BY <1>1, <1>2 DEF ScatterHolds, ty2, op2
<1> QED
  BY <1>1, <1>2, <1>3 DEF StreamsOf

\* The rules of a module whose list was computed again; they are in the
\* table because validation has counted them.
LEMMA LookupRenewed ==
  ASSUME RInv, Listing', NEW m \in Modules,
         lookup_index' = CalculateLookup(order'[m], type'),
         WithinLimits(m, type', entry')
  PROVE  /\ lookup_index' \in [Streams -> Nat]
         /\ LookupHolds(m)'
         /\ \A s \in Streams : entry'[s] # m => lookup_index'[s] = lookup_index[s]
<1> DEFINE seq == order'[m]
           ty2 == type'
<1>1. /\ seq \in Seq(Streams) /\ Listed(seq) = StreamsOf(m)' /\ NoneTwice(seq)
      /\ lookup_index \in [Streams -> Nat]
      /\ lookup_index' = CalculateLookup(seq, ty2)
  BY DEF Listing, RInv, TablesTyped
<1>2. Cardinality({ s \in Listed(seq) : ty2[s] \in LookupTypes }) <= MaxLookup
  <2>1. { s \in Listed(seq) : ty2[s] \in LookupTypes }
          = { s \in Streams : entry'[s] = m /\ ty2[s] \in LookupTypes }
    BY <1>1 DEF StreamsOf
  <2> QED
    BY <2>1, Zenon DEF WithinLimits
<1> HIDE DEF seq, ty2
<1>3. /\ LookupLaid(Listed(seq), ty2, lookup_index')
      /\ lookup_index' \in [Streams -> Nat]
      /\ \A s \in Streams \ Listed(seq) : lookup_index'[s] = lookup_index[s]
  BY <1>1, <1>2, LookupComputed
<1>4. LookupHolds(m)'
  BY <1>1, <1>3 DEF LookupHolds, ty2
<1> QED
  BY <1>1, <1>3, <1>4 DEF StreamsOf

-----------------------------------------------------------------------------
(* What the calls do to the tables *)

\* A module whose streams are left alone.
LEMMA TablesKept ==
  ASSUME RInv, OperationsTyped', NEW m \in Modules, m \in unrefreshed => m \in unrefreshed',
         \A s \in StreamsOf(m)' :
           /\ s \in StreamsOf(m) /\ type'[s] = type[s] /\ operations'[s] = operations[s]
           /\ gather_dma_index'[s] = gather_dma_index[s]
           /\ scatter_dma_index'[s] = scatter_dma_index[s]
           /\ lookup_index'[s] = lookup_index[s]
  PROVE  GatherHolds(m)' /\ ScatterHolds(m)' /\ LookupHolds(m)'
<1>1. ASSUME NEW s \in StreamsOf(m)'
      PROVE  /\ s \in StreamsOf(m) /\ gather_dma_index'[s] = gather_dma_index[s]
             /\ GatherRows(s, type', operations') <= GatherRows(s, type, operations)
             /\ type'[s] \in LookupTypes =>
                  /\ type[s] \in LookupTypes
                  /\ GatherRows(s, type', operations') = GatherRows(s, type, operations)
                  /\ NumGatherOps(s, type', operations') = NumGatherOps(s, type, operations)
  <2> DEFINE ty2 == type'
             op2 == operations'
  <2>1. /\ s \in Streams /\ s \in StreamsOf(m) /\ gather_dma_index'[s] = gather_dma_index[s]
        /\ ty2[s] = type[s] /\ op2[s] = operations[s]
    BY <1>1 DEF StreamsOf
  <2>2. operations \in [Streams -> Seq(OpCodes)]
    BY DEF RInv, OperationsTyped
  <2> HIDE DEF ty2, op2
  <2>3. GatherRows(s, type, operations) \in Nat
    BY <2>1, <2>2, RowsTyped
  <2>4. /\ GatherRows(s, ty2, op2) = GatherRows(s, type, operations)
        /\ NumGatherOps(s, ty2, op2) = NumGatherOps(s, type, operations)
    BY <2>1, SameRows
  <2> QED
    BY <2>1, <2>3, <2>4 DEF ty2, op2
<1>2. GatherHolds(m)'
  BY <1>1, GatherKept
<1>3. \A s \in StreamsOf(m)' : type'[s] \in LookupTypes =>
        /\ s \in StreamsOf(m) /\ scatter_dma_index'[s] = scatter_dma_index[s]
        /\ lookup_index'[s] = lookup_index[s] /\ type[s] \in LookupTypes
        /\ NumOf(operations'[s], READ) = NumOf(operations[s], READ)
  BY Zenon
<1>4. ScatterHolds(m)' /\ LookupHolds(m)'
  BY <1>3, ScatterKept, LookupKept
<1> QED
  BY <1>2, <1>4

\* A child that gets into a list receives nothing itself, so it has no rows in the
\* scatter table and no rule.
LEMMA SetChildTables ==
  ASSUME RInv, Listing', NEW s \in Streams, NEW r \in Streams, TSetChild(s, r)
  PROVE  OperationsTyped' /\ TablesTyped' /\ TablesLaid'
<1> USE NullAssumption
<1> PICK m \in Modules \cup {Null} : m = entry[s]
  BY DEF RInv, TInv, IInv, TypeOK
<1>1. /\ type' = type /\ operations' = operations
      /\ scatter_dma_index' = scatter_dma_index /\ lookup_index' = lookup_index
      /\ type[r] \notin LookupTypes
      /\ \A x \in Streams : entry'[x] = IF x = r /\ m # Null THEN m ELSE entry[x]
  BY DEF TSetChild, SetChild, IsParentChild, RInv, TInv, IInv, TypeOK
<1>2. OperationsTyped'
  BY <1>1 DEF OperationsTyped, RInv
<1>3. CASE m = Null
  <2>1. /\ gather_dma_index' = gather_dma_index /\ unrefreshed' = unrefreshed
        /\ \A n \in Modules : StreamsOf(n)' = StreamsOf(n)
    BY <1>1, <1>3 DEF TSetChild, StreamsOf
  <2>2. ASSUME NEW n \in Modules
        PROVE  GatherHolds(n)' /\ ScatterHolds(n)' /\ LookupHolds(n)'
    BY <1>1, <1>2, <2>1, TablesKept
  <2> QED
    BY <1>1, <1>2, <2>1, <2>2 DEF TablesTyped, TablesLaid, RInv
<1>4. CASE m # Null
  <2>1. m \in Modules
    BY <1>4
  <2>2. gather_dma_index' = CalculateGather(order'[m], type', operations')
    <3>1. order'[m] = Append(order[m], r)
      BY <1>4, <2>1 DEF TSetChild, RInv, TInv, Listing
    <3> QED
      BY <1>1, <1>4, <3>1 DEF TSetChild
  <2>3. /\ gather_dma_index' \in [Streams -> Nat]
        /\ GatherHolds(m)'
        /\ \A x \in Streams : entry'[x] # m => gather_dma_index'[x] = gather_dma_index[x]
    BY <1>2, <2>1, <2>2, GatherRenewed
  <2>4. unrefreshed' = unrefreshed \ {m}
    BY <1>4 DEF TSetChild
  <2>5. ASSUME NEW n \in Modules \ {m}
        PROVE  GatherHolds(n)' /\ ScatterHolds(n)' /\ LookupHolds(n)'
    <3>1. \A x \in StreamsOf(n)' : x \in Streams /\ x \in StreamsOf(n) /\ entry'[x] # m
      BY <1>1, <2>5 DEF StreamsOf
    <3>2. n \in unrefreshed => n \in unrefreshed'
      BY <2>4, <2>5
    <3> QED
      BY <1>1, <1>2, <2>3, <2>5, <3>1, <3>2, TablesKept
  <2>6. ScatterHolds(m)' /\ LookupHolds(m)'
    <3>1. \A x \in StreamsOf(m)' : type'[x] \in LookupTypes => x \in StreamsOf(m) /\ type[x] \in LookupTypes
      BY <1>1 DEF StreamsOf
    <3> QED
      BY <1>1, <1>2, <2>1, <3>1, ScatterKept, LookupKept
  <2> QED
    BY <1>1, <1>2, <2>3, <2>5, <2>6 DEF TablesTyped, TablesLaid, RInv
<1> QED
  BY <1>3, <1>4

\* Two transmitting streams get a tag each: the rows of the first are computed
\* again, and the module of the second is put on record.
LEMMA SetTransmitTables ==
  ASSUME RInv, Listing', NEW s \in Streams, NEW r \in Streams, TSetRedundant(s, r),
         type[s] = TIME_TRIGGERED_STREAM
  PROVE  OperationsTyped' /\ TablesTyped' /\ TablesLaid'
<1> USE NullAssumption
<1> PICK m \in Modules \cup {Null} : m = entry[s]
  BY DEF RInv, TInv, IInv, TypeOK
<1>1. /\ entry' = entry /\ order' = order /\ operations' = operations
      /\ scatter_dma_index' = scatter_dma_index /\ lookup_index' = lookup_index
      /\ \A x \in Streams : type'[x] = IF x \in {s, r} THEN REDUNDANT_STREAM_TX ELSE type[x]
      /\ unrefreshed' = (unrefreshed \ {m}) \cup ({ entry[r] } \ {Null})
      /\ gather_dma_index' = IF m = Null THEN gather_dma_index
                             ELSE CalculateGather(order[m], type', operations)
  BY DEF TSetRedundant, SetRedundant, PairType, RInv, TInv, IInv, TypeOK
<1>2. OperationsTyped'
  BY <1>1 DEF OperationsTyped, RInv
<1>3. ASSUME NEW n \in Modules
      PROVE  ScatterHolds(n)' /\ LookupHolds(n)'
  <2>1. \A x \in StreamsOf(n)' : type'[x] \in LookupTypes => x \in StreamsOf(n) /\ type[x] \in LookupTypes
    BY <1>1 DEF StreamsOf
  <2> QED
    BY <1>1, <1>2, <2>1, ScatterKept, LookupKept
<1>4. /\ gather_dma_index' \in [Streams -> Nat]
      /\ m \in Modules => GatherHolds(m)'
      /\ \A x \in Streams : entry[x] # m => gather_dma_index'[x] = gather_dma_index[x]
  <2>1. CASE m = Null
    <3>1. gather_dma_index' = gather_dma_index
      BY <1>1, <2>1
    <3> QED
      BY <2>1, <3>1 DEF RInv, TablesTyped
  <2>2. CASE m \in Modules
    <3>1. gather_dma_index' = CalculateGather(order'[m], type', operations')
      BY <1>1, <2>2
    <3> QED
      BY <1>1, <1>2, <2>2, <3>1, GatherRenewed
  <2> QED
    BY <1>1, <2>1, <2>2
<1>5. ASSUME NEW n \in Modules
      PROVE  GatherHolds(n)'
  <2>1. CASE n = entry[r]
    <3>1. n \in unrefreshed'
      BY <1>1, <2>1
    <3> QED
      BY <3>1 DEF GatherHolds
  <2>2. CASE n = m
    BY <1>4, <2>2
  <2>3. CASE n # m /\ n # entry[r]
    <3>1. \A x \in StreamsOf(n)' :
            /\ x \in Streams /\ x \in StreamsOf(n) /\ x \notin {s, r}
            /\ type'[x] = type[x] /\ gather_dma_index'[x] = gather_dma_index[x]
      BY <1>1, <1>4, <2>3 DEF StreamsOf
    <3>2. n \in unrefreshed => n \in unrefreshed'
      BY <1>1, <2>3
    <3> QED
      BY <1>1, <1>2, <3>1, <3>2, TablesKept
  <2> QED
    BY <2>1, <2>2, <2>3
<1> QED
  BY <1>1, <1>2, <1>3, <1>4, <1>5 DEF TablesTyped, TablesLaid, RInv

\* Two receiving streams need the rows they needed before.
LEMMA SetReceiveTables ==
  ASSUME RInv, NEW s \in Streams, NEW r \in Streams, TSetRedundant(s, r),
         type[s] = INGRESS_TRIGGERED_STREAM
  PROVE  OperationsTyped' /\ TablesTyped' /\ TablesLaid'
<1>1. /\ entry' = entry /\ operations' = operations /\ gather_dma_index' = gather_dma_index
      /\ scatter_dma_index' = scatter_dma_index /\ lookup_index' = lookup_index
      /\ unrefreshed' = unrefreshed
      /\ \A x \in Streams :
           \/ type'[x] = type[x]
           \/ type'[x] = REDUNDANT_STREAM_RX /\ type[x] = INGRESS_TRIGGERED_STREAM
  BY DEF TSetRedundant, SetRedundant, PairType
<1>2. OperationsTyped'
  BY <1>1 DEF OperationsTyped, RInv
<1>3. ASSUME NEW x \in Streams
      PROVE  /\ GatherRows(x, type', operations') = GatherRows(x, type, operations)
             /\ NumGatherOps(x, type', operations') = NumGatherOps(x, type, operations)
             /\ GatherRows(x, type, operations) \in Nat
             /\ type'[x] \in LookupTypes => type[x] \in LookupTypes
  <2>1. NumGatherOps(x, type', operations') = NumGatherOps(x, type, operations)
    BY <1>1 DEF NumGatherOps
  <2>2. GatherRows(x, type', operations') = GatherRows(x, type, operations)
    BY <1>1, <2>1, Zenon DEF GatherRows, OnlyForwards
  <2>3. GatherRows(x, type, operations) \in Nat
    BY RowsTyped DEF RInv, OperationsTyped
  <2> QED
    BY <1>1, <2>1, <2>2, <2>3
<1>4. ASSUME NEW n \in Modules
      PROVE  GatherHolds(n)' /\ ScatterHolds(n)' /\ LookupHolds(n)'
  <2>1. \A x \in StreamsOf(n)' : x \in Streams /\ x \in StreamsOf(n)
    BY <1>1 DEF StreamsOf
  <2>2. GatherHolds(n)'
    <3>1. ASSUME NEW x \in StreamsOf(n)'
          PROVE  /\ x \in StreamsOf(n) /\ gather_dma_index'[x] = gather_dma_index[x]
                 /\ GatherRows(x, type', operations') <= GatherRows(x, type, operations)
                 /\ type'[x] \in LookupTypes =>
                      /\ type[x] \in LookupTypes
                      /\ GatherRows(x, type', operations') = GatherRows(x, type, operations)
                      /\ NumGatherOps(x, type', operations') = NumGatherOps(x, type, operations)
      <4>1. x \in Streams /\ x \in StreamsOf(n)
        BY <2>1, <3>1
      <4> QED
        BY <1>1, <1>3, <4>1
    <3> QED
      BY <1>1, <1>2, <3>1, GatherKept
  <2>3. \A x \in StreamsOf(n)' : type'[x] \in LookupTypes =>
          /\ x \in StreamsOf(n) /\ scatter_dma_index'[x] = scatter_dma_index[x]
          /\ lookup_index'[x] = lookup_index[x] /\ type[x] \in LookupTypes
          /\ NumOf(operations'[x], READ) = NumOf(operations[x], READ)
    BY <1>1, <1>3, <2>1
  <2>4. ScatterHolds(n)' /\ LookupHolds(n)'
    BY <1>2, <2>3, ScatterKept, LookupKept
  <2> QED
    BY <2>2, <2>4
<1> QED
  BY <1>1, <1>2, <1>4 DEF TablesTyped, TablesLaid, RInv

\* A stream that is added with its children gets its rows behind those of the
\* others; a time triggered one has none in the scatter table and no rule.
LEMMA AddModuleStreamTables ==
  ASSUME RInv, Listing', NEW m \in Modules, NEW s \in Streams,
         NEW added \in AddedPrefixes(s), TAddModuleStream(m, s, added)
  PROVE  OperationsTyped' /\ TablesTyped' /\ TablesLaid'
<1> USE NullAssumption
<1>1. /\ type' = type /\ operations' = operations /\ unrefreshed' = unrefreshed \ {m}
      /\ \A x \in Streams : entry'[x] = IF x \in added THEN m ELSE entry[x]
      /\ WithinLimits(m, type', entry')
      /\ type[s] \in {INGRESS_TRIGGERED_STREAM, TIME_TRIGGERED_STREAM}
  BY DEF TAddModuleStream, AddModuleStream, StreamAddable
<1>2. OperationsTyped'
  BY <1>1 DEF OperationsTyped, RInv
<1> DEFINE seq == order[m] \o AddedSequence(s, added)
<1>3. order'[m] = seq
  BY DEF TAddModuleStream, RInv, TInv, Listing
<1>4. /\ gather_dma_index' \in [Streams -> Nat]
      /\ GatherHolds(m)'
      /\ \A x \in Streams : entry'[x] # m => gather_dma_index'[x] = gather_dma_index[x]
  <2>1. gather_dma_index' = CalculateGather(order'[m], type', operations')
    BY <1>1, <1>3 DEF TAddModuleStream
  <2> QED
    BY <1>2, <2>1, GatherRenewed
<1>5. /\ scatter_dma_index' \in [Streams -> Nat] /\ lookup_index' \in [Streams -> Nat]
      /\ ScatterHolds(m)' /\ LookupHolds(m)'
      /\ \A x \in Streams : entry'[x] # m =>
           scatter_dma_index'[x] = scatter_dma_index[x] /\ lookup_index'[x] = lookup_index[x]
  <2>1. CASE type[s] = INGRESS_TRIGGERED_STREAM
    <3>1. /\ scatter_dma_index' = CalculateScatter(order'[m], type', operations')
          /\ lookup_index' = CalculateLookup(order'[m], type')
      BY <1>1, <1>3, <2>1 DEF TAddModuleStream
    <3> QED
      BY <1>1, <1>2, <3>1, ScatterRenewed, LookupRenewed
  <2>2. CASE type[s] = TIME_TRIGGERED_STREAM
    <3>1. scatter_dma_index' = scatter_dma_index /\ lookup_index' = lookup_index
      BY <2>2 DEF TAddModuleStream
    <3>2. added = {s}
      BY <2>2 DEF AddedPrefixes, FirstChild, SecondChild
    <3>3. \A x \in StreamsOf(m)' : type'[x] \in LookupTypes => x \in StreamsOf(m) /\ type[x] \in LookupTypes
      BY <1>1, <2>2, <3>2 DEF StreamsOf
    <3>4. ScatterHolds(m)' /\ LookupHolds(m)'
      BY <1>1, <1>2, <3>1, <3>3, ScatterKept, LookupKept
    <3> QED
      BY <3>1, <3>4 DEF RInv, TablesTyped
  <2> QED
    BY <1>1, <2>1, <2>2
<1>6. ASSUME NEW n \in Modules \ {m}
      PROVE  GatherHolds(n)' /\ ScatterHolds(n)' /\ LookupHolds(n)'
  <2>1. \A x \in StreamsOf(n)' : x \in Streams /\ x \in StreamsOf(n) /\ entry'[x] # m
    BY <1>1, <1>6 DEF StreamsOf
  <2>2. n \in unrefreshed => n \in unrefreshed'
    BY <1>1, <1>6
  <2> QED
    BY <1>1, <1>2, <1>4, <1>5, <1>6, <2>1, <2>2, TablesKept
<1> QED
  BY <1>2, <1>4, <1>5, <1>6 DEF TablesTyped, TablesLaid

\* A read operation has a row in the scatter table only, another one in the gather
\* table only: the table that is not computed again did not change.
LEMMA AddOperationTables ==
  ASSUME RInv, Listing', NEW s \in Streams, NEW o \in OpCodes, AddOperation(s, o)
  PROVE  OperationsTyped' /\ TablesTyped' /\ TablesLaid'
<1> USE NullAssumption
<1> PICK m \in Modules \cup {Null} : m = entry[s]
  BY DEF RInv, TInv, IInv, TypeOK
<1>1. /\ type' = type /\ entry' = entry /\ order' = order /\ lookup_index' = lookup_index
      /\ operations' = [operations EXCEPT ![s] = Append(@, o)]
      /\ RefreshAfterAdd(s, o, operations')
  BY DEF AddOperation, vars, streamVars
<1>2. operations \in [Streams -> Seq(OpCodes)]
  BY DEF RInv, OperationsTyped
<1>3. OperationsTyped'
  <2>1. Append(operations[s], o) \in Seq(OpCodes)
    BY <1>2
  <2> QED
    BY <1>1, <1>2, <2>1 DEF OperationsTyped
<1>4. /\ \A x \in Streams : x # s => operations'[x] = operations[x]
      /\ operations'[s] = Append(operations[s], o)
  BY <1>1, <1>2
<1>5. \A n \in Modules : StreamsOf(n)' = StreamsOf(n) /\ StreamsOf(n) \subseteq Streams
  BY <1>1 DEF StreamsOf
<1>6. unrefreshed' = IF m # Null /\ o # READ THEN unrefreshed \ {m} ELSE unrefreshed
  BY <1>1 DEF RefreshAfterAdd
<1>7. ASSUME NEW n \in Modules
      PROVE  LookupHolds(n)'
  BY <1>1, <1>5, LookupKept
<1>8. ASSUME m \in Modules, o = READ
      PROVE  GatherHolds(m)'
  <2>1. gather_dma_index' = gather_dma_index
    BY <1>1, <1>8 DEF RefreshAfterAdd
  <2>2. ASSUME NEW x \in Streams
        PROVE  /\ GatherRows(x, type', operations') = GatherRows(x, type, operations)
               /\ NumGatherOps(x, type', operations') = NumGatherOps(x, type, operations)
    <3>1. CASE x # s
      <4> DEFINE op2 == operations'
      <4>1. op2[x] = operations[x]
        BY <1>4, <3>1
      <4> HIDE DEF op2
      <4>2. /\ GatherRows(x, type, op2) = GatherRows(x, type, operations)
            /\ NumGatherOps(x, type, op2) = NumGatherOps(x, type, operations)
        BY <4>1, SameRows
      <4> QED
        BY <1>1, <4>2 DEF op2
    <3>2. CASE x = s
      <4> DEFINE old == operations[s]
                 new == operations'[s]
      <4>1. /\ old \in Seq(OpCodes) /\ new = Append(old, o)
            /\ Len(new) = Len(old) + 1 /\ Len(old) \in Nat
        BY <1>2, <1>4
      <4>2. /\ NumOf(new, READ) = NumOf(old, READ) + 1 /\ NumOf(old, READ) \in Nat
            /\ NumOf(new, INSERT) = NumOf(old, INSERT)
            /\ NumOf(new, FORWARD_ALL) = NumOf(old, FORWARD_ALL)
        <5> HIDE DEF old, new
        <5>1. \A p : NumOf(new, p) = NumOf(old, p) + (IF o = p THEN 1 ELSE 0) /\ NumOf(old, p) \in Nat
          BY <4>1, NumOfAppend, NumOfTyped
        <5>2. READ # INSERT /\ READ # FORWARD_ALL
          BY DEF READ, INSERT, FORWARD_ALL
        <5> QED
          BY <1>8, <5>1, <5>2
      <4>3. NumGatherOps(s, type', operations') = NumGatherOps(s, type, operations)
        <5>1. HeaderOps(s) \in Nat
          BY DEF HeaderOps, NUM_AUTOGEN_OPS
        <5>2. Len(new) - NumOf(new, READ) = Len(old) - NumOf(old, READ)
          <6> HIDE DEF old, new
          <6> QED
            BY <4>1, <4>2
        <5>3. HeaderOps(s) + Len(new) - NumOf(new, READ) = HeaderOps(s) + Len(old) - NumOf(old, READ)
          <6> HIDE DEF old, new
          <6> QED
            BY <4>1, <4>2, <5>1
        <5> QED
          BY <1>1, <5>3, Zenon DEF NumGatherOps
      <4>4. /\ NumPrefetchOps(s, operations') = NumPrefetchOps(s, operations)
            /\ OnlyForwards(s, type', operations') = OnlyForwards(s, type, operations)
        BY <4>2, <4>3, Zenon DEF NumPrefetchOps, OnlyForwards
      <4> QED
        BY <3>2, <4>3, <4>4, Zenon DEF GatherRows
    <3> QED
      BY <3>1, <3>2
  <2>3. ASSUME NEW x \in StreamsOf(m)'
        PROVE  /\ x \in StreamsOf(m) /\ gather_dma_index'[x] = gather_dma_index[x]
               /\ GatherRows(x, type', operations') <= GatherRows(x, type, operations)
               /\ type'[x] \in LookupTypes =>
                    /\ type[x] \in LookupTypes
                    /\ GatherRows(x, type', operations') = GatherRows(x, type, operations)
                    /\ NumGatherOps(x, type', operations') = NumGatherOps(x, type, operations)
    <3>1. x \in Streams /\ x \in StreamsOf(m)
      BY <1>5, <1>8, <2>3
    <3>2. GatherRows(x, type, operations) \in Nat
      BY <1>2, <3>1, RowsTyped
    <3>3. /\ GatherRows(x, type', operations') = GatherRows(x, type, operations)
          /\ NumGatherOps(x, type', operations') = NumGatherOps(x, type, operations)
      BY <2>2, <3>1
    <3>4. GatherRows(x, type', operations') <= GatherRows(x, type, operations)
      BY <3>2, <3>3
    <3> QED
      BY <1>1, <2>1, <3>1, <3>3, <3>4, Zenon
  <2> QED
    BY <1>3, <1>6, <1>8, <2>3, GatherKept
<1>9. ASSUME m \in Modules, o # READ
      PROVE  ScatterHolds(m)'
  <2>1. scatter_dma_index' = scatter_dma_index
    BY <1>1, <1>9 DEF RefreshAfterAdd
  <2>2. \A x \in Streams : NumOf(operations'[x], READ) = NumOf(operations[x], READ)
    <3> DEFINE old == operations[s]
               new == operations'[s]
    <3>1. old \in Seq(OpCodes) /\ new = Append(old, o)
      BY <1>2, <1>4
    <3> HIDE DEF old, new
    <3>2. NumOf(new, READ) = NumOf(old, READ)
      <4>1. NumOf(new, READ) = NumOf(old, READ) + 0 /\ NumOf(old, READ) \in Nat
        BY <1>9, <3>1, NumOfAppend, NumOfTyped
      <4> QED
        BY <4>1
    <3> QED
      BY <1>4, <3>2 DEF old, new
  <2>3. \A x \in StreamsOf(m)' : x \in Streams /\ x \in StreamsOf(m)
    BY <1>5, <1>9
  <2> QED
    BY <1>1, <1>3, <1>9, <2>1, <2>2, <2>3, ScatterKept
<1>10. /\ gather_dma_index' \in [Streams -> Nat]
       /\ m \in Modules => GatherHolds(m)'
       /\ \A x \in Streams : entry'[x] # m => gather_dma_index'[x] = gather_dma_index[x]
  <2>1. CASE m = Null \/ o = READ
    <3>1. gather_dma_index' = gather_dma_index
      BY <1>1, <2>1 DEF RefreshAfterAdd
    <3> QED
      BY <1>8, <2>1, <3>1 DEF RInv, TablesTyped
  <2>2. CASE m \in Modules /\ o # READ
    <3>1. gather_dma_index' = CalculateGather(order'[m], type', operations')
      BY <1>1, <2>2 DEF RefreshAfterAdd
    <3> QED
      BY <1>3, <2>2, <3>1, GatherRenewed
  <2> QED
    BY <2>1, <2>2
<1>11. /\ scatter_dma_index' \in [Streams -> Nat]
       /\ m \in Modules => ScatterHolds(m)'
       /\ \A x \in Streams : entry'[x] # m => scatter_dma_index'[x] = scatter_dma_index[x]
  <2>1. CASE m = Null \/ o # READ
    <3>1. scatter_dma_index' = scatter_dma_index
      BY <1>1, <2>1 DEF RefreshAfterAdd
    <3> QED
      BY <1>9, <2>1, <3>1 DEF RInv, TablesTyped
  <2>2. CASE m \in Modules /\ o = READ
    <3>1. scatter_dma_index' = CalculateScatter(order'[m], type', operations')
      BY <1>1, <2>2 DEF RefreshAfterAdd
    <3> QED
      BY <1>3, <2>2, <3>1, ScatterRenewed
  <2> QED
    BY <2>1, <2>2
<1>12. ASSUME NEW n \in Modules \ {m}
       PROVE  GatherHolds(n)' /\ ScatterHolds(n)'
  <2>1. \A x \in StreamsOf(n)' : x \in Streams /\ x \in StreamsOf(n) /\ entry'[x] # m /\ x # s
    BY <1>1, <1>12 DEF StreamsOf
  <2>2. n \in unrefreshed => n \in unrefreshed'
    BY <1>6, <1>12
  <2> QED
    BY <1>1, <1>3, <1>4, <1>10, <1>11, <1>12, <2>1, <2>2, TablesKept
<1> QED
  BY <1>1, <1>3, <1>7, <1>10, <1>11, <1>12 DEF TablesTyped, TablesLaid, RInv

\* When operations are removed both tables are computed again.
LEMMA CleanOperationsTables ==
  ASSUME RInv, Listing', NEW s \in Streams, CleanOperations(s)
  PROVE  OperationsTyped' /\ TablesTyped' /\ TablesLaid'
<1> USE NullAssumption
<1> PICK m \in Modules \cup {Null} : m = entry[s]
  BY DEF RInv, TInv, IInv, TypeOK
<1>1. /\ type' = type /\ entry' = entry /\ order' = order /\ lookup_index' = lookup_index
      /\ operations' = operations \/ operations' = [operations EXCEPT ![s] = NoOperations]
      /\ RefreshAfterClean(s, operations')
  BY DEF CleanOperations, vars, streamVars
<1>2. OperationsTyped' /\ \A x \in Streams : x # s => operations'[x] = operations[x]
  <2>1. NoOperations \in Seq(OpCodes) /\ operations \in [Streams -> Seq(OpCodes)]
    BY DEF RInv, OperationsTyped, NoOperations
  <2>2. CASE operations' = operations
    BY <2>1, <2>2 DEF OperationsTyped
  <2>3. CASE operations' = [operations EXCEPT ![s] = NoOperations]
    BY <2>1, <2>3 DEF OperationsTyped
  <2> QED
    BY <1>1, <2>2, <2>3
<1>3. unrefreshed' = IF m # Null THEN unrefreshed \ {m} ELSE unrefreshed
  BY <1>1 DEF RefreshAfterClean
<1>4. /\ gather_dma_index' \in [Streams -> Nat]
      /\ m \in Modules => GatherHolds(m)'
      /\ \A x \in Streams : entry'[x] # m => gather_dma_index'[x] = gather_dma_index[x]
      /\ scatter_dma_index' \in [Streams -> Nat]
      /\ m \in Modules => ScatterHolds(m)'
      /\ \A x \in Streams : entry'[x] # m => scatter_dma_index'[x] = scatter_dma_index[x]
  <2>1. CASE m = Null
    <3>1. gather_dma_index' = gather_dma_index /\ scatter_dma_index' = scatter_dma_index
      BY <1>1, <2>1 DEF RefreshAfterClean
    <3> QED
      BY <2>1, <3>1 DEF RInv, TablesTyped
  <2>2. CASE m \in Modules
    <3>1. /\ gather_dma_index' = CalculateGather(order'[m], type', operations')
          /\ scatter_dma_index' = CalculateScatter(order'[m], type', operations')
      BY <1>1, <2>2 DEF RefreshAfterClean
    <3> QED
      BY <1>2, <2>2, <3>1, GatherRenewed, ScatterRenewed
  <2> QED
    BY <2>1, <2>2
<1>5. ASSUME NEW n \in Modules
      PROVE  LookupHolds(n)'
  <2>1. \A x \in StreamsOf(n)' : x \in StreamsOf(n)
    BY <1>1 DEF StreamsOf
  <2> QED
    BY <1>1, <2>1, LookupKept
<1>6. ASSUME NEW n \in Modules \ {m}
      PROVE  GatherHolds(n)' /\ ScatterHolds(n)'
  <2>1. \A x \in StreamsOf(n)' : x \in Streams /\ x \in StreamsOf(n) /\ entry'[x] # m /\ x # s
    BY <1>1, <1>6 DEF StreamsOf
  <2>2. n \in unrefreshed => n \in unrefreshed'
    BY <1>3, <1>6
  <2> QED
    BY <1>1, <1>2, <1>4, <1>6, <2>1, <2>2, TablesKept
<1> QED
  BY <1>1, <1>2, <1>4, <1>5, <1>6 DEF TablesTyped, TablesLaid, RInv

\* The half that is left of a pair sends no tag any more: it needs the rows it
\* needed before, or fewer.
LEMMA FewerRows ==
  ASSUME NEW s \in Streams, NEW ty, NEW ty2, ty2[s] = TIME_TRIGGERED_STREAM,
         NEW op \in [Streams -> Seq(OpCodes)], NEW op2 \in [Streams -> Seq(OpCodes)], op2[s] = op[s]
  PROVE  GatherRows(s, ty2, op2) <= GatherRows(s, ty, op)
<1> DEFINE n == NumGatherOps(s, ty, op)
           n2 == NumGatherOps(s, ty2, op2)
           p == NumPrefetchOps(s, op)
           f == NumOf(op[s], FORWARD_ALL)
           rows(k) == IF k = 0 \/ (k = 1 /\ f = 1) THEN 0 ELSE IF k >= p THEN k ELSE p
<1>1. n \in Nat /\ n2 \in Nat /\ p \in Nat
  BY RowsTyped
<1>2. NumPrefetchOps(s, op2) = p /\ NumOf(op2[s], FORWARD_ALL) = f
  BY Zenon DEF NumPrefetchOps
<1>3. n = n2 \/ n = n2 + 1
  <2> DEFINE k == HeaderOps(s) + Len(op[s]) - NumOf(op[s], READ)
  <2>1. k \in Nat
    <3>1. op[s] \in Seq(OpCodes) /\ Len(op[s]) \in Nat /\ HeaderOps(s) \in Nat
      BY DEF HeaderOps, NUM_AUTOGEN_OPS
    <3>2. NumOf(op[s], READ) \in Nat /\ NumOf(op[s], READ) <= Len(op[s])
      BY <3>1, NumOfTyped
    <3> QED
      BY <3>1, <3>2
  <2>2. /\ n = k + (IF ty[s] = REDUNDANT_STREAM_TX THEN 1 ELSE 0)
        /\ n2 = k + (IF ty2[s] = REDUNDANT_STREAM_TX THEN 1 ELSE 0)
    BY Zenon DEF NumGatherOps
  <2> HIDE DEF k, n, n2
  <2> QED
    BY <2>1, <2>2
<1>4. GatherRows(s, ty, op) = rows(n) /\ GatherRows(s, ty2, op2) = rows(n2)
  BY <1>2, Zenon DEF GatherRows, OnlyForwards
<1> HIDE DEF n, n2, p, f
<1>5. rows(n2) <= rows(n)
  BY <1>1, <1>3
<1> QED
  BY <1>4, <1>5, Zenon

\* What is destroyed takes its rows with it; the others keep theirs.
LEMMA DestroyTables ==
  ASSUME RInv, IInv',
         \/ \E s \in Streams : TDestroyStream(s)
         \/ \E m \in Modules : TDestroyModule(m)
         \/ \E c \in Configs : TDestroyConfig(c)
  PROVE  OperationsTyped' /\ TablesTyped' /\ TablesLaid'
<1> USE NullAssumption, DisjointAssumption
<1> DEFINE gone == live \ live'
<1>1. /\ operations' = [x \in Streams |-> IF x \in gone THEN NoOperations ELSE operations[x]]
      /\ gather_dma_index' = [x \in Streams |-> IF x \in gone THEN 0 ELSE gather_dma_index[x]]
      /\ scatter_dma_index' = [x \in Streams |-> IF x \in gone THEN 0 ELSE scatter_dma_index[x]]
      /\ lookup_index' = [x \in Streams |-> IF x \in gone THEN 0 ELSE lookup_index[x]]
      /\ unrefreshed' = unrefreshed \ gone
  BY DEF TDestroyStream, TDestroyModule, TDestroyConfig, ResetFreed
<1>2. OperationsTyped'
  <2>1. NoOperations \in Seq(OpCodes) /\ operations \in [Streams -> Seq(OpCodes)]
    BY DEF RInv, OperationsTyped, NoOperations
  <2> HIDE DEF gone
  <2> QED
    BY <1>1, <2>1 DEF OperationsTyped
<1>3. TablesTyped'
  <2> HIDE DEF gone
  <2> QED
    BY <1>1 DEF RInv, TablesTyped
<1> DEFINE Kept(x) ==
             /\ x \in live /\ entry'[x] = entry[x]
             /\ type'[x] = type[x] \/ type'[x] = TIME_TRIGGERED_STREAM
<1>4. ASSUME NEW x \in Streams \cap live'
      PROVE  Kept(x)
  <2>1. ASSUME NEW s \in Streams, TDestroyStream(s)
        PROVE  Kept(x)
    BY <1>4, <2>1 DEF TDestroyStream, DestroyStream, UnpairedType
  <2>2. ASSUME NEW m \in Modules, TDestroyModule(m)
        PROVE  Kept(x)
    BY <1>4, <2>2 DEF TDestroyModule, DestroyModule, FreeModules, StreamsOf
  <2>3. ASSUME NEW c \in Configs, TDestroyConfig(c)
        PROVE  Kept(x)
    BY <1>4, <2>3 DEF TDestroyConfig, DestroyConfig, FreeModules
  <2> QED
    BY <2>1, <2>2, <2>3
<1>5. ASSUME NEW n \in Modules, NEW x \in StreamsOf(n)'
      PROVE  /\ x \in Streams /\ x \in StreamsOf(n) /\ n \in live'
             /\ type'[x] = type[x] \/ type'[x] = TIME_TRIGGERED_STREAM
             /\ operations'[x] = operations[x]
             /\ gather_dma_index'[x] = gather_dma_index[x]
             /\ scatter_dma_index'[x] = scatter_dma_index[x]
             /\ lookup_index'[x] = lookup_index[x]
  <2>1. x \in Streams /\ entry'[x] = n /\ n # Null
    BY <1>5 DEF StreamsOf
  <2>2. x \in live' /\ n \in live'
    BY <2>1 DEF IInv, ListsAllocated
  <2>3. Kept(x)
    BY <1>4, <2>1, <2>2
  <2>4. x \notin gone
    BY <2>2
  <2> HIDE DEF gone
  <2> QED
    BY <1>1, <2>1, <2>2, <2>3, <2>4 DEF StreamsOf
<1> HIDE DEF Kept
<1>6. ASSUME NEW n \in Modules
      PROVE  ScatterHolds(n)' /\ LookupHolds(n)'
  <2>1. \A x \in StreamsOf(n)' : type'[x] \in LookupTypes =>
          /\ x \in StreamsOf(n) /\ type[x] \in LookupTypes
          /\ scatter_dma_index'[x] = scatter_dma_index[x] /\ lookup_index'[x] = lookup_index[x]
          /\ NumOf(operations'[x], READ) = NumOf(operations[x], READ)
    BY <1>5
  <2> QED
    BY <1>2, <2>1, ScatterKept, LookupKept
<1>7. ASSUME NEW n \in Modules
      PROVE  GatherHolds(n)'
  <2>1. CASE StreamsOf(n)' = {}
    BY <2>1 DEF GatherHolds, GatherLaid, Apart
  <2>2. CASE StreamsOf(n)' # {}
    <3>1. n \in unrefreshed => n \in unrefreshed'
      BY <1>1, <1>5, <2>2
    <3>2. ASSUME NEW x \in StreamsOf(n)'
          PROVE  /\ x \in StreamsOf(n) /\ gather_dma_index'[x] = gather_dma_index[x]
                 /\ GatherRows(x, type', operations') <= GatherRows(x, type, operations)
                 /\ type'[x] \in LookupTypes =>
                      /\ type[x] \in LookupTypes
                      /\ GatherRows(x, type', operations') = GatherRows(x, type, operations)
                      /\ NumGatherOps(x, type', operations') = NumGatherOps(x, type, operations)
      <4> DEFINE ty2 == type'
                 op2 == operations'
      <4>1. /\ x \in Streams /\ x \in StreamsOf(n) /\ gather_dma_index'[x] = gather_dma_index[x]
            /\ ty2[x] = type[x] \/ ty2[x] = TIME_TRIGGERED_STREAM
            /\ op2[x] = operations[x]
            /\ op2 \in [Streams -> Seq(OpCodes)] /\ operations \in [Streams -> Seq(OpCodes)]
        BY <1>2, <1>5, <3>2 DEF OperationsTyped, RInv
      <4> HIDE DEF ty2, op2
      <4>2. CASE ty2[x] = type[x]
        <5>1. /\ GatherRows(x, ty2, op2) = GatherRows(x, type, operations)
              /\ NumGatherOps(x, ty2, op2) = NumGatherOps(x, type, operations)
          BY <4>1, <4>2, SameRows
        <5>2. GatherRows(x, type, operations) \in Nat
          BY <4>1, RowsTyped
        <5> QED
          BY <4>1, <4>2, <5>1, <5>2 DEF ty2, op2
      <4>3. CASE ty2[x] = TIME_TRIGGERED_STREAM
        <5>1. GatherRows(x, ty2, op2) <= GatherRows(x, type, operations)
          BY <4>1, <4>3, FewerRows
        <5> QED
          BY <4>1, <4>3, <5>1 DEF ty2, op2
      <4> QED
        BY <4>1, <4>2, <4>3
    <3> QED
      BY <1>2, <3>1, <3>2, GatherKept
  <2> QED
    BY <2>1, <2>2
<1> QED
  BY <1>2, <1>3, <1>6, <1>7 DEF TablesLaid

\* Every call leaves the rows of the streams of a module apart.
LEMMA NextTables ==
  ASSUME RInv, TInv', [TNext]_tvars
  PROVE  OperationsTyped' /\ TablesTyped' /\ TablesLaid'
<1>1. IInv' /\ Listing'
  BY DEF TInv
<1>2. CASE UNCHANGED <<type, entry, operations, gather_dma_index, scatter_dma_index,
                       lookup_index, unrefreshed>>
  BY <1>2 DEF RInv, OperationsTyped, TablesTyped, TablesLaid, GatherHolds, ScatterHolds, LookupHolds,
              StreamsOf
<1>3. CASE UNCHANGED tvars
  BY <1>2, <1>3 DEF tvars, vars, streamVars, tableVars, indexVars
<1>4. CASE OtherCalls /\ UNCHANGED tableVars
  BY <1>2, <1>4 DEF OtherCalls, AddModule, Enable, EnableFails, UseAfterFree,
                    streamVars, tableVars, indexVars
<1>5. ASSUME NEW s \in Streams, NEW r \in Streams, TSetRedundant(s, r)
      PROVE  OperationsTyped' /\ TablesTyped' /\ TablesLaid'
  <2>1. type[s] = TIME_TRIGGERED_STREAM \/ type[s] = INGRESS_TRIGGERED_STREAM
    BY <1>5 DEF TSetRedundant, SetRedundant, PairType
  <2> QED
    BY <1>1, <1>5, <2>1, SetTransmitTables, SetReceiveTables
<1> QED
  BY <1>1, <1>3, <1>4, <1>5, SetChildTables, AddModuleStreamTables, AddOperationTables,
     CleanOperationsTables, DestroyTables DEF TNext, TAddStream

-----------------------------------------------------------------------------
(* The invariant *)

\* In the initial state no stream is in a list and none is paired.
LEMMA TInitInvariant == TInit => TInv
<1> SUFFICES ASSUME TInit PROVE TInv
  OBVIOUS
<1> USE NullAssumption, DisjointAssumption, KindAssumption
<1>1. IInv
  BY InitInvariant DEF TInit
<1>2. Listing
  <2>1. << >> \in Seq(Streams) /\ Listed(<< >>) = {} /\ NoneTwice(<< >>)
    BY DEF Listed, NoneTwice
  <2>2. \A m \in Modules : StreamsOf(m) = {}
    BY DEF TInit, Init, StreamsOf
  <2> QED
    BY <2>1, <2>2 DEF TInit, Listing
<1>3. ReferenceHasSlot
  BY DEF TInit, Init, ReferenceHasSlot
<1>4. IndexesTyped /\ PairIndexes
  BY DEF TInit, Init, IndexesTyped, PairIndexes, Paired
<1> QED
  BY <1>1, <1>2, <1>3, <1>4 DEF TInv

\* Every step keeps the invariant.
LEMMA TNextInvariant == TInv /\ [TNext]_tvars => TInv'
<1> SUFFICES ASSUME TInv, [TNext]_tvars PROVE TInv'
  OBVIOUS
<1>1. IInv'
  BY StepOfGraph, NextInvariant DEF TInv
<1>2. CASE TNext
  <2>1. Listing'
    BY <1>2, NextListing
  <2> QED
    BY <1>1, <1>2, <2>1, NextReferenceHasSlot, NextIndexes DEF TInv
<1>3. CASE UNCHANGED tvars
  <2>1. UNCHANGED <<live, streamVars, configVars, order, redundand_index>>
    BY <1>3 DEF tvars, vars, tableVars, indexVars
  <2>2. Listing' /\ ReferenceHasSlot'
    BY <2>1 DEF TInv, Listing, StreamsOf, ReferenceHasSlot, streamVars, configVars
  <2>3. IndexesTyped' /\ PairIndexes'
    BY <2>1 DEF TInv, IndexesTyped, PairIndexes, Paired, SideBySide, streamVars
  <2> QED
    BY <1>1, <2>2, <2>3 DEF TInv
<1> QED
  BY <1>2, <1>3

\* What the lists, slots and indexes have in common holds in every state.
THEOREM TInvariance == TSpec => []TInv
BY TInitInvariant, TNextInvariant, PTL DEF TSpec

\* The list of a module holds the streams that point back to it, each once, after
\* any sequence of calls of libacmconfig, those that fail in the middle included.
THEOREM ListsMatch == TSpec => []ListsMatchEntries
<1>1. ASSUME TInv
      PROVE  ListsMatchEntries
  <2> SUFFICES ASSUME NEW m \in Modules
               PROVE  Listed(order[m]) = StreamsOf(m) /\ Len(order[m]) = Cardinality(StreamsOf(m))
    BY DEF ListsMatchEntries
  <2>1. order[m] \in Seq(Streams) /\ Listed(order[m]) = StreamsOf(m) /\ NoneTwice(order[m])
    BY <1>1 DEF TInv, Listing
  <2>2. Cardinality(Listed(order[m])) = Len(order[m])
    BY <2>1, LengthOfListed
  <2> QED
    BY <2>1, <2>2
<1> QED
  BY <1>1, TInvariance, PTL

\* When the pairs of a configuration are complete, the halves of each have one
\* entry of the redundancy table, other pairs have others and none has entry 0:
\* a configuration has two modules, so its pairs are all of the same two.
THEOREM RedundancyAgrees == TSpec => []RedundancyIndexesAgree
<1> USE NullAssumption, ModuleIdAssumption
<1>1. ASSUME TInv
      PROVE  RedundancyIndexesAgree
  <2> SUFFICES ASSUME NEW c \in Configs \cap live,
                      \A n \in ModulesOf(c) : ~PairFreed(n), PairsComplete(c),
                      NEW m \in ModulesOf(c), NEW s \in StreamsOf(m), type[s] \in RedundantTypes
               PROVE  /\ redundand_index[s] = redundand_index[reference_redundant[s]]
                      /\ redundand_index[s] >= REDUNDANCY_START_IDX
                      /\ \A t \in StreamsOf(m) \ {s} :
                           type[t] \in RedundantTypes => redundand_index[s] # redundand_index[t]
    BY DEF RedundancyIndexesAgree
  <2>1. ASSUME NEW x \in StreamsOf(m), type[x] \in RedundantTypes
        PROVE  /\ Paired(x) /\ entry[x] = m
               /\ entry[reference_redundant[x]] \in Modules \ {m}
               /\ config_reference[entry[reference_redundant[x]]] = c
    <3>1. x \in live /\ entry[x] = m /\ m \in Modules
      BY <1>1 DEF StreamsOf, ModulesOf, TInv, IInv, ListsAllocated
    <3>2. reference_redundant[x] \in live \cap Streams
      <4>1. reference_redundant[x] # Null /\ reference_redundant[x] \in Streams \cup {Null}
        BY <1>1, <2>1, <3>1 DEF StreamsOf, TInv, IInv, TypeOK, PairsInverse
      <4>2. ~Freed(reference_redundant[x])
        BY <2>1 DEF PairFreed
      <4> QED
        BY <4>1, <4>2 DEF Freed
    <3>3. /\ entry[reference_redundant[x]] # Null /\ entry[reference_redundant[x]] # m
          /\ config_reference[entry[reference_redundant[x]]] = c
      BY <2>1 DEF PairsComplete
    <3> QED
      BY <1>1, <2>1, <3>1, <3>2, <3>3 DEF Paired, TInv, IInv, TypeOK
  <2>2. ASSUME NEW n \in Modules \ {m}, config_reference[n] = c,
               NEW k \in Modules \ {m}, config_reference[k] = c
        PROVE  n = k
    <3>1. bypass[c][ModuleId[n]] = n /\ bypass[c][ModuleId[k]] = k
      BY <1>1, <2>2 DEF TInv, ReferenceHasSlot
    <3>2. bypass[c][ModuleId[m]] = m
      BY <1>1 DEF TInv, IInv, SlotsConsistent, ModulesOf
    <3>3. ModuleId[n] \in {0, 1} /\ ModuleId[k] \in {0, 1} /\ ModuleId[m] \in {0, 1}
      BY DEF ModulesOf
    <3> QED
      BY <3>1, <3>2, <3>3
  <2>3. Paired(s) /\ s \in Streams
    BY <2>1 DEF StreamsOf
  <2>4. ASSUME NEW t \in StreamsOf(m) \ {s}, type[t] \in RedundantTypes
        PROVE  redundand_index[s] # redundand_index[t]
    <3>1. Paired(t) /\ SideBySide(s, t) /\ t \in Streams \ {s}
      BY <2>1, <2>2, <2>4 DEF SideBySide, StreamsOf
    <3> QED
      BY <1>1, <2>3, <3>1 DEF TInv, PairIndexes
  <2> QED
    BY <1>1, <2>3, <2>4 DEF TInv, PairIndexes
<1> QED
  BY <1>1, TInvariance, PTL

\* The rows of the streams of every module are laid out in all states.
LEMMA TablesInvariance == TSpec => []RInv
<1>1. TInit => RInv
  <2> SUFFICES ASSUME TInit PROVE RInv
    OBVIOUS
  <2>1. TInv
    BY TInitInvariant
  <2>2. OperationsTyped /\ TablesTyped
    BY DEF TInit, OperationsTyped, TablesTyped, NoOperations
  <2>3. \A m \in Modules : StreamsOf(m) = {}
    BY NullAssumption DEF TInit, Init, StreamsOf
  <2>4. TablesLaid
    BY <2>3 DEF TablesLaid, GatherHolds, ScatterHolds, LookupHolds, GatherLaid, ScatterLaid, LookupLaid, Apart
  <2> QED
    BY <2>1, <2>2, <2>4 DEF RInv
<1>2. RInv /\ [TNext]_tvars => RInv'
  <2> SUFFICES ASSUME RInv, [TNext]_tvars PROVE RInv'
    OBVIOUS
  <2>1. TInv'
    BY TNextInvariant DEF RInv
  <2> QED
    BY <2>1, NextTables DEF RInv
<1> QED
  BY <1>1, <1>2, PTL DEF TSpec

\* What the calls of libacmconfig leave behind: the streams of a module have rows
\* of the gather and scatter tables that no other one has, and a rule each, within
\* the table.  Only a module one stream of which was made half of a pair from the
\* other side is excepted, and only for the gather table.
THEOREM RowsAreOwned == TSpec => []RowsOwned
<1>1. ASSUME RInv
      PROVE  RowsOwned
  <2> SUFFICES ASSUME NEW m \in Modules
               PROVE  (m \notin unrefreshed => GatherRowsOwned(m)) /\ ScatterAndLookupOwned(m)
    BY DEF RowsOwned
  <2>1. GatherHolds(m) /\ ScatterHolds(m) /\ LookupHolds(m)
    BY <1>1 DEF RInv, TablesLaid
  <2>2. ASSUME NEW s \in StreamsOf(m)
        PROVE  /\ s \in Streams
               /\ gather_dma_index[s] \in Nat /\ GatherRows(s, type, operations) \in Nat
               /\ scatter_dma_index[s] \in Nat /\ ScatterRows(s, type, operations) \in Nat
    <3>1. s \in Streams
      BY DEF StreamsOf
    <3> QED
      BY <1>1, <3>1, RowsTyped DEF RInv, OperationsTyped, TablesTyped
  <2>3. ASSUME NEW a \in Nat, NEW n \in Nat, NEW b \in Nat, NEW k \in Nat,
               n # 0 /\ k # 0 => a + n <= b \/ b + k <= a
        PROVE  (a .. a + n - 1) \cap (b .. b + k - 1) = {}
    BY <2>3
  <2>4. ASSUME m \notin unrefreshed
        PROVE  GatherRowsOwned(m)
    <3>1. GatherLaid(StreamsOf(m), type, operations, gather_dma_index)
      BY <2>1, <2>4 DEF GatherHolds
    <3>2. ASSUME NEW s \in StreamsOf(m), GatherRows(s, type, operations) # 0
          PROVE  gather_dma_index[s] >= GATHER_START_IDX
      BY <2>2, <3>1, <3>2 DEF GatherLaid, Apart
    <3>3. ASSUME NEW s \in StreamsOf(m), NEW t \in StreamsOf(m) \ {s}
          PROVE  GatherRowsOf(s) \cap GatherRowsOf(t) = {}
      <4>1. GatherRows(s, type, operations) # 0 /\ GatherRows(t, type, operations) # 0 =>
              \/ gather_dma_index[s] + GatherRows(s, type, operations) <= gather_dma_index[t]
              \/ gather_dma_index[t] + GatherRows(t, type, operations) <= gather_dma_index[s]
        BY <2>2, <3>1 DEF GatherLaid, Apart
      <4> QED
        BY <2>2, <2>3, <4>1 DEF GatherRowsOf
    <3>4. ASSUME NEW s \in StreamsOf(m), GatherRows(s, type, operations) = 0, type[s] \in LookupTypes
          PROVE  gather_dma_index[s] = IF NumGatherOps(s, type, operations) = 0
                                       THEN GATHER_NOP_IDX ELSE GATHER_FORWARD_IDX
      BY <3>1, <3>4, Zenon DEF GatherLaid
    <3> QED
      BY <3>2, <3>3, <3>4, Zenon DEF GatherRowsOwned
  <2>5. ScatterAndLookupOwned(m)
    <3>1. ScatterLaid(StreamsOf(m), type, operations, scatter_dma_index) /\ LookupLaid(StreamsOf(m), type, lookup_index)
      BY <2>1 DEF ScatterHolds, LookupHolds
    <3>2. ASSUME NEW s \in StreamsOf(m), ScatterRows(s, type, operations) # 0
          PROVE  scatter_dma_index[s] >= SCATTER_START_IDX
      BY <2>2, <3>1, <3>2 DEF ScatterLaid, Apart
    <3>3. ASSUME NEW s \in StreamsOf(m), NEW t \in StreamsOf(m) \ {s}
          PROVE  ScatterRowsOf(s) \cap ScatterRowsOf(t) = {}
      <4>1. ScatterRows(s, type, operations) # 0 /\ ScatterRows(t, type, operations) # 0 =>
              \/ scatter_dma_index[s] + ScatterRows(s, type, operations) <= scatter_dma_index[t]
              \/ scatter_dma_index[t] + ScatterRows(t, type, operations) <= scatter_dma_index[s]
        BY <2>2, <3>1 DEF ScatterLaid, Apart
      <4> QED
        BY <2>2, <2>3, <4>1 DEF ScatterRowsOf
    <3>4. ASSUME NEW s \in StreamsOf(m), type[s] \in LookupTypes
          PROVE  /\ ScatterRows(s, type, operations) = 0 => scatter_dma_index[s] = SCATTER_NOP_IDX
                 /\ lookup_index[s] \in LOOKUP_START_IDX .. MaxLookup - 1
                 /\ \A t \in StreamsOf(m) \ {s} : type[t] \in LookupTypes => lookup_index[s] # lookup_index[t]
      BY <3>1, <3>4, Zenon DEF ScatterLaid, LookupLaid
    <3> QED
      BY <3>2, <3>3, <3>4, Zenon DEF ScatterAndLookupOwned
  <2> QED
    BY <2>4, <2>5
<1> QED
  BY <1>1, TablesInvariance, PTL
=============================================================================
