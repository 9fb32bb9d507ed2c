--------------------------- MODULE AcmStreamsProofs ---------------------------
(***************************************************************************)
(* Proofs about AcmStreams, for any number of streams, modules and         *)
(* configurations.  IInv is inductive: the links between streams stay      *)
(* inverse to each other because a list owns parent and child together     *)
(* (ChildListedWithParent), which in turn needs the links and the types.   *)
(***************************************************************************)
EXTENDS AcmStreams, FiniteSetTheorems, TLAPS

IInv ==
  /\ TypeOK
  /\ ReferencesInverse
  /\ PairsInverse
  /\ ChildListedWithParent
  /\ PairsSplit
  /\ SlotsConsistent
  /\ ListsAllocated

\* The names of the stream types; distinct strings for the provers.
USE DEF INGRESS_TRIGGERED_STREAM, TIME_TRIGGERED_STREAM, EVENT_STREAM,
        RECOVERY_STREAM, REDUNDANT_STREAM_TX, REDUNDANT_STREAM_RX,
        Kinds, RedundantTypes, LookupTypes, StreamTypes, ChildKinds, MODULE_IDS,
        LiveStreams

\* The initial state, in which nothing is linked, satisfies the invariant.
LEMMA InitInvariant == Init => IInv
<1> SUFFICES ASSUME Init PROVE IInv
  OBVIOUS
<1> USE NullAssumption, DisjointAssumption, KindAssumption, LimitAssumption DEF Init
<1>1. TypeOK
  <2>1. /\ type \in [Streams -> StreamTypes]
        /\ \A s \in Streams : type[s] = Kind[s]
    OBVIOUS
  <2>2. /\ 0 \in 0 .. MaxWindows
        /\ bypass \in [Configs -> [MODULE_IDS -> Modules \cup {Null}]]
    OBVIOUS
  <2> QED
    BY <2>1, <2>2 DEF TypeOK
<1>2. ReferencesInverse /\ PairsInverse /\ ChildListedWithParent /\ PairsSplit
  BY DEF ReferencesInverse, PairsInverse, ChildListedWithParent, PairsSplit
<1>3. SlotsConsistent /\ ListsAllocated
  BY DEF SlotsConsistent, ListsAllocated
<1> QED
  BY <1>1, <1>2, <1>3 DEF IInv

\* Linking a child keeps the invariant: parent and child are different streams
\* and the child enters the list of its parent.
LEMMA SetChildInvariant ==
  ASSUME IInv, NEW s \in Streams, NEW r \in Streams, SetChild(s, r)
  PROVE  IInv'
<1> USE NullAssumption, DisjointAssumption, KindAssumption
<1>1. /\ s # r /\ {s, r} \subseteq live
      /\ Kind[r] \in ChildKinds /\ type[r] = Kind[r]
      /\ Kind[s] = IF Kind[r] = EVENT_STREAM THEN INGRESS_TRIGGERED_STREAM ELSE EVENT_STREAM
      /\ reference[s] = Null /\ reference_parent[r] = Null
      /\ reference_redundant[s] = Null /\ reference_redundant[r] = Null
  BY DEF SetChild, ReferenceAllowed, IsParentChild, IInv, TypeOK
<1>2. TypeOK'
  BY <1>1 DEF SetChild, configVars, IInv, TypeOK
<1>3. ReferencesInverse'
  BY <1>1 DEF SetChild, configVars, IInv, TypeOK, ReferencesInverse
<1>4. PairsInverse'
  BY <1>1 DEF SetChild, configVars, IInv, TypeOK, PairsInverse
<1>5. ChildListedWithParent'
  BY <1>1 DEF SetChild, configVars, IInv, TypeOK, ChildListedWithParent
<1>6. PairsSplit'
  BY <1>1 DEF SetChild, configVars, IInv, TypeOK, PairsInverse, PairsSplit
<1>7. SlotsConsistent'
  BY <1>1 DEF SetChild, configVars, IInv, TypeOK, SlotsConsistent
<1>8. ListsAllocated'
  BY <1>1 DEF SetChild, configVars, IInv, TypeOK, ListsAllocated
<1> QED
  BY <1>2, <1>3, <1>4, <1>5, <1>6, <1>7, <1>8 DEF IInv

\* Making a pair keeps the invariant: both streams get the same redundant type,
\* which neither had before.
LEMMA SetRedundantInvariant ==
  ASSUME IInv, NEW s \in Streams, NEW r \in Streams, SetRedundant(s, r)
  PROVE  IInv'
<1> USE NullAssumption, DisjointAssumption, KindAssumption
<1>1. /\ {s, r} \subseteq live
      /\ type[s] \notin ChildKinds /\ type[r] \notin ChildKinds
      /\ PairType(s, r) \in RedundantTypes
      /\ reference_redundant[s] = Null /\ reference_redundant[r] = Null
  BY DEF SetRedundant, ReferenceAllowed, PairType
<1>2. TypeOK'
  BY <1>1 DEF SetRedundant, PairPlacement, configVars, IInv, TypeOK
<1>3. ReferencesInverse'
  BY <1>1 DEF SetRedundant, PairPlacement, configVars, IInv, TypeOK, ReferencesInverse
<1>4. PairsInverse'
  BY <1>1 DEF SetRedundant, PairPlacement, configVars, IInv, TypeOK, PairsInverse
<1>5. ChildListedWithParent'
  BY <1>1 DEF SetRedundant, PairPlacement, configVars, IInv, TypeOK, ChildListedWithParent
<1>6. PairsSplit'
  BY <1>1 DEF SetRedundant, PairPlacement, configVars, IInv, TypeOK, PairsSplit
<1>7. SlotsConsistent'
  BY <1>1 DEF SetRedundant, PairPlacement, configVars, IInv, TypeOK, SlotsConsistent
<1>8. ListsAllocated'
  BY <1>1 DEF SetRedundant, PairPlacement, configVars, IInv, TypeOK, ListsAllocated
<1> QED
  BY <1>2, <1>3, <1>4, <1>5, <1>6, <1>7, <1>8 DEF IInv

\* Destroying a stream keeps the invariant: of the streams that go, none is
\* in a list, the parent of each goes with it, and none but the first can
\* have a partner.
LEMMA DestroyStreamInvariant ==
  ASSUME IInv, NEW s \in Streams, DestroyStream(s)
  PROVE  IInv'
<1> USE NullAssumption, DisjointAssumption, KindAssumption
<1>1. /\ s \in live /\ entry[s] = Null
      /\ type[s] \in ChildKinds => reference_parent[s] = Null
      /\ s \in DeletedWith(s) /\ DeletedWith(s) \subseteq live
      /\ \A x \in DeletedWith(s) : entry[x] = Null
      /\ \A x \in DeletedWith(s) \ {s} :
           Kind[x] \in ChildKinds /\ reference_parent[x] \in DeletedWith(s)
  BY DEF DestroyStream, Deletable, DeletedWith, IInv, TypeOK, ReferencesInverse
<1>2. TypeOK'
  <2> DEFINE partner == reference_redundant[s]
  <2>1. partner # Null => partner \in Streams /\ Kind[partner] \notin ChildKinds
    BY <1>1 DEF DestroyStream, Freed, IInv, TypeOK, PairsInverse
  <2>2. /\ type' \in [Streams -> StreamTypes]
        /\ \A x \in Streams :
             \/ type'[x] = Kind[x]
             \/ Kind[x] \notin ChildKinds
                /\ type'[x] \in RedundantTypes \cup {TIME_TRIGGERED_STREAM}
    BY <2>1 DEF DestroyStream, UnpairedType, IInv, TypeOK
  <2>3. /\ reference' \in [Streams -> Streams \cup {Null}]
        /\ reference_parent' \in [Streams -> Streams \cup {Null}]
        /\ reference_redundant' \in [Streams -> Streams \cup {Null}]
        /\ windows' \in [Streams -> 0 .. MaxWindows]
    BY LimitAssumption DEF DestroyStream, IInv, TypeOK
  <2> QED
    BY <2>2, <2>3 DEF DestroyStream, configVars, IInv, TypeOK
<1>3. ReferencesInverse'
  BY <1>1 DEF DestroyStream, UnpairedType, configVars, DeletedWith, IInv, TypeOK, ReferencesInverse, PairsInverse
<1>4. PairsInverse'
  BY <1>1 DEF DestroyStream, UnpairedType, configVars, DeletedWith, IInv, TypeOK, ReferencesInverse, PairsInverse
<1>5. ChildListedWithParent'
  BY <1>1 DEF DestroyStream, UnpairedType, configVars, DeletedWith, IInv, TypeOK, ReferencesInverse, PairsInverse, ChildListedWithParent
<1>6. PairsSplit'
  BY <1>1 DEF DestroyStream, UnpairedType, configVars, DeletedWith, IInv, TypeOK, ReferencesInverse, PairsInverse, PairsSplit
<1>7. SlotsConsistent'
  BY <1>1 DEF DestroyStream, UnpairedType, configVars, DeletedWith, IInv, TypeOK, SlotsConsistent
<1>8. ListsAllocated'
  BY <1>1 DEF DestroyStream, UnpairedType, configVars, DeletedWith, IInv, TypeOK, ListsAllocated
<1> QED
  BY <1>2, <1>3, <1>4, <1>5, <1>6, <1>7, <1>8 DEF IInv

\* Adding a stream keeps the invariant: a child is added after its parent, and
\* neither the stream nor its children have a partner.
LEMMA AddModuleStreamInvariant ==
  ASSUME IInv, NEW m \in Modules, NEW s \in Streams,
         NEW added \in AddedPrefixes(s), AddModuleStream(m, s, added)
  PROVE  IInv'
<1> USE NullAssumption, DisjointAssumption, KindAssumption
<1>1. /\ m \in live /\ added \subseteq live
      /\ \A x \in added : entry[x] = Null /\ reference_redundant[x] = Null
      /\ \A x \in added : type[x] \in ChildKinds => reference_parent[x] \in added
  BY DEF AddModuleStream, StreamAddable, AddedPrefixes, FirstChild, SecondChild,
         IInv, TypeOK, ReferencesInverse, PairsInverse
<1>2. TypeOK'
  BY <1>1 DEF AddModuleStream, configVars, IInv, TypeOK
<1>3. ReferencesInverse'
  BY <1>1 DEF AddModuleStream, configVars, IInv, TypeOK, ReferencesInverse
<1>4. PairsInverse'
  BY <1>1 DEF AddModuleStream, configVars, IInv, TypeOK, PairsInverse
<1>5. ChildListedWithParent'
  BY <1>1 DEF AddModuleStream, configVars, IInv, TypeOK, ChildListedWithParent
<1>6. PairsSplit'
  BY <1>1 DEF AddModuleStream, configVars, IInv, TypeOK, PairsInverse, PairsSplit
<1>7. SlotsConsistent'
  BY <1>1 DEF AddModuleStream, configVars, IInv, TypeOK, SlotsConsistent
<1>8. ListsAllocated'
  BY <1>1 DEF AddModuleStream, configVars, IInv, TypeOK, ListsAllocated
<1> QED
  BY <1>2, <1>3, <1>4, <1>5, <1>6, <1>7, <1>8 DEF IInv

\* A schedule entry is no link between objects.
LEMMA AddScheduleInvariant ==
  ASSUME IInv, NEW s \in Streams, AddSchedule(s)
  PROVE  IInv'
<1> USE NullAssumption, DisjointAssumption, KindAssumption
<1>1. TypeOK'
  <2>1. windows' \in [Streams -> 0 .. MaxWindows]
    BY LimitAssumption DEF AddSchedule, IInv, TypeOK
  <2> QED
    BY <2>1 DEF AddSchedule, configVars, IInv, TypeOK
<1>2. ReferencesInverse'
  BY DEF AddSchedule, configVars, IInv, TypeOK, ReferencesInverse
<1>3. PairsInverse'
  BY DEF AddSchedule, configVars, IInv, TypeOK, PairsInverse
<1>4. ChildListedWithParent'
  BY DEF AddSchedule, configVars, IInv, TypeOK, ChildListedWithParent
<1>5. PairsSplit'
  BY DEF AddSchedule, configVars, IInv, TypeOK, PairsSplit
<1>6. SlotsConsistent'
  BY DEF AddSchedule, configVars, IInv, TypeOK, SlotsConsistent
<1>7. ListsAllocated'
  BY DEF AddSchedule, configVars, IInv, TypeOK, ListsAllocated
<1> QED
  BY <1>1, <1>2, <1>3, <1>4, <1>5, <1>6, <1>7 DEF IInv

\* Neither is the schedule that is removed.
LEMMA CleanScheduleInvariant ==
  ASSUME IInv, NEW s \in Streams, CleanSchedule(s)
  PROVE  IInv'
<1> USE NullAssumption, DisjointAssumption, KindAssumption
<1>1. TypeOK'
  <2>1. windows' \in [Streams -> 0 .. MaxWindows]
    BY LimitAssumption DEF CleanSchedule, IInv, TypeOK
  <2> QED
    BY <2>1 DEF CleanSchedule, configVars, IInv, TypeOK
<1>2. ReferencesInverse'
  BY DEF CleanSchedule, configVars, IInv, TypeOK, ReferencesInverse
<1>3. PairsInverse'
  BY DEF CleanSchedule, configVars, IInv, TypeOK, PairsInverse
<1>4. ChildListedWithParent'
  BY DEF CleanSchedule, configVars, IInv, TypeOK, ChildListedWithParent
<1>5. PairsSplit'
  BY DEF CleanSchedule, configVars, IInv, TypeOK, PairsSplit
<1>6. SlotsConsistent'
  BY DEF CleanSchedule, configVars, IInv, TypeOK, SlotsConsistent
<1>7. ListsAllocated'
  BY DEF CleanSchedule, configVars, IInv, TypeOK, ListsAllocated
<1> QED
  BY <1>1, <1>2, <1>3, <1>4, <1>5, <1>6, <1>7 DEF IInv

\* A slot is filled with a module that refers to no configuration yet, so that
\* it is in no other slot.
LEMMA AddModuleInvariant ==
  ASSUME IInv, NEW c \in Configs, NEW m \in Modules, AddModule(c, m)
  PROVE  IInv'
<1> USE NullAssumption, DisjointAssumption, KindAssumption
<1>1. TypeOK'
  BY DEF AddModule, ModuleAddable, streamVars, IInv, TypeOK
<1>2. ReferencesInverse'
  BY DEF AddModule, ModuleAddable, streamVars, IInv, TypeOK, ReferencesInverse
<1>3. PairsInverse'
  BY DEF AddModule, ModuleAddable, streamVars, IInv, TypeOK, PairsInverse
<1>4. ChildListedWithParent'
  BY DEF AddModule, ModuleAddable, streamVars, IInv, TypeOK, ChildListedWithParent
<1>5. PairsSplit'
  BY DEF AddModule, ModuleAddable, streamVars, IInv, TypeOK, PairsSplit
<1>6. SlotsConsistent'
  BY DEF AddModule, ModuleAddable, streamVars, IInv, TypeOK, SlotsConsistent
<1>7. ListsAllocated'
  BY DEF AddModule, ModuleAddable, streamVars, IInv, TypeOK, ListsAllocated
<1> QED
  BY <1>1, <1>2, <1>3, <1>4, <1>5, <1>6, <1>7 DEF IInv

\* The error path changes the reference of a module that is in no slot.
LEMMA AddModuleFailsInvariant ==
  ASSUME IInv, NEW c \in Configs, NEW m \in Modules, AddModuleFails(c, m)
  PROVE  IInv'
<1> USE NullAssumption, DisjointAssumption, KindAssumption
<1>1. TypeOK'
  BY DEF AddModuleFails, ModuleAddable, streamVars, IInv, TypeOK
<1>2. ReferencesInverse'
  BY DEF AddModuleFails, ModuleAddable, streamVars, IInv, TypeOK, ReferencesInverse
<1>3. PairsInverse'
  BY DEF AddModuleFails, ModuleAddable, streamVars, IInv, TypeOK, PairsInverse
<1>4. ChildListedWithParent'
  BY DEF AddModuleFails, ModuleAddable, streamVars, IInv, TypeOK, ChildListedWithParent
<1>5. PairsSplit'
  BY DEF AddModuleFails, ModuleAddable, streamVars, IInv, TypeOK, PairsSplit
<1>6. SlotsConsistent'
  BY DEF AddModuleFails, ModuleAddable, streamVars, IInv, TypeOK, SlotsConsistent
<1>7. ListsAllocated'
  BY DEF AddModuleFails, ModuleAddable, streamVars, IInv, TypeOK, ListsAllocated
<1> QED
  BY <1>1, <1>2, <1>3, <1>4, <1>5, <1>6, <1>7 DEF IInv

\* A module that is destroyed takes the children of its streams with it; it is in
\* no slot.
LEMMA DestroyModuleInvariant ==
  ASSUME IInv, NEW m \in Modules, DestroyModule(m)
  PROVE  IInv'
<1> USE NullAssumption, DisjointAssumption, KindAssumption
<1>1. TypeOK'
  <2>1. /\ type' \in [Streams -> StreamTypes]
        /\ \A x \in Streams :
             \/ type'[x] = Kind[x]
             \/ Kind[x] \notin ChildKinds
                /\ type'[x] \in RedundantTypes \cup {TIME_TRIGGERED_STREAM}
    BY DEF DestroyModule, FreeModules, IInv, TypeOK
  <2>2. /\ reference' \in [Streams -> Streams \cup {Null}]
        /\ reference_parent' \in [Streams -> Streams \cup {Null}]
        /\ reference_redundant' \in [Streams -> Streams \cup {Null}]
        /\ entry' \in [Streams -> Modules \cup {Null}]
    BY DEF DestroyModule, FreeModules, IInv, TypeOK
  <2>3. windows' \in [Streams -> 0 .. MaxWindows]
    BY LimitAssumption DEF DestroyModule, FreeModules, IInv, TypeOK
  <2> QED
    BY <2>1, <2>2, <2>3 DEF DestroyModule, StreamsOf, configVars, IInv, TypeOK
<1>2. ReferencesInverse'
  BY DEF DestroyModule, FreeModules, StreamsOf, configVars, IInv, TypeOK, ReferencesInverse, ChildListedWithParent, ListsAllocated
<1>3. PairsInverse'
  BY DEF DestroyModule, FreeModules, StreamsOf, configVars, IInv, TypeOK, PairsInverse, ListsAllocated
<1>4. ChildListedWithParent'
  BY DEF DestroyModule, FreeModules, StreamsOf, configVars, IInv, TypeOK, ChildListedWithParent, ListsAllocated
<1>5. PairsSplit'
  BY DEF DestroyModule, FreeModules, StreamsOf, configVars, IInv, TypeOK, PairsInverse, PairsSplit, ListsAllocated
<1>6. SlotsConsistent'
  BY DEF DestroyModule, FreeModules, StreamsOf, configVars, IInv, TypeOK, SlotsConsistent, ListsAllocated
<1>7. ListsAllocated'
  BY DEF DestroyModule, FreeModules, StreamsOf, configVars, IInv, TypeOK, ListsAllocated
<1> QED
  BY <1>1, <1>2, <1>3, <1>4, <1>5, <1>6, <1>7 DEF IInv

\* So does a configuration: its modules are in no other slot.
LEMMA DestroyConfigInvariant ==
  ASSUME IInv, NEW c \in Configs, DestroyConfig(c)
  PROVE  IInv'
<1> USE NullAssumption, DisjointAssumption, KindAssumption
<1>1. TypeOK'
  <2>1. /\ type' \in [Streams -> StreamTypes]
        /\ \A x \in Streams :
             \/ type'[x] = Kind[x]
             \/ Kind[x] \notin ChildKinds
                /\ type'[x] \in RedundantTypes \cup {TIME_TRIGGERED_STREAM}
    BY DEF DestroyConfig, FreeModules, IInv, TypeOK
  <2>2. /\ reference' \in [Streams -> Streams \cup {Null}]
        /\ reference_parent' \in [Streams -> Streams \cup {Null}]
        /\ reference_redundant' \in [Streams -> Streams \cup {Null}]
        /\ entry' \in [Streams -> Modules \cup {Null}]
    BY DEF DestroyConfig, FreeModules, IInv, TypeOK
  <2>3. windows' \in [Streams -> 0 .. MaxWindows]
    BY LimitAssumption DEF DestroyConfig, FreeModules, IInv, TypeOK
  <2> QED
    BY <2>1, <2>2, <2>3 DEF DestroyConfig, configVars, IInv, TypeOK
<1>2. ReferencesInverse'
  BY DEF DestroyConfig, FreeModules, configVars, IInv, TypeOK, ReferencesInverse, ChildListedWithParent, ListsAllocated
<1>3. PairsInverse'
  BY DEF DestroyConfig, FreeModules, configVars, IInv, TypeOK, PairsInverse, ListsAllocated
<1>4. ChildListedWithParent'
  BY DEF DestroyConfig, FreeModules, configVars, IInv, TypeOK, ChildListedWithParent, ListsAllocated
<1>5. PairsSplit'
  BY DEF DestroyConfig, FreeModules, configVars, IInv, TypeOK, PairsInverse, PairsSplit, ListsAllocated
<1>6. SlotsConsistent'
  BY DEF DestroyConfig, FreeModules, configVars, IInv, TypeOK, SlotsConsistent, ListsAllocated
<1>7. ListsAllocated'
  BY DEF DestroyConfig, FreeModules, configVars, IInv, TypeOK, ListsAllocated
<1> QED
  BY <1>1, <1>2, <1>3, <1>4, <1>5, <1>6, <1>7 DEF IInv

\* Enabling a configuration and a call that follows a dangling pointer change no
\* link.
LEMMA EnableInvariant ==
  ASSUME IInv, NEW c \in Configs, Enable(c) \/ EnableFails(c)
  PROVE  IInv'
<1>1. TypeOK'
  BY DEF Enable, EnableFails, streamVars, IInv, TypeOK
<1>2. UNCHANGED <<live, streamVars, bypass, config_reference>>
  BY DEF Enable, EnableFails
<1> QED
  BY <1>1, <1>2 DEF streamVars, IInv, ReferencesInverse, PairsInverse,
     ChildListedWithParent, PairsSplit, SlotsConsistent, ListsAllocated

\* A behaviour that ends at a pointer to a freed object changes nothing
\* else.
LEMMA UseAfterFreeInvariant ==
  ASSUME IInv, UseAfterFree \/ UNCHANGED vars
  PROVE  IInv'
<1>1. TypeOK'
  BY DEF UseAfterFree, vars, streamVars, configVars, IInv, TypeOK
<1>2. UNCHANGED <<live, streamVars, bypass, config_reference>>
  BY DEF UseAfterFree, vars, configVars
<1> QED
  BY <1>1, <1>2 DEF streamVars, IInv, ReferencesInverse, PairsInverse,
     ChildListedWithParent, PairsSplit, SlotsConsistent, ListsAllocated

\* Every step of the specification keeps the invariant.
LEMMA NextInvariant == IInv /\ [Next]_vars => IInv'
<1> SUFFICES ASSUME IInv, [Next]_vars PROVE IInv'
  OBVIOUS
<1>1. ASSUME NEW s \in Streams, NEW r \in Streams, SetReference(s, r) PROVE IInv'
  BY <1>1, SetChildInvariant, SetRedundantInvariant DEF SetReference
<1>2. ASSUME NEW s \in Streams, DestroyStream(s) PROVE IInv'
  BY <1>2, DestroyStreamInvariant
<1>3. ASSUME NEW m \in Modules, NEW s \in Streams, AddStream(m, s) PROVE IInv'
  BY <1>3, AddModuleStreamInvariant DEF AddStream
<1>4. ASSUME NEW s \in Streams, AddSchedule(s) \/ CleanSchedule(s) PROVE IInv'
  BY <1>4, AddScheduleInvariant, CleanScheduleInvariant
<1>5. ASSUME NEW c \in Configs, NEW m \in Modules, AddModule(c, m) \/ AddModuleFails(c, m)
      PROVE  IInv'
  BY <1>5, AddModuleInvariant, AddModuleFailsInvariant
<1>6. ASSUME NEW m \in Modules, DestroyModule(m) PROVE IInv'
  BY <1>6, DestroyModuleInvariant
<1>7. ASSUME NEW c \in Configs, DestroyConfig(c) \/ Enable(c) \/ EnableFails(c)
      PROVE  IInv'
  BY <1>7, DestroyConfigInvariant, EnableInvariant
<1>8. CASE UseAfterFree \/ UNCHANGED vars
  BY <1>8, UseAfterFreeInvariant
<1> QED
  BY <1>1, <1>2, <1>3, <1>4, <1>5, <1>6, <1>7, <1>8 DEF Next

\* The invariant holds in every reachable state.
THEOREM Invariance == Spec => []IInv
<1> QED
  BY InitInvariant, NextInvariant, PTL DEF Spec

\* Every variable of the object graph keeps its type.
THEOREM TypeCorrect == Spec => []TypeOK
<1>1. IInv => TypeOK
  BY DEF IInv
<1> QED
  BY <1>1, Invariance, PTL

\* Parents and children point to each other, and a child never outlives the
\* stream that points to it.
THEOREM ReferencesAreInverse == Spec => []ReferencesInverse
<1>1. IInv => ReferencesInverse
  BY DEF IInv
<1> QED
  BY <1>1, Invariance, PTL

\* The halves of a redundant pair that are allocated point to each other and
\* have the same type.
THEOREM PairsAreInverse == Spec => []PairsInverse
<1>1. IInv => PairsInverse
  BY DEF IInv
<1> QED
  BY <1>1, Invariance, PTL

\* No order of calls brings both halves of a pair into one module.
THEOREM PairsAreSplit == Spec => []PairsSplit
<1>1. IInv => PairsSplit
  BY DEF IInv
<1> QED
  BY <1>1, Invariance, PTL

\* No order of calls lists a child without its parent.
THEOREM ChildrenAreListedWithParent == Spec => []ChildListedWithParent
<1>1. IInv => ChildListedWithParent
  BY DEF IInv
<1> QED
  BY <1>1, Invariance, PTL

\* Everything a configuration owns is allocated and owned once, so that
\* config_destroy() frees nothing twice.
THEOREM EverythingIsOwnedOnce == Spec => []OwnedOnce
<1>1. IInv => OwnedOnce
  BY DEF IInv, OwnedOnce
<1> QED
  BY <1>1, Invariance, PTL

-----------------------------------------------------------------------------

\* What AppliedFrozen demands of a step for the applied stream s.
LinksFrozen(s) ==
  /\ reference'[s] = reference[s] /\ reference_parent'[s] = reference_parent[s]
  /\ \/ type'[s] = type[s] /\ reference_redundant'[s] = reference_redundant[s]
     \/ PairedFromOutside(s)
     \/ UnpairedFromOutside(s)

\* Linking streams: the first argument is not applied, so that an applied stream
\* can only be the second half of a new pair.
LEMMA SetReferenceFrozen ==
  ASSUME IInv, NEW s \in Streams, NEW r \in Streams, SetReference(s, r),
         NEW x \in Streams, Applied(x)
  PROVE  LinksFrozen(x)
<1> USE NullAssumption, DisjointAssumption
<1>1. ~Applied(s) /\ x # s /\ s \in live
  BY DEF SetReference, SetChild, SetRedundant, ReferenceAllowed
<1>2. CASE SetChild(s, r)
  <2>1. x # r
    <3>1. SUFFICES ASSUME x = r PROVE FALSE
      OBVIOUS
    <3>2. /\ type[x] \in ChildKinds /\ reference_parent[x] = Null
          /\ x \in live /\ entry[x] # Null
      BY <1>2, <3>1 DEF SetChild, ReferenceAllowed, IsParentChild, Applied
    <3> QED
      BY <3>2 DEF IInv, TypeOK, ChildListedWithParent
  <2> QED
    BY <1>1, <1>2, <2>1 DEF LinksFrozen, SetChild, configVars, IInv, TypeOK
<1>3. CASE SetRedundant(s, r)
  <2>1. /\ type[r] \in Kinds /\ PairType(s, r) \in RedundantTypes
        /\ reference_redundant[r] = Null
    BY <1>3 DEF SetRedundant, ReferenceAllowed, PairType
  <2>2. \A c \in Configs : config_applied[c] => s \notin AppliedStreams(c)
    BY <1>1 DEF AppliedStreams, ModulesOf, Applied, IInv, SlotsConsistent, TypeOK
  <2>3. /\ reference' = reference /\ reference_parent' = reference_parent /\ live' = live
        /\ x # r => type'[x] = type[x] /\ reference_redundant'[x] = reference_redundant[x]
        /\ x = r => type'[x] = PairType(s, r) /\ reference_redundant'[x] = s
    BY <1>1, <1>3 DEF SetRedundant, IInv, TypeOK
  <2> QED
    BY <1>1, <2>1, <2>2, <2>3 DEF LinksFrozen, PairedFromOutside
<1> QED
  BY <1>2, <1>3 DEF SetReference

\* Destroying a stream that is in no module: of the streams in modules only the
\* other half of its pair is touched.
LEMMA DestroyStreamFrozen ==
  ASSUME IInv, NEW s \in Streams, DestroyStream(s), NEW x \in Streams, entry[x] # Null
  PROVE  LinksFrozen(x)
<1> USE NullAssumption, DisjointAssumption
<1>1. \A y \in DeletedWith(s) : entry[y] = Null
  BY DEF DestroyStream, Deletable, DeletedWith
<1>2. x \notin DeletedWith(s) /\ x \in live /\ entry[s] = Null /\ s \in DeletedWith(s) /\ s \in live
  BY <1>1 DEF DestroyStream, Deletable, DeletedWith, IInv, ListsAllocated
<1>3. reference_parent[x] \notin DeletedWith(s)
  <2>1. SUFFICES ASSUME reference_parent[x] \in DeletedWith(s) PROVE FALSE
    OBVIOUS
  <2>2. reference_parent[x] \in live /\ reference_parent[x] \in Streams
    BY <2>1 DEF DestroyStream, Deletable, DeletedWith, IInv, TypeOK, ReferencesInverse
  <2>3. Kind[x] \in ChildKinds /\ type[x] \in ChildKinds
    BY <1>2, <2>2 DEF IInv, ReferencesInverse, TypeOK
  <2>4. entry[reference_parent[x]] # Null
    BY <1>2, <2>3 DEF IInv, ChildListedWithParent
  <2> QED
    BY <1>1, <2>1, <2>4
<1>4. reference'[x] = reference[x] /\ reference_parent'[x] = reference_parent[x]
  BY <1>2, <1>3 DEF DestroyStream
<1>5. CASE x # reference_redundant[s]
  BY <1>2, <1>4, <1>5 DEF LinksFrozen, DestroyStream
<1>6. CASE x = reference_redundant[s]
  <2>1. reference_redundant[x] = s
    BY <1>2, <1>6 DEF IInv, PairsInverse
  <2>2. /\ live' = live \ DeletedWith(s)
        /\ type'[x] = TIME_TRIGGERED_STREAM /\ reference_redundant'[x] = Null
    BY <1>2, <1>6 DEF DestroyStream, UnpairedType
  <2> QED
    BY <1>2, <1>4, <2>1, <2>2 DEF LinksFrozen, UnpairedFromOutside
<1> QED
  BY <1>5, <1>6

\* No call changes the streams of a configuration that stays applied: each call
\* that could asks for the configuration of the module first, and the slots of
\* different configurations hold different modules.  Only pairs with streams
\* outside are made and undone.
LEMMA NextFrozen ==
  ASSUME IInv, Next, NEW c \in Configs, config_applied[c], config_applied'[c],
         NEW m \in ModulesOf(c)
  PROVE  /\ bypass'[c] = bypass[c]
         /\ StreamsOf(m)' = StreamsOf(m)
         /\ \A s \in StreamsOf(m) : LinksFrozen(s)
<1> DEFINE Frozen == /\ bypass'[c] = bypass[c]
                     /\ \A s \in Streams : (entry'[s] = m) <=> (entry[s] = m)
                     /\ \A s \in Streams : entry[s] = m => LinksFrozen(s)
           Same(s) == /\ reference'[s] = reference[s]
                      /\ reference_parent'[s] = reference_parent[s]
                      /\ type'[s] = type[s]
                      /\ reference_redundant'[s] = reference_redundant[s]
<1> USE NullAssumption, DisjointAssumption
<1>1. m \in Modules /\ m # Null /\ m \in live /\ config_reference[m] = c /\ c # Null
  BY DEF ModulesOf, IInv, TypeOK, SlotsConsistent
<1>2. \A s \in Streams : entry[s] = m => Applied(s)
  BY <1>1 DEF Applied
<1>0. \A s \in Streams : Same(s) => LinksFrozen(s)
  BY DEF LinksFrozen
<1> SUFFICES Frozen
  BY DEF StreamsOf
<1>3. ASSUME NEW s \in Streams, NEW r \in Streams, SetReference(s, r) PROVE Frozen
  <2>1. \A x \in Streams : entry[x] = m => LinksFrozen(x)
    BY <1>2, <1>3, SetReferenceFrozen
  <2>2. ~Applied(s) /\ entry[s] # m
    BY <1>2, <1>3 DEF SetReference, SetChild, SetRedundant, ReferenceAllowed
  <2>3. CASE SetChild(s, r)
    <3>1. entry[s] # Null => entry[r] = Null
      BY <2>3 DEF SetChild
    <3>2. \A x \in Streams : entry'[x] = IF x = r /\ entry[s] # Null THEN entry[s] ELSE entry[x]
      BY <2>3 DEF SetChild, IInv, TypeOK
    <3>3. \A x \in Streams : (entry'[x] = m) <=> (entry[x] = m)
      BY <1>1, <2>2, <3>1, <3>2
    <3> QED
      BY <2>1, <2>3, <3>3 DEF SetChild, configVars
  <2>4. CASE SetRedundant(s, r)
    BY <2>1, <2>4 DEF SetRedundant, configVars
  <2> QED
    BY <1>3, <2>3, <2>4 DEF SetReference
<1>4. ASSUME NEW s \in Streams, DestroyStream(s) PROVE Frozen
  <2>1. \A x \in Streams : entry[x] = m => LinksFrozen(x)
    BY <1>1, <1>4, DestroyStreamFrozen
  <2> QED
    BY <1>4, <2>1 DEF DestroyStream, configVars
<1>5. ASSUME NEW n \in Modules, NEW s \in Streams, AddStream(n, s) PROVE Frozen
  <2> PICK added \in AddedPrefixes(s) : AddModuleStream(n, s, added)
    BY <1>5 DEF AddStream
  <2>1. n # m /\ \A x \in added : entry[x] = Null
    BY <1>1 DEF AddModuleStream, StreamAddable
  <2>2. \A x \in Streams : Same(x)
    BY DEF AddModuleStream
  <2>3. \A x \in Streams : (entry'[x] = m) <=> (entry[x] = m)
    BY <1>1, <2>1 DEF AddModuleStream, IInv, TypeOK
  <2> QED
    BY <1>0, <2>2, <2>3 DEF AddModuleStream, configVars
<1>6. ASSUME NEW s \in Streams, AddSchedule(s) \/ CleanSchedule(s) PROVE Frozen
  BY <1>0, <1>6 DEF AddSchedule, CleanSchedule, configVars
<1>7. ASSUME NEW d \in Configs, NEW n \in Modules, AddModule(d, n) \/ AddModuleFails(d, n)
      PROVE  Frozen
  BY <1>0, <1>7 DEF AddModule, AddModuleFails, ModuleAddable, streamVars, IInv, TypeOK
<1>8. ASSUME NEW n \in Modules, DestroyModule(n) PROVE Frozen
  <2>1. n # m
    BY <1>1, <1>8 DEF DestroyModule
  <2>2. \A x \in Streams : entry[x] = m => Same(x)
    BY <1>8, <2>1 DEF DestroyModule, FreeModules
  <2>3. \A x \in Streams : (entry'[x] = m) <=> (entry[x] = m)
    BY <1>1, <1>8, <2>1 DEF DestroyModule, FreeModules
  <2> QED
    BY <1>0, <1>8, <2>2, <2>3 DEF DestroyModule, configVars
<1>9. ASSUME NEW d \in Configs, DestroyConfig(d) PROVE Frozen
  <2>1. d # c
    BY <1>9 DEF DestroyConfig, IInv, TypeOK
  <2>2. \A i \in MODULE_IDS : bypass[d][i] # m
    BY <1>1, <2>1 DEF IInv, SlotsConsistent
  <2>3. \A x \in Streams : entry[x] = m => Same(x)
    BY <1>1, <1>9, <2>2 DEF DestroyConfig, FreeModules
  <2>4. \A x \in Streams : (entry'[x] = m) <=> (entry[x] = m)
    BY <1>1, <1>9, <2>2 DEF DestroyConfig, FreeModules
  <2>5. bypass'[c] = bypass[c]
    BY <1>9, <2>1 DEF DestroyConfig, IInv, TypeOK
  <2> QED
    BY <1>0, <2>3, <2>4, <2>5
<1>10. ASSUME NEW d \in Configs, Enable(d) \/ EnableFails(d) PROVE Frozen
  BY <1>0, <1>10 DEF Enable, EnableFails, streamVars
<1>11. CASE UseAfterFree
  BY <1>0, <1>11 DEF UseAfterFree, streamVars, configVars
<1> QED
  BY <1>3, <1>4, <1>5, <1>6, <1>7, <1>8, <1>9, <1>10, <1>11 DEF Next

\* The streams of a configuration that stays applied are neither added, removed
\* nor linked to others, whatever is called, but for the pairs that streams
\* outside of it make with them.
THEOREM AppliedIsFrozen == Spec => AppliedFrozen
<1> DEFINE Step == \A c \in Configs : config_applied[c] /\ config_applied'[c] =>
                     /\ bypass'[c] = bypass[c]
                     /\ \A m \in ModulesOf(c) : StreamsOf(m)' = StreamsOf(m)
                     /\ \A s \in AppliedStreams(c) :
                          /\ reference'[s] = reference[s] /\ reference_parent'[s] = reference_parent[s]
                          /\ \/ type'[s] = type[s] /\ reference_redundant'[s] = reference_redundant[s]
                             \/ PairedFromOutside(s)
                             \/ UnpairedFromOutside(s)
<1>1. IInv /\ Next => Step
  <2> SUFFICES ASSUME IInv, Next, NEW c \in Configs, config_applied[c], config_applied'[c]
               PROVE  /\ bypass'[c] = bypass[c]
                      /\ \A m \in ModulesOf(c) : StreamsOf(m)' = StreamsOf(m)
                      /\ \A s \in AppliedStreams(c) : LinksFrozen(s)
    BY DEF LinksFrozen
  <2>1. bypass'[c] = bypass[c]
    <3>1. ASSUME NEW d \in Configs, NEW n \in Modules, AddModule(d, n)
          PROVE  bypass'[c] = bypass[c]
      BY <3>1 DEF AddModule, ModuleAddable, IInv, TypeOK
    <3>2. ASSUME NEW d \in Configs, DestroyConfig(d) PROVE bypass'[c] = bypass[c]
      BY <3>2 DEF DestroyConfig, IInv, TypeOK
    <3>3. ASSUME UNCHANGED bypass PROVE bypass'[c] = bypass[c]
      BY <3>3
    <3> QED
      BY <3>1, <3>2, <3>3 DEF Next, SetReference, SetChild, SetRedundant, DestroyStream,
         AddStream, AddModuleStream, AddSchedule, CleanSchedule, AddModuleFails,
         DestroyModule, Enable, EnableFails, UseAfterFree, configVars
  <2>2. \A m \in ModulesOf(c) : StreamsOf(m)' = StreamsOf(m)
    BY NextFrozen
  <2>3. \A s \in AppliedStreams(c) : s \in StreamsOf(entry[s]) /\ entry[s] \in ModulesOf(c)
    BY DEF AppliedStreams, StreamsOf
  <2>4. \A m \in ModulesOf(c) : \A s \in StreamsOf(m) : LinksFrozen(s)
    BY NextFrozen
  <2> QED
    BY <2>1, <2>2, <2>3, <2>4
<1>2. IInv /\ [Next]_vars => [Step]_vars
  BY <1>1
<1> QED
  BY <1>2, Invariance, PTL DEF Spec, AppliedFrozen

\* Of the streams that acm_destroy_stream() frees, all but the one it was called
\* for are children without a partner, and a parent that is allocated goes with
\* its child.
LEMMA DestroyedTogether ==
  ASSUME IInv, NEW s \in Streams, DestroyStream(s)
  PROVE  \A x \in DeletedWith(s) :
           /\ reference_parent[x] \in live => reference_parent[x] \in DeletedWith(s)
           /\ x # s => reference_redundant[x] = Null
<1> USE NullAssumption, DisjointAssumption, KindAssumption
<1>1. /\ type[s] \in ChildKinds => reference_parent[s] = Null
      /\ DeletedWith(s) \subseteq live /\ DeletedWith(s) \subseteq Streams
      /\ \A x \in DeletedWith(s) \ {s} :
           Kind[x] \in ChildKinds /\ reference_parent[x] \in DeletedWith(s)
  BY DEF DestroyStream, Deletable, DeletedWith, IInv, TypeOK, ReferencesInverse
<1>2. \A x \in DeletedWith(s) \ {s} : reference_redundant[x] = Null
  BY <1>1 DEF IInv, TypeOK, PairsInverse
<1>3. reference_parent[s] \notin live
  <2>1. SUFFICES ASSUME reference_parent[s] \in live PROVE FALSE
    OBVIOUS
  <2>2. s \in live /\ reference_parent[s] \in Streams
    BY <2>1 DEF DestroyStream, IInv, TypeOK
  <2>3. reference[reference_parent[s]] = s
    BY <2>1, <2>2 DEF IInv, ReferencesInverse
  <2>4. Kind[s] \in ChildKinds
    BY <2>1, <2>2, <2>3 DEF IInv, ReferencesInverse
  <2>5. type[s] \in ChildKinds
    BY <2>4 DEF IInv, TypeOK
  <2>6. QED
    BY <1>1, <2>2, <2>5
<1>4. QED
  BY <1>1, <1>2, <1>3

\* acm_destroy_stream() leaves no pointer to what it frees.
LEMMA DestroyLeavesNoPointer ==
  ASSUME IInv, NEW s \in Streams, DestroyStream(s), NEW x \in Streams, x \in live'
  PROVE  /\ Freed(reference[x])' => Freed(reference[x])
         /\ Freed(reference_parent[x])' => Freed(reference_parent[x])
         /\ Freed(reference_redundant[x])' => Freed(reference_redundant[x])
<1> USE NullAssumption, DisjointAssumption
<1> DEFINE gone == DeletedWith(s)
<1>1. /\ live' = live \ gone /\ x \in live /\ x \notin gone /\ gone \subseteq Streams
      /\ reference'[x] = reference[x]
      /\ reference_parent'[x] = IF reference_parent[x] \in gone THEN Null ELSE reference_parent[x]
      /\ reference_redundant'[x] = IF x = reference_redundant[s] THEN Null ELSE reference_redundant[x]
  BY DEF DestroyStream, DeletedWith, IInv, TypeOK
<1>2. /\ \A y \in gone : reference_parent[y] \in live => reference_parent[y] \in gone
      /\ \A y \in gone \ {s} : reference_redundant[y] = Null
  BY DestroyedTogether
<1> HIDE DEF gone
<1>3. reference[x] # Null => reference_parent[reference[x]] = x
  BY <1>1 DEF IInv, ReferencesInverse
<1>4. reference[x] # Null => reference[x] \notin gone
  BY <1>1, <1>2, <1>3
<1>5. reference_redundant[x] \in live => reference_redundant[reference_redundant[x]] = x
  BY <1>1 DEF IInv, PairsInverse
<1>6. reference_redundant[x] \in gone /\ reference_redundant[x] \in live => x = reference_redundant[s]
  BY <1>2, <1>5
<1>7. QED
  BY <1>1, <1>4, <1>6 DEF Freed

\* After acm_destroy_stream() neither the partner of a pair nor a parent or a
\* child points to a stream that was freed by it.
THEOREM DestroyedIsForgotten == Spec => DestroyStreamLeavesNoPointer
<1> DEFINE Step == live' # live /\ live \ live' \subseteq Streams =>
                     \A s \in Streams \cap live' :
                       /\ Freed(reference[s])' => Freed(reference[s])
                       /\ Freed(reference_parent[s])' => Freed(reference_parent[s])
                       /\ Freed(reference_redundant[s])' => Freed(reference_redundant[s])
<1>1. ASSUME IInv, Next PROVE Step
  <2>1. ASSUME NEW s \in Streams, DestroyStream(s) PROVE Step
    BY <1>1, <2>1, DestroyLeavesNoPointer
  <2>2. ASSUME NEW m \in Modules, DestroyModule(m) PROVE Step
    BY <2>2, DisjointAssumption DEF DestroyModule
  <2>3. ASSUME NEW c \in Configs, DestroyConfig(c) PROVE Step
    BY <2>3, DisjointAssumption DEF DestroyConfig
  <2>4. ASSUME live' = live PROVE Step
    BY <2>4
  <2>5. QED
    BY <1>1, <2>1, <2>2, <2>3, <2>4 DEF Next, SetReference, SetChild, SetRedundant,
       AddStream, AddModuleStream, AddSchedule, CleanSchedule, AddModule, AddModuleFails,
       Enable, EnableFails, UseAfterFree
<1>2. IInv /\ [Next]_vars => [Step]_vars
  BY <1>1
<1>3. QED
  BY <1>2, Invariance, PTL DEF Spec, DestroyStreamLeavesNoPointer

-----------------------------------------------------------------------------
(* The lookup table.                                                       *)

\* The streams of a module that its lookup table has entries for.
LookedUp(m, ty, en) == { s \in Streams : en[s] = m /\ ty[s] \in LookupTypes }

LookupFits == \A m \in Modules : Cardinality(LookedUp(m, type, entry)) <= MaxLookup

\* No step makes a stream looked up by a module, unless that module was validated
\* with it: conversions keep a stream among the types that are looked up, or take
\* it out.
LEMMA LookedUpOrValidated ==
  ASSUME IInv, [Next]_vars, NEW m \in Modules
  PROVE  \/ LookedUp(m, type', entry') \subseteq LookedUp(m, type, entry)
         \/ WithinLimits(m, type', entry')
<1> USE NullAssumption, DisjointAssumption, KindAssumption
<1> DEFINE Fewer == \A x \in Streams : entry'[x] = m /\ type'[x] \in LookupTypes =>
                                         entry[x] = m /\ type[x] \in LookupTypes
<1>1. SUFFICES Fewer \/ WithinLimits(m, type', entry')
  BY DEF LookedUp
<1>2. ASSUME NEW s \in Streams, NEW r \in Streams, SetChild(s, r) PROVE Fewer
  BY <1>2 DEF SetChild, IsParentChild, IInv, TypeOK
<1>3. ASSUME NEW s \in Streams, NEW r \in Streams, SetRedundant(s, r) PROVE Fewer
  BY <1>3 DEF SetRedundant, PairType, IInv, TypeOK
<1>4. ASSUME NEW s \in Streams, DestroyStream(s) PROVE Fewer
  <2>1. \A x \in DeletedWith(s) : entry[x] = Null
    BY <1>4 DEF DestroyStream, Deletable, DeletedWith
  <2>2. QED
    BY <1>4, <2>1 DEF DestroyStream, UnpairedType, IInv, TypeOK
<1>5. ASSUME NEW n \in Modules, NEW s \in Streams, AddStream(n, s)
      PROVE  Fewer \/ WithinLimits(m, type', entry')
  <2>1. PICK added \in AddedPrefixes(s) : AddModuleStream(n, s, added)
    BY <1>5 DEF AddStream
  <2>2. WithinLimits(n, type', entry') /\ type' = type
    BY <2>1 DEF AddModuleStream
  <2>3. CASE n = m
    BY <2>2, <2>3
  <2>4. CASE n # m
    BY <2>1, <2>2, <2>4 DEF AddModuleStream, IInv, TypeOK
  <2>5. QED
    BY <2>3, <2>4
<1>6. ASSUME NEW n \in Modules, DestroyModule(n) PROVE Fewer
  BY <1>6 DEF DestroyModule, FreeModules, IInv, TypeOK
<1>7. ASSUME NEW c \in Configs, DestroyConfig(c) PROVE Fewer
  BY <1>7 DEF DestroyConfig, FreeModules, IInv, TypeOK
<1>8. ASSUME UNCHANGED <<type, entry>> PROVE Fewer
  BY <1>8
<1>9. QED
  BY <1>2, <1>3, <1>4, <1>5, <1>6, <1>7, <1>8 DEF Next, SetReference,
     AddSchedule, CleanSchedule, AddModule, AddModuleFails,
     Enable, EnableFails, UseAfterFree, streamVars, vars

\* The lookup table of every module has room for what its streams look up, though
\* a conversion validates the module of one of the two streams only.
THEOREM LookupFitsTable ==
  ASSUME IsFiniteSet(Streams)
  PROVE  Spec => []LookupWithinLimit
<1>1. Init => LookupFits
  <2>1. SUFFICES ASSUME Init, NEW m \in Modules PROVE Cardinality(LookedUp(m, type, entry)) <= MaxLookup
    BY DEF LookupFits
  <2>2. LookedUp(m, type, entry) = {}
    BY <2>1, NullAssumption DEF Init, LookedUp
  <2>3. QED
    BY <2>2, FS_EmptySet, LimitAssumption
<1>2. IInv /\ LookupFits /\ [Next]_vars => LookupFits'
  <2>1. SUFFICES ASSUME IInv, LookupFits, [Next]_vars, NEW m \in Modules
                 PROVE  Cardinality(LookedUp(m, type', entry')) <= MaxLookup
    BY DEF LookupFits, LookedUp
  <2>2. CASE WithinLimits(m, type', entry')
    BY <2>2 DEF WithinLimits, LookedUp
  <2>3. CASE LookedUp(m, type', entry') \subseteq LookedUp(m, type, entry)
    <3>1. IsFiniteSet(LookedUp(m, type, entry))
      BY FS_Subset DEF LookedUp
    <3>2. /\ Cardinality(LookedUp(m, type', entry')) <= Cardinality(LookedUp(m, type, entry))
          /\ IsFiniteSet(LookedUp(m, type', entry'))
      BY <2>3, <3>1, FS_Subset
    <3>3. Cardinality(LookedUp(m, type', entry')) \in Nat /\ Cardinality(LookedUp(m, type, entry)) \in Nat
      BY <3>1, <3>2, FS_CardinalityType
    <3>4. Cardinality(LookedUp(m, type, entry)) <= MaxLookup
      BY <2>1 DEF LookupFits
    <3>5. QED
      BY <3>2, <3>3, <3>4, LimitAssumption
  <2>4. QED
    BY <2>1, <2>2, <2>3, LookedUpOrValidated
<1>3. LookupFits => LookupWithinLimit
  <2>1. SUFFICES ASSUME LookupFits, NEW m \in Modules
                 PROVE  Cardinality({ s \in StreamsOf(m) : type[s] \in LookupTypes }) <= MaxLookup
    BY DEF LookupWithinLimit
  <2>2. { s \in StreamsOf(m) : type[s] \in LookupTypes } = LookedUp(m, type, entry)
    BY DEF StreamsOf, LookedUp
  <2>3. QED
    BY <2>1, <2>2 DEF LookupFits
<1>4. QED
  BY <1>1, <1>2, <1>3, Invariance, PTL DEF Spec
=============================================================================
