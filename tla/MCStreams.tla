------------------------------ MODULE MCStreams ------------------------------
(***************************************************************************)
(* Instances of AcmStreams for TLC, and the operators of AcmPlugin, which  *)
(* calls it, on bounded data stores.                                       *)
(***************************************************************************)
EXTENDS AcmStreams, AcmPlugin, AcmStatus

CONSTANTS in1, in2, ev1, rec1, tt1, tt2, m0, m1, m2, c1, c2

\* An ingress triggered stream that can get an event and a recovery stream, and
\* streams for pairs of both kinds.
AllKinds ==
  in1 :> INGRESS_TRIGGERED_STREAM @@ in2 :> INGRESS_TRIGGERED_STREAM @@
  ev1 :> EVENT_STREAM @@ rec1 :> RECOVERY_STREAM @@
  tt1 :> TIME_TRIGGERED_STREAM @@ tt2 :> TIME_TRIGGERED_STREAM

\* Two modules for port 0 and one for port 1.
AllPorts == m0 :> 0 @@ m1 :> 1 @@ m2 :> 0

ApplicationKind == [s \in Streams |-> AllKinds[s]]
Ports == [m \in Modules |-> AllPorts[m]]

-----------------------------------------------------------------------------
Containers ==
  { "ingress-stream", "event-stream", "egress-stream-recovery", "time-triggered-stream" }

Pad == [ name |-> "pad", offset |-> 0, length |-> 2 ]
Constant(offset) == [ name |-> "insert-constant", offset |-> offset, length |-> 2 ]

\* A stream of the data store with the same operations in every container.
StoredStream(key, containers, operations) ==
  [ key |-> key, containers |-> containers, has_rtag |-> TRUE, schedule |-> 1,
    operations |-> [c \in Containers |-> operations], stated |-> [c \in Containers |-> 1],
    constant |-> [c \in Containers |-> 3] ]

StoredBypass(streams, stated, speed) ==
  << [ speed |-> speed, cycle_time |-> 1, streams |-> streams, stated |-> stated ] >>

\* A stream in each bypass module, with the same key or not.
DataStores ==
  { << StoredBypass(<< StoredStream(1, first, << Pad >>) >>, 1, "1.000"),
       StoredBypass(<< StoredStream(key, second, << Pad >>) >>, 1, "0.100") >> :
    key \in {1, 2}, first \in SUBSET Containers,
    second \in { {"ingress-stream"}, {"time-triggered-stream"}, {"ingress-stream", "event-stream"} } }

KeyOf(store, b) == store[b][1].streams[1].key
ContainersOf(store, b) == store[b][1].streams[1].containers

\* Of the store if the n-th call is refused, and if no call is for what the leaves are.
Outcome(store, n) == After(ProcessAcmConfig(store, FALSE), n)
Accepted(store) == Outcome(store, 0).refused = "none"

(* Whichever call is refused, nothing of the configuration is destroyed    *)
(* twice and at most one object is left over: the event or recovery stream *)
(* that was to be linked, or the module that was to be added.              *)
ASSUME RefusedLeavesOne ==
  \A store \in DataStores : \A n \in 1 .. Len(ProcessAcmConfig(store, FALSE)) :
    LET state == Outcome(store, n)
    IN  /\ state.owned \subseteq state.alive
        /\ Cardinality(Leaked(state)) <= 1
        /\ \A object \in Leaked(state) :
             \/ object[1] = "module" /\ state.refused = "add_module"
             \/ object[1] = "stream" /\ object[4] = "event-stream"
                  /\ state.refused = "set_child"
             \/ object[1] = "stream" /\ object[4] = "egress-stream-recovery"
                  /\ state.refused \in { "set_child", "pad" }

(* A data store that is accepted is there as a whole: a stream for every   *)
(* container, children below the stream of their entry, and the streams of *)
(* one key in both modules a pair, which then have no children.            *)
ASSUME AcceptedIsWhole ==
  \A store \in DataStores : Accepted(store) =>
    LET state == Outcome(store, 0)
        same == KeyOf(store, 1) = KeyOf(store, 2)
    IN  /\ state.owned = state.alive
        /\ state.alive = { ModuleOf(b) : b \in {1, 2} } \cup
             UNION { { StreamOf(b, KeyOf(store, b), c) : c \in ContainersOf(store, b) } :
                     b \in {1, 2} }
        /\ \A link \in state.children : link[1][2] = link[2][2] /\ link[1][3] = link[2][3]
        /\ same <=> state.pairs # {}
        /\ same => state.children = {} /\ ContainersOf(store, 1) = ContainersOf(store, 2)

(* Operations, streams and link speeds that are not as stated or not       *)
(* supported are refused, the speed by the cycle time that is not read     *)
(* behind it, and so are constants that end behind the constant data.      *)
ASSUME AcceptedIsAsStated ==
  \A containers \in { {"time-triggered-stream"},
                      {"ingress-stream", "event-stream", "egress-stream-recovery"} } :
    \A operations \in { << >>, << Pad >>, << Constant(1) >>, << Constant(2) >>, << Pad, Pad >> },
       listed \in 0 .. 2, stated \in 0 .. 2, speed \in Speeds \cup {"0.010"} :
      Accepted(<< StoredBypass([ i \in 1 .. listed |-> StoredStream(i, containers, operations) ],
                               stated, speed), << >> >>)
        <=> /\ listed = stated /\ speed \in Speeds
            /\ \/ listed = 0
               \/ operations = << Pad >>
               \/ operations = << Constant(1) >> /\ "ingress-stream" \notin containers

(* A request is processed once for every leaf it sets, no more when it is  *)
(* done and not undone when it is aborted; one that sets both leaves       *)
(* applies the schedule after the configuration.                           *)
ASSUME ProcessedOnce ==
  \A leaves \in SUBSET { "config-change", "schedule-change" }, end \in { "done", "abort" },
     operation \in { "created", "modified", "deleted" }, plugin_init \in BOOLEAN :
    LET processed == Processed(plugin_init, operation, leaves, << "update", "change", end >>)
    IN  /\ Len(processed) = Cardinality(ToSet(processed))
        /\ ToSet(processed) = IF plugin_init /\ operation # "deleted" THEN leaves ELSE {}
        /\ leaves \subseteq ToSet(processed) /\ Cardinality(leaves) = 2
             => Last(processed) = "schedule-change"

(* The state of a module ends at the first item its interface has no file  *)
(* for, although the frames behind it are counted.                         *)
ASSUME StateEndsEarly ==
  \A if_id \in IfVersions :
    LET readable == { i \in DOMAIN StatusSubpath : ItemReadable(i, if_id, FALSE) }
    IN  /\ ToSet(StatusItems) = DOMAIN StatusSubpath
        /\ Shown(readable) = IF if_id >= ACM_IF_3_0 THEN ToSet(StatusItems)
                              ELSE ToSet(SubSeq(StatusItems, 1, 5))
=============================================================================
