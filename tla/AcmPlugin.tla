------------------------------- MODULE AcmPlugin -------------------------------
(***************************************************************************)
(* The sysrepo plugin (ngn.acm-yang/acm.c): the calls of libacmconfig by   *)
(* which process_acm_config() turns the content of the data store into a   *)
(* configuration, what it frees when a call is refused, and which items    *)
(* acm_state_cb() gets to show.                                            *)
(*                                                                         *)
(* A bypass module of the data store is a record of its link speed, cycle  *)
(* time, number of streams and streams; a stream one of its key, whether   *)
(* it has a redundancy tag, its containers, for each of them the           *)
(* operations, the number of them it states and the size of its constant   *)
(* data, and the number of schedule entries.  Leaves only the library      *)
(* looks at are left out: any call may be refused.                         *)
(***************************************************************************)
EXTENDS Integers, SequencesExt, FiniteSetsExt

NoObject == <<"NULL">>

\* The stream of a container, and the module of a bypass.
StreamOf(bypass, key, container) == <<"stream", bypass, key, container>>
ModuleOf(bypass) == <<"module", bypass>>

\* A call, the object it is about and the one it takes as second argument.
Call(name, of, with) == [ name |-> name, of |-> of, with |-> with ]
Calls(name, of, n) == [ i \in 1 .. n |-> Call(name, of, NoObject) ]
If(condition, calls) == IF condition THEN calls ELSE << >>

-----------------------------------------------------------------------------
(* The streams of an entry of the list *)

\* new_stream_ops(): the call of an operation.  Every name that is no other is a read.
OperationCall(operation, container, constant_size) ==
  CASE operation.name = "insert" -> "insert"
    [] operation.name = "pad" -> "pad"
    [] operation.name = "insert-constant" ->
         IF operation.offset + operation.length > constant_size THEN "refuse"
         ELSE "insertconstant"
    [] operation.name = "forward" ->
         IF container = "ingress-stream" THEN "forwardall" ELSE "forward"
    [] OTHER -> "read"

\* The operations of a container in their order, ...
Operations(s, bypass, container) ==
  [ i \in DOMAIN s.operations[container] |->
      Call(OperationCall(s.operations[container][i], container,
                         IF container = "ingress-stream" THEN 0 ELSE s.constant[container]),
           StreamOf(bypass, s.key, container), NoObject) ]

\* ... and the comparison of their number with operation-list-length.
CheckOperations(s, container) ==
  If(Len(s.operations[container]) # s.stated[container], Calls("refuse", NoObject, 1))

\* new_ingress_stream()
NewIngressStream(s, bypass) ==
  LET stream == StreamOf(bypass, s.key, "ingress-stream")
  IN  Calls("create_stream", stream, 1)
        \o If(s.has_rtag, Calls("set_rtag", stream, 1))
        \o << Call("add_stream", stream, ModuleOf(bypass)) >>
        \o Operations(s, bypass, "ingress-stream")
        \o CheckOperations(s, "ingress-stream")

\* new_egress_stream()
NewEgressStream(s, bypass) ==
  LET stream == StreamOf(bypass, s.key, "time-triggered-stream")
  IN  Calls("create_stream", stream, 1)
        \o << Call("add_stream", stream, ModuleOf(bypass)) >>
        \o Operations(s, bypass, "time-triggered-stream")
        \o CheckOperations(s, "time-triggered-stream")

Created(s, bypass, container) ==
  IF container \in s.containers THEN StreamOf(bypass, s.key, container) ELSE NoObject

\* new_event_stream(): linked before the operations are added.
NewEventStream(s, bypass) ==
  LET stream == StreamOf(bypass, s.key, "event-stream")
  IN  Calls("create_stream", stream, 1)
        \o << Call("set_child", Created(s, bypass, "ingress-stream"), stream) >>
        \o Operations(s, bypass, "event-stream")
        \o CheckOperations(s, "event-stream")

\* new_egress_stream_recovery(): linked after the operations are added.
NewEgressStreamRecovery(s, bypass) ==
  LET stream == StreamOf(bypass, s.key, "egress-stream-recovery")
  IN  Calls("create_stream", stream, 1)
        \o Operations(s, bypass, "egress-stream-recovery")
        \o << Call("set_child", Created(s, bypass, "event-stream"), stream) >>
        \o CheckOperations(s, "egress-stream-recovery")

\* new_stream_schedule(): windows of an ingress, events of a time triggered stream.
ScheduledStream(s, bypass) ==
  IF "ingress-stream" \in s.containers THEN StreamOf(bypass, s.key, "ingress-stream")
  ELSE Created(s, bypass, "time-triggered-stream")

NewStreamSchedule(s, bypass) ==
  Calls(IF "ingress-stream" \in s.containers THEN "add_window" ELSE "add_event",
        ScheduledStream(s, bypass), s.schedule)

\* new_stream_node(): the containers in the order of the schema, an ingress or time
\* triggered stream being made the second of a pair or stored for one, and the schedule.
\* (For the list of streams see Done.)
NewStreamNode(s, bypass) ==
  If("ingress-stream" \in s.containers,
     NewIngressStream(s, bypass)
       \o << Call("pair", StreamOf(bypass, s.key, "ingress-stream"), NoObject) >>)
    \o If("event-stream" \in s.containers, NewEventStream(s, bypass))
    \o If("egress-stream-recovery" \in s.containers, NewEgressStreamRecovery(s, bypass))
    \o If("time-triggered-stream" \in s.containers,
          NewEgressStream(s, bypass)
            \o << Call("pair", StreamOf(bypass, s.key, "time-triggered-stream"), NoObject) >>)
    \o NewStreamSchedule(s, bypass)

-----------------------------------------------------------------------------
(* A module *)

Speeds == { "0.100", "1.000" }

\* new_control_node() stops at a link speed it does not support and leaves the leaves
\* behind it, the cycle time first of all, at zero.  Its result is only logged.
NewControlNode(b) ==
  IF b.speed \in Speeds THEN [ speed |-> b.speed, cycle_time |-> b.cycle_time ]
  ELSE [ speed |-> "1.000", cycle_time |-> 0 ]

\* new_acm_module(): one stream more than stated is refused before it is looked at, one
\* less at the end; module_set_schedule() refuses a cycle of zero.
NewAcmModule(b, bypass) ==
  LET module == ModuleOf(bypass)
      taken == SubSeq(b.streams, 1, Min({ Len(b.streams), b.stated }))
  IN  Calls("create_module", module, 1)
        \o Calls("add_module", module, 1)
        \o Calls("set_schedule", module, 1)
        \o If(NewControlNode(b).cycle_time = 0, Calls("refuse", module, 1))
        \o FlattenSeq([ i \in DOMAIN taken |-> NewStreamNode(taken[i], bypass) ])
        \o If(Len(b.streams) # b.stated, Calls("refuse", module, 1))

\* process_acm_config(): the store has a sequence for each bypass, which is empty if the
\* container is, and holds its record otherwise.
ProcessAcmConfig(store, schedule_change) ==
  Calls("create", NoObject, 1)
    \o FlattenSeq([ bypass \in DOMAIN store |->
                       FlattenSeq([ n \in DOMAIN store[bypass] |->
                                      NewAcmModule(store[bypass][n], bypass) ]) ])
    \o IF schedule_change THEN Calls("apply_schedule", NoObject, 1)
       ELSE Calls("validate", NoObject, 1) \o Calls("apply", NoObject, 1)

-----------------------------------------------------------------------------
(* What the calls do.  "alive" holds the streams and modules that exist, "owned"    *)
(* those acm_destroy() frees; streams is tt_streams, found by key.                   *)

Begin == [ alive |-> {}, owned |-> {}, children |-> {}, pairs |-> {}, streams |-> {},
           next |-> 1, refused |-> "none" ]

StoredFor(state, stream) == { t \in state.streams : t[3] = stream[3] }

IsParent(state, stream) == \E link \in state.children : link[1] = stream
IsPaired(state, stream) == \E pair \in state.pairs : stream \in pair

\* What the library refuses of these calls whatever the leaves are: no stream, a stream
\* of a pair as parent, a parent or a stream of another type as first of a pair.
Refused(state, call) ==
  CASE call.name = "refuse" -> TRUE
    [] call.name = "set_child" -> call.of = NoObject \/ IsPaired(state, call.of)
    [] call.name \in { "add_window", "add_event" } -> call.of = NoObject
    [] call.name = "pair" ->
         \E t \in StoredFor(state, call.of) :
           t[4] # call.of[4] \/ IsParent(state, t)
    [] OTHER -> FALSE

Done(state, call) ==
  CASE call.name \in { "create_stream", "create_module" } ->
         [state EXCEPT !.alive = @ \cup { call.of }]
    [] call.name \in { "add_stream", "add_module" } ->
         [state EXCEPT !.owned = @ \cup { call.of }]
    [] call.name = "set_child" ->
         [state EXCEPT !.children = @ \cup { <<call.of, call.with>> },
                       !.owned = IF call.of \in @ THEN @ \cup { call.with } ELSE @]
    [] call.name = "pair" ->
         IF StoredFor(state, call.of) = {}
         THEN [state EXCEPT !.streams = @ \cup { call.of }]
         ELSE [state EXCEPT !.pairs = @ \cup { {t, call.of} : t \in StoredFor(state, call.of) }]
    [] OTHER -> state

\* What the plugin destroys itself when a call fails.  acm_destroy_module() does nothing
\* as the module has a configuration, which config_add_module() does not take back.
Undo(state, call) ==
  IF call.name \in { "set_rtag", "add_stream" } THEN [state EXCEPT !.alive = @ \ { call.of }]
  ELSE state

\* One call after the other until one is refused: by what it is, or as the n-th one by
\* what the leaves are.
Perform(state, call, n) ==
  IF state.refused # "none" THEN state
  ELSE IF Refused(state, call) \/ state.next = n
       THEN [Undo(state, call) EXCEPT !.refused = call.name, !.next = @ + 1]
       ELSE [Done(state, call) EXCEPT !.next = @ + 1]

After(calls, n) == FoldLeft(LAMBDA state, call : Perform(state, call, n), Begin, calls)

\* Whatever the outcome, acm_destroy() ends the call and frees what the configuration holds.
Leaked(state) == state.alive \ state.owned

-----------------------------------------------------------------------------
(* The callbacks *)

\* acm_config_change_cb() of a leaf: whether it processes the data store.
Processes(plugin_init, operation, value, event) ==
  plugin_init /\ operation \in { "created", "modified" } /\ value /\ event = "change"

\* The leaves for which it does, in the order of the events of a request and of the
\* subscriptions of sr_plugin_init_cb().
Processed(plugin_init, operation, leaves, events) ==
  FlattenSeq([ i \in DOMAIN events |->
    SelectSeq(<< "config-change", "schedule-change" >>,
              LAMBDA leaf : Processes(plugin_init, operation, leaf \in leaves, events[i])) ])

StatusItems ==
  << "STATUS_HALT_ERROR_OCCURED", "STATUS_IP_ERROR_FLAGS", "STATUS_POLICING_ERROR_FLAGS",
     "STATUS_RUNT_FRAMES_PREV_CYCLE", "STATUS_MII_ERRORS_PREV_CYCLE",
     "STATUS_GMII_ERROR_PREV_CYCLE", "STATUS_SOF_ERRORS_PREV_CYCLE",
     "STATUS_LAYER7_MISSMATCH_PREV_CYCLE", "STATUS_DROPPED_FRAMES_PREV_CYCLE",
     "STATUS_FRAMES_SCATTERED_PREV_CYCLE", "STATUS_DISABLE_OVERRUN_PREV_CYCLE",
     "STATUS_TX_FRAMES_CYCLE_CHANGE", "STATUS_TX_FRAMES_PREV_CYCLE",
     "STATUS_RX_FRAMES_CYCLE_CHANGE", "STATUS_RX_FRAMES_PREV_CYCLE" >>

\* new_acm_state(): the first item that cannot be read ends it.
Shown(readable) ==
  { StatusItems[i] : i \in { n \in DOMAIN StatusItems :
                               \A before \in 1 .. n : StatusItems[before] \in readable } }
=============================================================================
