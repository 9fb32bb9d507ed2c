------------------------------- MODULE AcmTables -------------------------------
(***************************************************************************)
(* The indexes libacmconfig computes for the tables of the hardware, on    *)
(* top of the object graph of AcmStreams (ngn.acm-config/src: stream.c,    *)
(* libacmconfig.c, operation.c).                                           *)
(*                                                                         *)
(* The list of a module is a sequence here.  Every stream caches its first *)
(* row in the gather and scatter tables, its entry of the lookup table and *)
(* that of the redundancy table.  They depend on the streams before it in  *)
(* the list and are recomputed by the calls that change these, or so it is *)
(* intended; when the configuration is applied they are written as they    *)
(* are.                                                                    *)
(***************************************************************************)
EXTENDS AcmStreams, Sequences, FiniteSetsExt

CONSTANTS
  OpCodes,       \* the operations the application adds to streams
  MaxOperations  \* bound: how many of them there are at a time

INSERT == "INSERT"
INSERT_CONSTANT == "INSERT_CONSTANT"  \* also stands for PAD and FORWARD
READ == "READ"
FORWARD_ALL == "FORWARD_ALL"

ASSUME OpCodesAssumption == OpCodes \subseteq { INSERT, INSERT_CONSTANT, READ, FORWARD_ALL }
ASSUME MaxOperationsAssumption == MaxOperations \in Nat

NUM_AUTOGEN_OPS == 3           \* header operations of a stream that sends frames
NUM_PREFETCH_LOCK_COMMANDS == 4
LOOKUP_START_IDX == 0
REDUNDANCY_START_IDX == 1
SCATTER_NOP_IDX == 0
SCATTER_START_IDX == 1
GATHER_NOP_IDX == 0
GATHER_FORWARD_IDX == 1
GATHER_START_IDX == 2

VARIABLES
  order,              \* module->streams
  operations,         \* stream->operations without the header: the codes in order
  gather_dma_index,   \* stream->gather_dma_index
  scatter_dma_index,  \* stream->scatter_dma_index
  lookup_index,       \* stream->lookup_index
  redundand_index,    \* stream->redundand_index
  unrefreshed         \* history: modules with a stream that needs more rows in the
                      \* gather table since their indexes were computed

indexVars == <<gather_dma_index, scatter_dma_index, lookup_index, redundand_index>>
tableVars == <<order, operations, indexVars, unrefreshed>>
tvars == <<vars, tableVars>>

-----------------------------------------------------------------------------
(* Rows of the tables.  ty and op are the types and operations of the streams, *)
(* so that the rows after a step can be computed.                              *)

NoOperations == << >>

\* How many of the operations ops have code o.
NumOf(ops, o) == Cardinality({ i \in DOMAIN ops : ops[i] = o })

Listed(seq) == { seq[i] : i \in DOMAIN seq }
PositionOf(seq, s) == CHOOSE i \in DOMAIN seq : seq[i] = s

\* The header of a stream that sends frames of its own consists of operations.
HeaderOps(s) == IF Kind[s] = INGRESS_TRIGGERED_STREAM THEN 0 ELSE NUM_AUTOGEN_OPS

\* stream_num_gather_ops(): a stream of a transmitted pair has a row more, for
\* the redundancy tag.
NumGatherOps(s, ty, op) ==
  HeaderOps(s) + Len(op[s]) - NumOf(op[s], READ)
  + (IF ty[s] = REDUNDANT_STREAM_TX THEN 1 ELSE 0)

\* stream_num_prefetch_ops()
NumPrefetchOps(s, op) ==
  IF NumOf(op[s], INSERT) = 0 THEN 1 ELSE NumOf(op[s], INSERT) + NUM_PREFETCH_LOCK_COMMANDS

OnlyForwards(s, ty, op) == NumGatherOps(s, ty, op) = 1 /\ NumOf(op[s], FORWARD_ALL) = 1

\* Rows of its own in the gather and the prefetch table: none if the stream
\* sends nothing or forwards frames as they are.
GatherRows(s, ty, op) ==
  IF NumGatherOps(s, ty, op) = 0 \/ OnlyForwards(s, ty, op) THEN 0
  ELSE IF NumGatherOps(s, ty, op) >= NumPrefetchOps(s, op) THEN NumGatherOps(s, ty, op)
  ELSE NumPrefetchOps(s, op)

\* stream_num_scatter_ops() of the streams that receive.
ScatterRows(s, ty, op) == IF ty[s] \in LookupTypes THEN NumOf(op[s], READ) ELSE 0

\* The sum of rows over the first streams of a list.
RowsUpTo(seq, rows) ==
  LET sum[k \in 0 .. Len(seq)] == IF k = 0 THEN 0 ELSE sum[k - 1] + rows[seq[k]]
  IN  sum

\* The sum over the streams before position i.
RowsBefore(seq, i, rows) == RowsUpTo(seq, rows)[i - 1]

\* How many streams before position i are in set; they have one row each.
NumBefore(seq, i, set) == Cardinality({ k \in 1 .. i - 1 : seq[k] \in set })

OfType(ty, types) == { s \in Streams : ty[s] \in types }

-----------------------------------------------------------------------------
(* calculate_..._indizes(): the new indexes of all streams after those of the *)
(* list seq have been recomputed.                                             *)

\* (Deviation: the rows of the prefetch table are not counted.)
CalculateGatherWithoutPrefetch(seq, ty, op) ==
  [s \in Streams |->
     IF s \notin Listed(seq) THEN gather_dma_index[s]
     ELSE IF NumGatherOps(s, ty, op) = 0 THEN GATHER_NOP_IDX
     ELSE IF OnlyForwards(s, ty, op) THEN GATHER_FORWARD_IDX
     ELSE GATHER_START_IDX
          + RowsBefore(seq, PositionOf(seq, s),
                       [x \in Streams |-> IF OnlyForwards(x, ty, op) THEN 0
                                          ELSE NumGatherOps(x, ty, op)])]

CalculateGather(seq, ty, op) ==
  [s \in Streams |->
     IF s \notin Listed(seq) THEN gather_dma_index[s]
     ELSE IF NumGatherOps(s, ty, op) = 0 THEN GATHER_NOP_IDX
     ELSE IF OnlyForwards(s, ty, op) THEN GATHER_FORWARD_IDX
     ELSE GATHER_START_IDX
          + RowsBefore(seq, PositionOf(seq, s), [x \in Streams |-> GatherRows(x, ty, op)])]

CalculateScatter(seq, ty, op) ==
  [s \in Streams |->
     IF s \notin Listed(seq) THEN scatter_dma_index[s]
     ELSE IF ScatterRows(s, ty, op) = 0 THEN SCATTER_NOP_IDX
     ELSE SCATTER_START_IDX
          + RowsBefore(seq, PositionOf(seq, s), [x \in Streams |-> ScatterRows(x, ty, op)])]

CalculateLookup(seq, ty) ==
  [s \in Streams |->
     IF s \notin Listed(seq) THEN lookup_index[s]
     ELSE IF ty[s] \notin LookupTypes THEN 0
     ELSE LOOKUP_START_IDX + NumBefore(seq, PositionOf(seq, s), OfType(ty, LookupTypes))]

\* (Deviation: only the streams of the list get their index.)
CalculateRedundancyOfList(seq, ty, partner) ==
  [s \in Streams |->
     IF s \notin Listed(seq) THEN redundand_index[s]
     ELSE IF ty[s] \notin RedundantTypes THEN 0
     ELSE REDUNDANCY_START_IDX + NumBefore(seq, PositionOf(seq, s), OfType(ty, RedundantTypes))]

\* The other half of a pair gets the same index.
CalculateRedundancy(seq, ty, partner) ==
  LET index(s) == REDUNDANCY_START_IDX + NumBefore(seq, PositionOf(seq, s), OfType(ty, RedundantTypes))
  IN  [s \in Streams |->
         IF s \in Listed(seq)
         THEN IF ty[s] \in RedundantTypes THEN index(s) ELSE 0
         ELSE IF \E x \in Listed(seq) : ty[x] \in RedundantTypes /\ partner[x] = s
         THEN index(partner[s])
         ELSE redundand_index[s]]

-----------------------------------------------------------------------------
TInit ==
  /\ Init
  /\ order = [m \in Modules |-> << >>]
  /\ operations = [s \in Streams |-> NoOperations]
  /\ gather_dma_index = [s \in Streams |-> 0]
  /\ scatter_dma_index = [s \in Streams |-> 0]
  /\ lookup_index = [s \in Streams |-> 0]
  /\ redundand_index = [s \in Streams |-> 0]
  /\ unrefreshed = {}

NumOperations == MapThenSumSet(LAMBDA s : Len(operations[s]), Streams)

-----------------------------------------------------------------------------
(* acm_add_stream_operation_...() and acm_clean_operations() *)

\* stream_add_operation(): which operation a type of stream takes.  An ingress
\* triggered stream forwards frames itself or has an event stream for it.
OperationAllowed(s, o) ==
  \/ type[s] = INGRESS_TRIGGERED_STREAM /\ o = FORWARD_ALL
     /\ reference[s] = Null /\ NumOf(operations[s], FORWARD_ALL) = 0
  \/ type[s] \in LookupTypes /\ o = READ
  \/ type[s] \notin LookupTypes /\ o \in { INSERT, INSERT_CONSTANT }

\* Only the table the operation is for gets new indexes: a read operation has a
\* row in the scatter table, the others in the gather table.
RefreshAfterAdd(s, o, op) ==
  IF entry[s] = Null THEN UNCHANGED <<gather_dma_index, scatter_dma_index, unrefreshed>>
  ELSE IF o = READ
  THEN /\ scatter_dma_index' = CalculateScatter(order[entry[s]], type, op)
       /\ UNCHANGED <<gather_dma_index, unrefreshed>>
  ELSE /\ gather_dma_index' = CalculateGather(order[entry[s]], type, op)
       /\ unrefreshed' = unrefreshed \ { entry[s] }
       /\ UNCHANGED scatter_dma_index

AddOperation(s, o) ==
  /\ s \in live /\ ~ConfigFreed(s) /\ ~Applied(s)
  /\ OperationAllowed(s, o)
  /\ type[s] \in RedundantTypes =>
       ~Freed(reference_redundant[s]) /\ PairPlacement(s, reference_redundant[s])
  /\ NumOperations < MaxOperations
  /\ LET op == [operations EXCEPT ![s] = Append(@, o)]
     IN  operations' = op /\ RefreshAfterAdd(s, o, op)
  /\ UNCHANGED <<vars, order, lookup_index, redundand_index>>

RefreshAfterClean(s, op) ==
  IF entry[s] = Null THEN UNCHANGED <<gather_dma_index, scatter_dma_index, unrefreshed>>
  ELSE /\ gather_dma_index' = CalculateGather(order[entry[s]], type, op)
       /\ scatter_dma_index' = CalculateScatter(order[entry[s]], type, op)
       /\ unrefreshed' = unrefreshed \ { entry[s] }

\* The operations the application added are removed.  An ingress triggered
\* stream that was turned into a time triggered one keeps its first three
\* operations as if they were a header; it has no more of them here.
CleanOperations(s) ==
  /\ s \in live /\ ~ConfigFreed(s) /\ ~Applied(s)
  /\ LET op == IF HeaderOps(s) = 0 /\ type[s] \notin LookupTypes THEN operations
               ELSE [operations EXCEPT ![s] = NoOperations]
     IN  operations' = op /\ RefreshAfterClean(s, op)
  /\ UNCHANGED <<vars, order, lookup_index, redundand_index>>

-----------------------------------------------------------------------------
(* The calls of AcmStreams with what they do to the lists and the indexes *)

\* stream_set_reference() refuses streams that forward frames themselves.
NoForward(s) == NumOf(operations[s], FORWARD_ALL) = 0

TSetChild(s, r) ==
  /\ SetChild(s, r) /\ NoForward(s)
  /\ LET m == entry[s]
     IN  IF m = Null THEN UNCHANGED <<order, gather_dma_index, unrefreshed>>
         ELSE /\ order' = [order EXCEPT ![m] = Append(@, r)]
              /\ gather_dma_index' = CalculateGather(Append(order[m], r), type, operations)
              /\ unrefreshed' = unrefreshed \ {m}
  /\ UNCHANGED <<operations, scatter_dma_index, lookup_index, redundand_index>>

\* The rows of s are computed with its redundancy tag, those of r are not.
TSetRedundant(s, r) ==
  /\ SetRedundant(s, r)
  /\ type[s] = INGRESS_TRIGGERED_STREAM => NoForward(s) /\ NoForward(r)
  /\ LET m == entry[s]
     IN  /\ redundand_index' = IF m = Null THEN redundand_index
                               ELSE CalculateRedundancy(order[m], type', reference_redundant')
         /\ IF type[s] = TIME_TRIGGERED_STREAM
            THEN /\ gather_dma_index' = IF m = Null THEN gather_dma_index
                                        ELSE CalculateGather(order[m], type', operations)
                 /\ unrefreshed' = (unrefreshed \ {m}) \cup ({ entry[r] } \ {Null})
            ELSE UNCHANGED <<gather_dma_index, unrefreshed>>
  /\ UNCHANGED <<order, operations, scatter_dma_index, lookup_index>>

\* Freed streams lose their operations and indexes.
ResetFreed ==
  LET gone == live \ live'
      clear(f, value) == [s \in Streams |-> IF s \in gone THEN value ELSE f[s]]
  IN  /\ operations' = clear(operations, NoOperations)
      /\ gather_dma_index' = clear(gather_dma_index, 0)
      /\ scatter_dma_index' = clear(scatter_dma_index, 0)
      /\ lookup_index' = clear(lookup_index, 0)
      /\ redundand_index' = clear(redundand_index, 0)
      /\ order' = [m \in Modules |-> IF m \in gone THEN << >> ELSE order[m]]
      /\ unrefreshed' = unrefreshed \ gone

TDestroyStream(s) == DestroyStream(s) /\ ResetFreed
TDestroyModule(m) == DestroyModule(m) /\ ResetFreed
TDestroyConfig(c) == DestroyConfig(c) /\ ResetFreed

\* (Deviation: a failing call does not take the streams out again.)
AddedSequenceKept(s, added) ==
  SelectSeq(<<s, FirstChild(s), SecondChild(s)>>, LAMBDA x : x # Null)

\* The streams a call of acm_add_module_stream() adds, in order.
AddedSequence(s, added) ==
  LET ifAdded(x) == IF x \in added THEN <<x>> ELSE << >>
  IN  <<s>> \o ifAdded(FirstChild(s)) \o ifAdded(SecondChild(s))

TAddModuleStream(m, s, added) ==
  /\ AddModuleStream(m, s, added)
  /\ LET seq == order[m] \o AddedSequence(s, added)
     IN  /\ order' = [order EXCEPT ![m] = seq]
         /\ gather_dma_index' = CalculateGather(seq, type, operations)
         /\ IF type[s] = INGRESS_TRIGGERED_STREAM
            THEN /\ scatter_dma_index' = CalculateScatter(seq, type, operations)
                 /\ lookup_index' = CalculateLookup(seq, type)
                 /\ UNCHANGED redundand_index
            ELSE /\ redundand_index' = CalculateRedundancy(seq, type, reference_redundant)
                 /\ UNCHANGED <<scatter_dma_index, lookup_index>>
  /\ unrefreshed' = unrefreshed \ {m}
  /\ UNCHANGED operations

-----------------------------------------------------------------------------
TAddStream(m, s) == \E added \in AddedPrefixes(s) : TAddModuleStream(m, s, added)

\* What does not concern lists and indexes.
OtherCalls ==
  \/ \E c \in Configs, m \in Modules : AddModule(c, m)
  \/ \E c \in Configs : Enable(c) \/ EnableFails(c)
  \/ UseAfterFree

TNext ==
  /\ ~use_after_free
  /\ \/ \E s, r \in Streams : TSetChild(s, r) \/ TSetRedundant(s, r)
     \/ \E s \in Streams : TDestroyStream(s) \/ CleanOperations(s)
     \/ \E s \in Streams, o \in OpCodes : AddOperation(s, o)
     \/ \E m \in Modules, s \in Streams : TAddStream(m, s)
     \/ \E m \in Modules : TDestroyModule(m)
     \/ \E c \in Configs : TDestroyConfig(c)
     \/ OtherCalls /\ UNCHANGED tableVars

TSpec == TInit /\ [][TNext]_tvars

-----------------------------------------------------------------------------
(* Properties *)

\* The order of a list and the back pointers of the streams agree; no stream is
\* twice in a list.
ListsMatchEntries ==
  \A m \in Modules :
    /\ Listed(order[m]) = StreamsOf(m)
    /\ Len(order[m]) = Cardinality(StreamsOf(m))

\* The rows of the gather and prefetch tables that are written for a stream.
GatherRowsOf(s) ==
  gather_dma_index[s] .. gather_dma_index[s] + GatherRows(s, type, operations) - 1

\* Every stream of m that needs rows points to rows that no other stream of m
\* and no general command uses; a stream that receives and needs none points to
\* the NOP or the forward command.  (A stream that sends needs rows for its
\* header, or the final validation of the frame size fails.)
GatherRowsOwned(m) ==
  \A s \in StreamsOf(m) :
    IF GatherRows(s, type, operations) # 0
    THEN /\ gather_dma_index[s] >= GATHER_START_IDX
         /\ \A t \in StreamsOf(m) \ {s} : GatherRowsOf(s) \cap GatherRowsOf(t) = {}
    ELSE type[s] \in LookupTypes =>
           gather_dma_index[s] = IF NumGatherOps(s, type, operations) = 0
                                 THEN GATHER_NOP_IDX ELSE GATHER_FORWARD_IDX

\* The rows of the scatter table that are written for a stream.
ScatterRowsOf(s) ==
  scatter_dma_index[s] .. scatter_dma_index[s] + ScatterRows(s, type, operations) - 1

\* The same for the scatter table, and every rule of the lookup table is that of
\* one stream.
ScatterAndLookupOwned(m) ==
  \A s \in StreamsOf(m) :
    /\ ScatterRows(s, type, operations) # 0 => scatter_dma_index[s] >= SCATTER_START_IDX
    /\ type[s] \in LookupTypes =>
         /\ ScatterRows(s, type, operations) = 0 => scatter_dma_index[s] = SCATTER_NOP_IDX
         /\ lookup_index[s] \in LOOKUP_START_IDX .. MaxLookup - 1
    /\ \A t \in StreamsOf(m) \ {s} :
         /\ ScatterRowsOf(s) \cap ScatterRowsOf(t) = {}
         /\ type[s] \in LookupTypes /\ type[t] \in LookupTypes => lookup_index[s] # lookup_index[t]

\* Each call computes the indexes of some tables again, for the list it changed,
\* and keeps the others: after any sequence of calls the rows of the streams of a
\* module are still apart, unless the module has a stream that was made half of a
\* pair from the other side (the disagreement below).
RowsOwned ==
  \A m \in Modules :
    /\ m \notin unrefreshed => GatherRowsOwned(m)
    /\ ScatterAndLookupOwned(m)

\* "for these streams the additional R-Tag command in gather table must be
\* considered": what is written when a configuration is applied gives every
\* stream its own rows.
AppliedRowsDisjoint ==
  \A c \in Configs : config_applied[c] => \A m \in ModulesOf(c) : GatherRowsOwned(m)

\* When all pairs of a configuration are complete, the two halves of a pair have
\* the same entry of the redundancy table, different pairs have different ones
\* and none has the entry of the streams without redundancy: the module that
\* computed the indexes last has to have chosen them for both.
RedundancyIndexesAgree ==
  \A c \in Configs \cap live :
    (\A m \in ModulesOf(c) : ~PairFreed(m)) /\ PairsComplete(c) =>
      \A m \in ModulesOf(c) : \A s \in StreamsOf(m) :
        type[s] \in RedundantTypes =>
          /\ redundand_index[s] = redundand_index[reference_redundant[s]]
          /\ redundand_index[s] >= REDUNDANCY_START_IDX
          /\ \A t \in StreamsOf(m) \ {s} :
               type[t] \in RedundantTypes => redundand_index[s] # redundand_index[t]
=============================================================================
