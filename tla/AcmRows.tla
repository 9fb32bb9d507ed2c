-------------------------------- MODULE AcmRows --------------------------------
(***************************************************************************)
(* The words libacmconfig writes into the tables of a bypass module when a *)
(* configuration is applied (ngn.acm-config/src/sysfs.c), from the indexes *)
(* of AcmTables and with the layouts of AcmWords, through the attributes   *)
(* of the driver (AcmRegisters), and what the hardware does with them.     *)
(*                                                                         *)
(* What is written is a function of the state in which the configuration is *)
(* applied.  The tables are cleared before; a row written twice has the    *)
(* last word.                                                              *)
(***************************************************************************)
EXTENDS AcmTables, AcmWords, AcmRegisters, SequencesExt

CONSTANTS
  OperationArgs,  \* what the application passes to the i-th operation of a stream
                  \* of each code: [buffer, offset, length], 0 if there is none
  Forwarded,      \* the header fields each event stream takes from the frame
  Filter,         \* the length of the additional filter of each receiving stream
  Serial,         \* the modules in connection mode CONN_MODE_SERIAL
  Fast            \* the modules of speed SPEED_1GBps

FORWARD == "FORWARD"

ASSUME OperationArgsAssumption ==
  \A o \in OpCodes, i \in 1 .. MaxOperations :
    OperationArgs[o][i] \in [buffer : 0 .. 31, offset : 0 .. 1528, length : 0 .. 1528]
ASSUME ModulesAssumption == Serial \subseteq Modules /\ Fast \subseteq Modules
ASSUME FilterAssumption == \A s \in Streams : Filter[s] \in 0 .. 112

-----------------------------------------------------------------------------
(* Operations of a stream with their arguments *)

\* stream_set_egress_header(): destination, source and VLAN tag of a frame.
HEADER_FIELDS ==
  << [offset |-> 0, length |-> 6], [offset |-> 6, length |-> 6], [offset |-> 12, length |-> 4] >>

Header(s) ==
  [i \in 1 .. HeaderOps(s) |->
     IF Kind[s] = EVENT_STREAM /\ i \in Forwarded[s]
     THEN [opcode |-> FORWARD, buffer |-> 0, offset |-> HEADER_FIELDS[i].offset,
           length |-> HEADER_FIELDS[i].length]
     ELSE [opcode |-> INSERT_CONSTANT, buffer |-> 0, offset |-> 0,
           length |-> HEADER_FIELDS[i].length]]

OperationsOf(s) ==
  Header(s) \o
  [i \in DOMAIN operations[s] |->
     LET o == operations[s][i]
     IN  [opcode |-> o, buffer |-> OperationArgs[o][i].buffer, offset |-> OperationArgs[o][i].offset,
          length |-> OperationArgs[o][i].length]]

OfCode(s, o) == { i \in DOMAIN OperationsOf(s) : OperationsOf(s)[i].opcode = o }

\* sysfs_write_data_constant_buffer(): where the constant of operation i of s is.
ConstBuffOffset(m, s, i) ==
  LET bytes(x, ops) == MapThenSumSet(LAMBDA k : OperationsOf(x)[k].length, OfCode(x, INSERT_CONSTANT) \cap ops)
  IN  RowsBefore(order[m], PositionOf(order[m], s), [x \in Streams |-> bytes(x, DOMAIN OperationsOf(x))])
      + bytes(s, 1 .. i - 1)

-----------------------------------------------------------------------------
(* A configuration is applied by a sequence of writes of words to registers *)

Register(at, word) == << [at |-> at, word |-> word] >>

\* A row of the table behind attribute a of module m, a control register of m
\* and an entry of the redundancy control table of m.
Row(a, m, row, word) == Register(RegisterAt(a, LibOffset(a, ModuleId[m], row)), word)
Control(a, m, word) == Register(ControlItem(a, ModuleId[m]), word)
RedundancyRow(m, row, word) ==
  Register(RedundancyRegisterAt(LibRedundancyOffset(ModuleId[m], row)), word)

\* The registers after a sequence of writes, and what one of them holds; all were
\* cleared before.
After(writes) ==
  [at \in { writes[i].at : i \in DOMAIN writes } |->
     writes[Max({ i \in DOMAIN writes : writes[i].at = at })].word]
Held(memory, at) == IF at \in DOMAIN memory THEN memory[at] ELSE {}

\* The writes for the streams of m in the order of its list.
ForStreams(m, writes) == FlattenSeq([i \in DOMAIN order[m] |-> writes[order[m][i]]])

Receives(s) == type[s] \in LookupTypes

-----------------------------------------------------------------------------
(* sysfs_write_lookup_tables() *)

\* An ingress triggered stream with an event stream sends what that one gathers.
TriggerOf(s) ==
  StreamTriggerCreate(TRUE, FALSE, gather_dma_index[IF reference[s] # Null THEN reference[s] ELSE s],
                      scatter_dma_index[s], redundand_index[s])

\* What matches no rule is forwarded in serial mode and dropped in parallel mode.
TriggerOfOthers(m) ==
  IF m \in Serial THEN StreamTriggerCreate(TRUE, FALSE, GATHER_FORWARD_IDX, SCATTER_NOP_IDX, 0)
  ELSE StreamTriggerCreate(TRUE, TRUE, GATHER_NOP_IDX, SCATTER_NOP_IDX, 0)

StreamTrigger(m) ==
  ForStreams(m, [s \in StreamsOf(m) |-> IF Receives(s) THEN Row("stream_trigger", m, lookup_index[s], TriggerOf(s)) ELSE << >>])
  \o Row("stream_trigger", m, NR_RULES, TriggerOfOthers(m))

\* The rule of a stream: what it matches is the stream's own, the filter is padded.
Rule(m, s) ==
  FlattenSeq([i \in 1 .. 4 |->
    Row(<<"layer7_mask", "layer7_pattern", "lookup_mask", "lookup_pattern">>[i], m, lookup_index[s], {s})])

LookupTables(m) == ForStreams(m, [s \in StreamsOf(m) |-> IF Receives(s) THEN Rule(m, s) ELSE << >>])

\* sysfs_write_lookup_control_block()
LookupEnable(m) == RuleMaskCreate({ lookup_index[s] : s \in { x \in StreamsOf(m) : Receives(x) } })

IngressControl(m) ==
  RuleMaskCreate({ lookup_index[s] : s \in { x \in StreamsOf(m) :
    /\ Receives(x)
    /\ \/ OfCode(x, READ) # {}
       \/ reference[x] # Null /\ OfCode(reference[x], INSERT) # {} } })

LayerSevenEnable(m) ==
  RuleMaskCreate({ lookup_index[s] : s \in { x \in StreamsOf(m) : Receives(x) /\ Filter[x] > 0 } })

\* One length for all rules of the module.
LayerSevenLength(m) ==
  LayerSevenLengthCreate(Max({0} \cup { Filter[s] : s \in { x \in StreamsOf(m) : Receives(x) } }))

LookupControl(m) ==
  Control("cntl_ingress_policing_control", m, IngressControl(m))
  \o Control("cntl_ingress_policing_enable", m, LookupEnable(m))
  \o Control("cntl_layer7_enable", m, LayerSevenEnable(m))
  \o Control("cntl_layer7_length", m, LayerSevenLength(m))
  \o Control("cntl_lookup_enable", m, LookupEnable(m))

-----------------------------------------------------------------------------
(* sysfs_write_scatter_dma() *)

\* A stream's reads are in rows of their own, the last one is marked.
ReadRows(m, s) ==
  LET reads == SelectSeq(OperationsOf(s), LAMBDA x : x.opcode = READ)
  IN  FlattenSeq([i \in DOMAIN reads |->
        Row("scatter_dma", m, scatter_dma_index[s] + i - 1,
            ScatterMoveCreate(i = Len(reads), FALSE, reads[i].offset, reads[i].length, reads[i].buffer))])

ScatterDma(m) ==
  Row("scatter_dma", m, SCATTER_NOP_IDX, ScatterMoveCreate(TRUE, FALSE, 0, 0, 0))
  \o ForStreams(m, [s \in StreamsOf(m) |-> IF Receives(s) THEN ReadRows(m, s) ELSE << >>])

-----------------------------------------------------------------------------
(* write_gather_ingress(), write_gather_egress() *)

HasRTag(s) == type[s] = REDUNDANT_STREAM_TX

\* The row of operation i in the gather table: the tag follows the header.
GatherRow(s, i) == gather_dma_index[s] + i - 1 + (IF HasRTag(s) /\ i > NUM_AUTOGEN_OPS THEN 1 ELSE 0)

\* The tag cannot be the last command.
LastGather(s, i) == i = Len(OperationsOf(s)) /\ ~(HasRTag(s) /\ i = NUM_AUTOGEN_OPS)

GatherWord(m, s, i) ==
  LET op == OperationsOf(s)[i]
  IN  CASE op.opcode = INSERT_CONSTANT ->
             GatherMoveConstantCreate(LastGather(s, i), op.length, ConstBuffOffset(m, s, i))
        [] op.opcode = FORWARD -> GatherMoveFrameCreate(LastGather(s, i), op.length, op.offset)
        [] op.opcode = INSERT -> GatherMovePrefCreate(LastGather(s, i))

\* The writes end at an operation that sends nothing.
EgressOps(s) == { i \in DOMAIN OperationsOf(s) : OfCode(s, READ) \cap 1 .. i = {} }

GatherOfEgress(m, s) ==
  FlattenSeq([i \in 1 .. Cardinality(EgressOps(s)) |->
    Row("gather_dma", m, GatherRow(s, i), GatherWord(m, s, i))
    \o IF HasRTag(s) /\ i = NUM_AUTOGEN_OPS
       THEN Row("gather_dma", m, GatherRow(s, i) + 1, GatherRTagCreate) ELSE << >>])

GatherDma(m) ==
  Row("gather_dma", m, GATHER_NOP_IDX, GatherMoveFrameCreate(TRUE, 0, 0))
  \o Row("gather_dma", m, GATHER_FORWARD_IDX, GatherForwardCreate)
  \o ForStreams(m, [s \in StreamsOf(m) |->
       CASE type[s] = INGRESS_TRIGGERED_STREAM ->
              IF NoForward(s) THEN << >>
              ELSE Row("gather_dma", m, gather_dma_index[s], GatherForwardCreate)
         [] type[s] = REDUNDANT_STREAM_RX -> << >>
         [] OTHER -> GatherOfEgress(m, s)])

\* The message buffers a stream inserts from, as an array of bits.
LockVector(s) ==
  FoldSet(BitarraySet, BitarrayZero, { OperationsOf(s)[i].buffer : i \in OfCode(s, INSERT) })

LockMask == [i \in 0 .. NUM_PREFETCH_LOCK_COMMANDS - 1 |-> BitmaskGenmask((i + 1) * 16 - 1, i * 16)]
LockGroups(s) ==
  LET vector == LockVector(s) IN [i \in DOMAIN LockMask |-> BitmaskFieldGet(LockMask[i], vector)]

\* They are locked in groups of 16; both halves of a pair take the same data.
LockCommands(s) ==
  LET groups == LockGroups(s)
      needed == SelectSeq([k \in 1 .. NUM_PREFETCH_LOCK_COMMANDS |-> k - 1], LAMBDA i : groups[i] # {})
  IN  [k \in DOMAIN needed |-> PrefetchLockCreate(needed[k], HasRTag(s), groups[needed[k]])]

MoveCommands(s) ==
  LET inserts == SelectSeq(OperationsOf(s), LAMBDA x : x.opcode = INSERT)
  IN  [i \in DOMAIN inserts |->
         PrefetchMoveCreate(i = Len(inserts), FALSE, inserts[i].length, inserts[i].buffer)]

PrefetchOfEgress(m, s) ==
  LET words == IF BitarrayCount(LockVector(s)) = 0 THEN << PrefetchNopCreate >>
               ELSE LockCommands(s) \o MoveCommands(s)
  IN  FlattenSeq([i \in DOMAIN words |-> Row("prefetch_dma", m, gather_dma_index[s] + i - 1, words[i])])

PrefetchDma(m) ==
  Row("prefetch_dma", m, GATHER_NOP_IDX, PrefetchNopCreate)
  \o Row("prefetch_dma", m, GATHER_FORWARD_IDX, PrefetchNopCreate)
  \o ForStreams(m, [s \in StreamsOf(m) |-> IF Receives(s) THEN << >> ELSE PrefetchOfEgress(m, s)])

-----------------------------------------------------------------------------
(* sysfs_write_redund_ctrl_table() *)

RedundancyEntryOf(s) ==
  IF HasRTag(s)
  THEN RedundancyEntryCreate(SRC_INTSEQNUM, UPD_FIN_BOTH, FALSE, redundand_index[s])
  ELSE RedundancyEntryCreate(SRC_RXSEQNUM, UPD_MAXNUM, TRUE, redundand_index[s])

RedundancyControl(m) ==
  RedundancyRow(m, 0, RedundancyEntryCreate(SRC_INTSEQNUM, UPD_NOP, FALSE, 0))
  \o ForStreams(m, [s \in StreamsOf(m) |->
       IF type[s] \in RedundantTypes THEN RedundancyRow(m, redundand_index[s], RedundancyEntryOf(s))
       ELSE << >>])

-----------------------------------------------------------------------------
(* The commands of the schedule: module_add_schedules() makes them of an entry, *)
(* update_fsc_indexes() puts the indexes of the streams into them when they are *)
(* written.                                                                     *)

Command(trigger, win_close, win_open) ==
  [trigger |-> trigger, win_close |-> win_close, win_open |-> win_open]

RecoveryOf(s) == IF reference[s] = Null THEN Null ELSE reference[reference[s]]

\* A window of a stream with a recovery stream triggers it at its end, unless the
\* recovery stream was linked after the window was added.
CommandsOf(s) ==
  IF Receives(s)
  THEN { Command(TRIG_MODE_NO_TRIG, FALSE, TRUE), Command(TRIG_MODE_NO_TRIG, TRUE, FALSE) }
       \cup { Command(TRIG_MODE_FIRST_STAGE, TRUE, FALSE) : x \in { RecoveryOf(s) } \ {Null} }
  ELSE { Command(TRIG_MODE_STAND_ALONE, FALSE, FALSE) }

GroupOfNoTag(s) == 0  \* (Deviation: the entry of the pair is not put into the command.)
GroupOf(s) == IF type[s] = REDUNDANT_STREAM_TX THEN redundand_index[s] ELSE 0

\* (Deviation: what the event stream gathers is sent.)
FirstStageOfEvent(s) == gather_dma_index[reference[s]]
FirstStage(s) == gather_dma_index[RecoveryOf(s)]

\* (The errors of a missing event or recovery stream cannot happen: a child with a
\* parent is not destroyed.)
UpdatedCommand(s, c) ==
  CASE c.trigger = TRIG_MODE_NO_TRIG ->
         ScheduleCommandCreate(0, lookup_index[s], 0, c.trigger, c.win_close, c.win_open)
    [] c.trigger = TRIG_MODE_STAND_ALONE ->
         ScheduleCommandCreate(gather_dma_index[s], 0, GroupOf(s), c.trigger, c.win_close, c.win_open)
    [] c.trigger = TRIG_MODE_FIRST_STAGE ->
         ScheduleCommandCreate(FirstStage(s), lookup_index[s], 0, c.trigger, c.win_close, c.win_open)

\* Mode, speed and, last, the enable bit of a module.
ModuleControl(m) ==
  Control("cntl_connection_mode", m, Placed(ONE_BIT, Bits(IF m \in Serial THEN CONN_MODE_SERIES ELSE CONN_MODE_PARALLEL)))
  \o Control("cntl_speed", m, Placed(ONE_BIT, Bits(IF m \in Fast THEN SPEED_SELECT_1000 ELSE SPEED_SELECT_100)))
  \o Control("cntl_ngn_enable", m, Placed(ONE_BIT, Bits(1)))

\* What is written for the modules of a configuration (write_module_data_to_HW()).
Memory(c) ==
  After(FlattenSeq([i \in 1 .. MODULES_COUNT |->
    LET m == bypass[c][i - 1]
    IN  IF m = Null THEN << >>
        ELSE LookupTables(m) \o LookupControl(m) \o StreamTrigger(m) \o ScatterDma(m) \o GatherDma(m)
             \o PrefetchDma(m) \o RedundancyControl(m) \o ModuleControl(m)]))

-----------------------------------------------------------------------------
(* The hardware: a module executes a chain of commands from the first row to   *)
(* one that ends the chain.  (A chain that no row ends has no meaning: << >>.) *)

TableRow(m, table, row) == [part |-> ModuleId[m], at |-> table + WORD * row]

STREAM_TRIGGER_TABLE == 8192
SCATTER_TABLE == 12288
GATHER_TABLE == 20480
PREFETCH_TABLE == 22528

RuleAt(m, a, rule) ==
  [part |-> ModuleId[m], at |-> BYPASS_ATTR[a].offset + rule * BYPASS_ATTR[a].delta]

RedundancyEntryAt(memory, m, index) ==
  Read(REDUN_CTLTAB, Held(memory, [part |-> REDUNDANCY_PART,
                                   at |-> REDUN_CTRLTAB(ModuleId[m]) + WORD * index]))

\* The commands of a table, and those that end a chain.
Layout(table) ==
  CASE table = SCATTER_TABLE -> DMA_CMD_S
    [] table = GATHER_TABLE -> DMA_CMD_G
    [] table = PREFETCH_TABLE -> DMA_CMD_P_MOV

Ends(table, c) ==
  \/ table = SCATTER_TABLE /\ c.last = 1
  \/ table = GATHER_TABLE /\ (c.last = 1 \/ c.command = G_FORWARD)
  \/ table = PREFETCH_TABLE /\ (c.command = P_NOP \/ (c.command = P_MOV_MSG_BUFF /\ c.last = 1))

Chain(memory, m, table, first) ==
  LET at(row) == Read(Layout(table), Held(memory, TableRow(m, table, row)))
      last(row) == Ends(table, at(row)) /\ \A before \in first .. row - 1 : ~Ends(table, at(before))
  IN  IF \E row \in first .. DMA_CMD_COUNT - 1 : last(row)
      THEN [i \in 1 .. (CHOOSE row \in first .. DMA_CMD_COUNT - 1 : last(row)) - first + 1 |-> at(first + i - 1)]
      ELSE << >>

PrefetchMoves(memory, m, first) ==
  SelectSeq(Chain(memory, m, PREFETCH_TABLE, first), LAMBDA c : c.command = P_MOV_MSG_BUFF)

\* The buffers a prefetch chain locks.
PrefetchLocks(memory, m, first) ==
  LET rows == 1 .. Len(Chain(memory, m, PREFETCH_TABLE, first))
      command(i) == Read(DMA_CMD_P_LOCK, Held(memory, TableRow(m, PREFETCH_TABLE, first + i - 1)))
  IN  UNION { { 16 * command(i).mb_group + b : b \in Bits(command(i).lock_vector) } :
                i \in { k \in rows : command(k).command = P_LOCK_MSG_BUFF } }

\* Whose constant the bytes of the constant buffer are.
ConstantAt(m, offset, length) ==
  { <<s, i>> \in StreamsOf(m) \X (1 .. NUM_AUTOGEN_OPS + MaxOperations) :
      /\ i \in OfCode(s, INSERT_CONSTANT)
      /\ ConstBuffOffset(m, s, i) = offset /\ OperationsOf(s)[i].length = length }

\* The parts of the frame a gather chain sends; the moves of the prefetch chain
\* fill the commands that take prefetched data, in order.
Sent(memory, m, first) ==
  LET chain == Chain(memory, m, GATHER_TABLE, first)
      moves == PrefetchMoves(memory, m, first)
      nth(i) == Cardinality({ j \in 1 .. i : chain[j].command = G_MOVE_PREF })
      part(i) ==
        LET c == chain[i]
        IN  CASE c.command = G_MOVE_CNST_BUFF -> << "constant", ConstantAt(m, c.offset, c.length) >>
              [] c.command = G_MOVE_FR_BUFF -> << "frame", c.offset, c.length >>
              [] c.command = G_MOVE_PREF /\ nth(i) <= Len(moves) ->
                   << "buffer", moves[nth(i)].msgbuf_id, moves[nth(i)].length >>
              [] c.command = G_R_TAG -> << "tag" >>
              [] c.command = G_FORWARD -> << "all" >>
              [] OTHER -> << "nothing" >>
  IN  [i \in DOMAIN chain |-> part(i)]

-----------------------------------------------------------------------------
(* Properties *)

\* What the operations of s ask to be sent.
Ordered(s) ==
  FlattenSeq([i \in DOMAIN OperationsOf(s) |->
    LET op == OperationsOf(s)[i]
    IN  << CASE op.opcode = INSERT_CONSTANT -> << "constant", { <<s, i>> } >>
             [] op.opcode = FORWARD -> << "frame", op.offset, op.length >>
             [] op.opcode = INSERT -> << "buffer", op.buffer, op.length >> >>
        \o IF HasRTag(s) /\ i = NUM_AUTOGEN_OPS THEN << << "tag" >> >> ELSE << >>])

\* A header alone is shorter than a frame, and a receiving stream that lost its
\* other half has neither a header nor operations of a sender: the driver is
\* not given such streams, as their frame size is refused.
Sendable(s) ==
  ~Receives(s) /\ HeaderOps(s) > 0 /\ operations[s] # NoOperations /\ OfCode(s, READ) = {}

SendsAsOrdered(memory, m, s, first) ==
  /\ Sent(memory, m, first) = Ordered(s)
  /\ PrefetchLocks(memory, m, first) = { OperationsOf(s)[i].buffer : i \in OfCode(s, INSERT) }

\* What the stream s that receives hands to message buffers.
ReceivesAsOrdered(memory, m, s, first) ==
  LET chain == Chain(memory, m, SCATTER_TABLE, first)
      reads == SelectSeq(OperationsOf(s), LAMBDA x : x.opcode = READ)
      moved == SelectSeq(chain, LAMBDA c : c.length > 0)
  IN  /\ chain # << >>
      /\ Len(moved) = Len(reads)
      /\ \A i \in DOMAIN reads :
           << moved[i].frm_buff_offs, moved[i].length, moved[i].rx_msgbuf_id >>
             = << reads[i].offset, reads[i].length, reads[i].buffer >>

\* What an ingress triggered stream with the event stream r sends.  (A call that
\* failed in the middle leaves s in the module without r.)
TriggeredAsOrdered(memory, m, s, first) ==
  LET r == reference[s]
  IN  IF r # Null THEN entry[r] = m /\ Sendable(r) => SendsAsOrdered(memory, m, r, first)
      ELSE Sent(memory, m, first) = IF NoForward(s) THEN << << "frame", 0, 0 >> >> ELSE << << "all" >> >>

\* What matches no rule passes the modules one after the other in serial mode and
\* ends at the module in parallel mode.
OthersPerform(memory, m) ==
  LET t == Read(STREAM_TRIG, Held(memory, TableRow(m, STREAM_TRIGGER_TABLE, NR_RULES)))
      serial == Held(memory, ControlItem("cntl_connection_mode", ModuleId[m])) = Bits(CONN_MODE_SERIES)
  IN  /\ t.force_drop = Flag(~serial)
      /\ serial => Sent(memory, m, t.gdma_chain_ptr) = << << "all" >> >>

\* The rule of s has its header and its filter.  A frame that matches it does what
\* the operations of s and of its event stream say, and duplicates are eliminated
\* for halves of pairs only.
RulePerforms(memory, m, s) ==
  LET rule == lookup_index[s]
      control_word(a) == Held(memory, ControlItem(a, ModuleId[m]))
      t == Read(STREAM_TRIG, Held(memory, TableRow(m, STREAM_TRIGGER_TABLE, rule)))
      control == RedundancyEntryAt(memory, m, t.red_grp_id)
      enabled(a) == rule \in Taken(RULE_MASK, control_word(a))
  IN  /\ \A a \in {"lookup_mask", "lookup_pattern", "layer7_mask", "layer7_pattern"} :
           Held(memory, RuleAt(m, a, rule)) = {s}
      /\ enabled("cntl_lookup_enable")
      /\ enabled("cntl_layer7_enable") <=> Filter[s] > 0
      /\ Number(Taken(L7_CHECK_LENGTH, control_word("cntl_layer7_length"))) >= Filter[s]
      /\ t.valid = 1 /\ t.force_drop = 0
      /\ ReceivesAsOrdered(memory, m, s, t.sdma_chain_ptr)
      /\ TriggeredAsOrdered(memory, m, s, t.gdma_chain_ptr)
      /\ control.update = IF type[s] = REDUNDANT_STREAM_RX THEN UPD_MAXNUM ELSE UPD_NOP
      /\ enabled("cntl_ingress_policing_control") <=>
           OfCode(s, READ) # {} \/ (reference[s] # Null /\ OfCode(reference[s], INSERT) # {})

\* The words of the schedule for s.
ScheduleWords(s) == { Read(SCHED_TBL_CMD, UpdatedCommand(s, c)) : c \in CommandsOf(s) }

\* At the time of an event of s its frame is sent.  The frames of one half of a
\* pair take the numbers of the entry of that pair, others take none.
EventPerforms(memory, m, s) ==
  \A c \in ScheduleWords(s) :
    LET control == RedundancyEntryAt(memory, m, c.redund_group_id)
    IN  /\ c.dma_trigger = TRIG_MODE_STAND_ALONE /\ c.win_open = 0 /\ c.win_close = 0
        /\ SendsAsOrdered(memory, m, s, c.dma_index)
        /\ control.update = IF HasRTag(s) THEN UPD_FIN_BOTH ELSE UPD_NOP
        /\ HasRTag(s) => control.int_seq_idx = redundand_index[s]

\* The windows of s are those of the rule of s, which the policing looks at; the
\* end of a window triggers what the recovery stream sends, if anything.
WindowPerforms(memory, m, s) ==
  \A c \in ScheduleWords(s) :
    LET policed == Taken(RULE_MASK, Held(memory, ControlItem("cntl_ingress_policing_enable", ModuleId[m])))
    IN  /\ c.win_open + c.win_close = 1
        /\ Held(memory, RuleAt(m, "lookup_pattern", c.rule_id)) = {s} /\ c.rule_id \in policed
        /\ RedundancyEntryAt(memory, m, c.redund_group_id).update = UPD_NOP
        /\ c.dma_trigger # TRIG_MODE_NO_TRIG =>
             /\ c.dma_trigger = TRIG_MODE_FIRST_STAGE /\ c.win_close = 1
             /\ entry[RecoveryOf(s)] = m /\ Sendable(RecoveryOf(s)) =>
                  SendsAsOrdered(memory, m, RecoveryOf(s), c.dma_index)

\* The step applies configuration c.  (Its first application; the next one writes
\* the same, or a call in between has unset config_applied.)
Applies(c) == ~config_applied[c] /\ config_applied'[c]

\* The words written when a configuration is applied make the hardware perform
\* exactly the operations of every stream, whatever calls and other streams led
\* there: those of a frame that matches its rule, at the events and windows of its
\* schedule and of its recovery stream.  Excepted are the modules of the
\* disagreement about gather rows.
RowsPerformOperations ==
  [][\A c \in Configs : Applies(c) =>
       \E memory \in { Memory(c) } :
         \A m \in ModulesOf(c) \ unrefreshed :
           /\ OthersPerform(memory, m)
           /\ \A s \in StreamsOf(m) :
                /\ Receives(s) => RulePerforms(memory, m, s) /\ WindowPerforms(memory, m, s)
                /\ type[s] \in { TIME_TRIGGERED_STREAM, REDUNDANT_STREAM_TX } /\ Sendable(s) =>
                     EventPerforms(memory, m, s)
    ]_tvars
=============================================================================
