----------------------------- MODULE AcmBuffers -----------------------------
(***************************************************************************)
(* The message buffers of a configuration (libacmconfig): config.c,        *)
(* create_hw_msg_buf_list(), buffer.c and validate.c, buffername_check().  *)
(* A READ fills a message buffer that the host reads, an INSERT takes the  *)
(* data the host wrote; operations that name the same buffer share it.     *)
(***************************************************************************)
EXTENDS Integers, Sequences, FiniteSets

CONSTANTS
  Names,         \* names of message buffers
  Granularity,   \* msgbuf_datawidth: bytes per unit of offsets and sizes
  MemorySize,    \* msgbuf_memsize: bytes of the memory of all buffers
  BufferCount    \* msgbuf_count

ASSUME GranularityAssumption == Granularity \in Nat \ {0} /\ MemorySize \in Nat /\ BufferCount \in Nat \ {0}

SIZE_TIMESTAMP == 4

\* A configuration is here what its modules have of operations: for each module a
\* sequence of operations, in the order of streams and operations.
Opcodes == {"READ", "INSERT", "FORWARD"}
Operations == [name : Names, opcode : Opcodes, length : Nat]

Direction(op) == IF op.opcode = "READ" THEN "RX" ELSE "TX"

\* get_oplen(): a timestamp is added to what is read.
OpLen(op) == op.length + (IF op.opcode = "READ" THEN SIZE_TIMESTAMP ELSE 0)

\* The units an operation needs.
Units(op) == (OpLen(op) \div Granularity) + (IF OpLen(op) % Granularity > 0 THEN 1 ELSE 0)

NamedAs(buffers, op) == {k \in DOMAIN buffers : buffers[k].name = op.name}

\* (Deviation: the buffers behind one that grows stay where they are.)
OffsetsKept(buffers, k) == buffers

\* update_offset_after_buffer(): changed_offset after each of the buffers.  Every
\* buffer behind buffers[k] starts where the one before it ends.
ChangedOffset(buffers, k) ==
  LET after[j \in 0 .. Len(buffers)] ==
        IF j < k THEN 0
        ELSE IF j = k THEN buffers[k].offset + buffers[k].size
        ELSE after[j - 1] + buffers[j].size
  IN  after

OffsetsAfter(buffers, k) ==
  [j \in DOMAIN buffers |->
     IF j <= k THEN buffers[j] ELSE [buffers[j] EXCEPT !.offset = ChangedOffset(buffers, k)[j - 1]]]

\* A buffer that is shared grows to the largest of its operations.
Grown(list, k, op) ==
  IF Units(op) <= list.buffers[k].size THEN list
  ELSE [list EXCEPT !.buffers = OffsetsAfter([list.buffers EXCEPT ![k].size = Units(op)], k),
                    !.offset = list.offset + (Units(op) - list.buffers[k].size)]

Appended(list, op) ==
  [list EXCEPT !.buffers = Append(list.buffers, [name |-> op.name, dir |-> Direction(op),
                                                 offset |-> list.offset, size |-> Units(op)]),
               !.offset = list.offset + Units(op)]

\* The loop of create_hw_msg_buf_list_module(); the first error ends it.
WithOperation(list, op) ==
  LET same == NamedAs(list.buffers, op)
  IN  IF list.failed \/ op.opcode = "FORWARD" THEN list
      ELSE IF \E k \in same : list.buffers[k].dir # Direction(op) THEN [list EXCEPT !.failed = TRUE]
      ELSE IF same # {} THEN Grown(list, CHOOSE k \in same : TRUE, op)
      ELSE Appended(list, op)

FilledUpTo(list, ops) ==
  LET upto[k \in 0 .. Len(ops)] == IF k = 0 THEN list ELSE WithOperation(upto[k - 1], ops[k])
  IN  upto

Filled(list, ops) == FilledUpTo(list, ops)[Len(ops)]

\* The memory is compared at the end of a module, unless there was an error.
WithModule(list, ops) ==
  LET filled == Filled(list, ops)
  IN  IF list.failed THEN list
      ELSE [filled EXCEPT !.failed = filled.failed \/ (filled.offset + 1) * Granularity >= MemorySize]

\* create_hw_msg_buf_list().  Offsets are words of 16 bits; those of a list that
\* validate_config() accepts, with at most 32 buffers of a frame each, do not wrap.
EmptyList == [buffers |-> <<>>, offset |-> 0, failed |-> FALSE]

ListUpTo(config) ==
  LET upto[m \in 0 .. Len(config)] == IF m = 0 THEN EmptyList ELSE WithModule(upto[m - 1], config[m])
  IN  upto

BufferList(config) == ListUpTo(config)[Len(config)]

\* validate_config() accepts the buffers.
BuffersValid(config) == ~BufferList(config).failed /\ Len(BufferList(config).buffers) <= BufferCount

\* msg_buff_index of the buffer of an operation
IndexOf(buffers, op) == (CHOOSE k \in NamedAs(buffers, op) : TRUE) - 1
=============================================================================
