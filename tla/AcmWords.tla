-------------------------------- MODULE AcmWords --------------------------------
(***************************************************************************)
(* The words of the driver's interface (ngn.ngn-dd/acm/api/acmdrv.h): the  *)
(* layout of every item that libacmconfig writes, the functions that       *)
(* create such items, and the arrays of bits for message buffers.          *)
(*                                                                         *)
(* A word is the set of the positions of its ones.  A field is a pair of   *)
(* its lowest and its highest position; a value that does not fit its      *)
(* field is cut off, as the macros of the header do.                       *)
(***************************************************************************)
EXTENDS Integers, Sequences, FiniteSetsExt

WordSize == 32
Positions == 0 .. WordSize - 1

\* The field f of a word that holds the bits of a value, and back.
Placed(f, bits) == { b + f[1] : b \in bits } \cap (f[1] .. f[2])
Taken(f, word) == { b - f[1] : b \in word \cap (f[1] .. f[2]) }

\* The ones of a value (less than 2^31), and back.
Bits(n) == { b \in 0 .. WordSize - 2 : (n \div 2^b) % 2 = 1 }
Number(bits) == MapThenSumSet(LAMBDA b : 2^b, bits)

\* The word of a layout with given values in some of its fields, 0 in the others.
Create(layout, values) == UNION { Placed(layout[f], Bits(values[f])) : f \in DOMAIN values }
Read(layout, word) == [f \in DOMAIN layout |-> Number(Taken(layout[f], word))]

Flag(b) == IF b THEN 1 ELSE 0

-----------------------------------------------------------------------------
(* Message buffer descriptors *)

BUFF_DESC ==
  [ offset |-> <<0, 15>>, reset |-> <<19, 19>>, type |-> <<20, 20>>,
    sub_buffer_size |-> <<21, 29>>, timestamp |-> <<30, 30>>, valid |-> <<31, 31>> ]

\* The size is stored less one.
BuffDescCreate(offset, reset, type, size, timestamp, valid) ==
  Create(BUFF_DESC,
         [ offset |-> offset, reset |-> Flag(reset), type |-> type,
           sub_buffer_size |-> size - 1, timestamp |-> Flag(timestamp), valid |-> Flag(valid) ])

BuffDescRead(word) ==
  [Read(BUFF_DESC, word) EXCEPT !.sub_buffer_size = @ + 1]

-----------------------------------------------------------------------------
(* What happens to the frames that match a rule of the lookup table *)

STREAM_TRIG ==
  [ valid |-> <<0, 0>>, force_drop |-> <<3, 3>>, gdma_chain_ptr |-> <<8, 15>>,
    sdma_chain_ptr |-> <<17, 24>>, red_grp_id |-> <<26, 30>> ]

StreamTriggerCreate(valid, force_drop, gather, scatter, group) ==
  Create(STREAM_TRIG,
         [ valid |-> Flag(valid), force_drop |-> Flag(force_drop), gdma_chain_ptr |-> gather,
           sdma_chain_ptr |-> scatter, red_grp_id |-> group ])

-----------------------------------------------------------------------------
(* Commands of the scatter, prefetch and gather tables *)

DMA_CMD_S ==
  [ last |-> <<0, 0>>, command |-> <<1, 2>>, irq |-> <<3, 3>>, frm_buff_offs |-> <<4, 14>>,
    length |-> <<15, 25>>, rx_msgbuf_id |-> <<26, 30>> ]

S_MOVE_WITH_TS == 2

ScatterMoveCreate(last, irq, offset, length, buffer) ==
  Create(DMA_CMD_S,
         [ last |-> Flag(last), command |-> S_MOVE_WITH_TS, irq |-> Flag(irq),
           frm_buff_offs |-> offset, length |-> length, rx_msgbuf_id |-> buffer ])

\* A prefetch command moves from one buffer or locks a group of 16 buffers.
DMA_CMD_P_MOV ==
  [ last |-> <<0, 0>>, command |-> <<1, 2>>, irq |-> <<4, 4>>, length |-> <<5, 15>>,
    msgbuf_id |-> <<16, 20>> ]
DMA_CMD_P_LOCK ==
  [ command |-> <<1, 2>>, mb_group |-> <<8, 9>>, dual_lock |-> <<12, 12>>,
    lock_vector |-> <<16, 31>> ]

P_NOP == 1
P_MOV_MSG_BUFF == 2
P_LOCK_MSG_BUFF == 3

PrefetchNopCreate == Create(DMA_CMD_P_MOV, [command |-> P_NOP])

PrefetchMoveCreate(last, irq, length, buffer) ==
  Create(DMA_CMD_P_MOV,
         [ last |-> Flag(last), command |-> P_MOV_MSG_BUFF, irq |-> Flag(irq),
           length |-> length, msgbuf_id |-> buffer ])

\* lock_vector is a set of bits.
PrefetchLockCreate(group, dual_lock, lock_vector) ==
  Create(DMA_CMD_P_LOCK,
         [command |-> P_LOCK_MSG_BUFF, mb_group |-> group, dual_lock |-> Flag(dual_lock)])
  \cup Placed(DMA_CMD_P_LOCK.lock_vector, lock_vector)

\* offset is one in the buffer of constants or in the frame.
DMA_CMD_G ==
  [ last |-> <<0, 0>>, command |-> <<1, 3>>, length |-> <<5, 15>>, offset |-> <<16, 27>> ]

G_FORWARD == 1
G_MOVE_PREF == 2
G_MOVE_CNST_BUFF == 4
G_MOVE_FR_BUFF == 5
G_R_TAG == 7

GatherForwardCreate == Create(DMA_CMD_G, [command |-> G_FORWARD])
GatherRTagCreate == Create(DMA_CMD_G, [command |-> G_R_TAG])
GatherMovePrefCreate(last) ==
  Create(DMA_CMD_G, [last |-> Flag(last), command |-> G_MOVE_PREF])
GatherMoveConstantCreate(last, length, offset) ==
  Create(DMA_CMD_G,
         [ last |-> Flag(last), command |-> G_MOVE_CNST_BUFF, length |-> length,
           offset |-> offset ])
GatherMoveFrameCreate(last, length, offset) ==
  Create(DMA_CMD_G,
         [last |-> Flag(last), command |-> G_MOVE_FR_BUFF, length |-> length, offset |-> offset])

-----------------------------------------------------------------------------
(* The control table of the redundancy module *)

REDUN_CTLTAB ==
  [ source |-> <<0, 2>>, update |-> <<8, 9>>, drop_no_rtag |-> <<14, 14>>,
    int_seq_idx |-> <<16, 20>> ]

SRC_RXSEQNUM == 0
SRC_INTSEQNUM == 2
UPD_NOP == 0
UPD_MAXNUM == 1
UPD_FIN_BOTH == 3

RedundancyEntryCreate(source, update, drop_no_rtag, index) ==
  Create(REDUN_CTLTAB,
         [ source |-> source, update |-> update, drop_no_rtag |-> Flag(drop_no_rtag),
           int_seq_idx |-> index ])

-----------------------------------------------------------------------------
(* Commands of the schedule tables *)

SCHED_TBL_CMD ==
  [ dma_index |-> <<0, 8>>, rule_id |-> <<14, 18>>, redund_group_id |-> <<19, 23>>,
    dma_trigger |-> <<25, 26>>, win_close |-> <<27, 27>>, win_open |-> <<28, 28>>,
    ngn_disable |-> <<29, 29>>, ngn_enable |-> <<30, 30>> ]

TRIG_MODE_NO_TRIG == 0
TRIG_MODE_STAND_ALONE == 1
TRIG_MODE_FIRST_STAGE == 2

ScheduleCommandCreate(dma_index, rule, group, trigger, close, open) ==
  Create(SCHED_TBL_CMD,
         [ dma_index |-> dma_index, rule_id |-> rule, redund_group_id |-> group,
           dma_trigger |-> trigger, win_close |-> Flag(close), win_open |-> Flag(open),
           ngn_disable |-> 0, ngn_enable |-> 0 ])

-----------------------------------------------------------------------------
(* The control registers of a bypass module *)

RULE_MASK == <<0, 15>>         \* lookup, layer 7 and policing enables: a bit per rule
L7_CHECK_LENGTH == <<0, 6>>
ONE_BIT == <<0, 0>>            \* enable, connection mode, speed
CONN_MODE_SERIES == 0
CONN_MODE_PARALLEL == 1
SPEED_SELECT_100 == 0
SPEED_SELECT_1000 == 1

RuleMaskCreate(rules) == Placed(RULE_MASK, rules)
LayerSevenLengthCreate(length) == Placed(L7_CHECK_LENGTH, Bits(length))

-----------------------------------------------------------------------------
(* Arrays of bits for message buffers: words, the lowest one first.  bno, hi   *)
(* and lo are numbers of bits.                                                 *)

LOCK_CTRL_MAXSIZE == 64
Elements == 0 .. LOCK_CTRL_MAXSIZE \div WordSize - 1
BitarrayZero == [i \in Elements |-> {}]

\* A number beyond the end is ignored.
BitarraySet(bno, array) ==
  IF bno \div WordSize \in Elements
  THEN [array EXCEPT ![bno \div WordSize] = @ \cup { bno % WordSize }] ELSE array

BitarrayClr(bno, array) ==
  IF bno \div WordSize \in Elements
  THEN [array EXCEPT ![bno \div WordSize] = @ \ { bno % WordSize }] ELSE array

BitarrayIsset(bno, array) ==
  bno \div WordSize \in Elements /\ bno % WordSize \in array[bno \div WordSize]

BitarrayCount(array) == MapThenSumSet(LAMBDA i : Cardinality(array[i]), Elements)

BitarrayAnd(one, two) == [i \in Elements |-> one[i] \cap two[i]]
BitarrayOr(one, two) == [i \in Elements |-> one[i] \cup two[i]]
BitarrayNot(array) == [i \in Elements |-> Positions \ array[i]]

\* The number of the first one, counted from 1; 0 if there is none.
BitarrayFfs(array) ==
  IF \A i \in Elements : array[i] = {} THEN 0
  ELSE LET first == Min({ i \in Elements : array[i] # {} })
       IN  first * WordSize + Min(array[first]) + 1

ElementShl(word, n) == { b + n : b \in word } \cap Positions
ElementShr(word, n) == { b - n : b \in word } \cap Positions

BitarrayShr(shift, array) ==
  LET delta == shift \div WordSize
      mshift == shift % WordSize
  IN  [i \in Elements |->
         IF i + delta \notin Elements THEN {}
         ELSE ElementShr(array[i + delta], mshift)
              \cup IF mshift > 0 /\ i + delta + 1 \in Elements
                   THEN ElementShl(array[i + delta + 1], WordSize - mshift) ELSE {}]

BitarrayShl(shift, array) ==
  LET delta == shift \div WordSize
      mshift == shift % WordSize
  IN  [i \in Elements |->
         IF i < delta THEN {}
         ELSE ElementShl(array[i - delta], mshift)
              \cup IF mshift > 0 /\ i > delta
                   THEN ElementShr(array[i - delta - 1], WordSize - mshift) ELSE {}]

\* The field of a mask: from its first one on; the value is one word.
BitmaskFieldGet(mask, array) ==
  BitarrayShr(BitarrayFfs(mask) - 1, BitarrayAnd(mask, array))[0]

\* The value is not cut off at the end of the field.
BitmaskFieldSet(mask, array, value) ==
  BitarrayOr(BitarrayAnd(array, BitarrayNot(mask)),
             BitarrayShl(BitarrayFfs(mask) - 1, [BitarrayZero EXCEPT ![0] = value]))

BitmaskGenmask(hi, lo) ==
  IF lo > hi THEN BitarrayZero
  ELSE BitarrayAnd(BitarrayShl(lo, BitarrayNot(BitarrayZero)),
                   BitarrayShr(LOCK_CTRL_MAXSIZE - 1 - hi, BitarrayNot(BitarrayZero)))
=============================================================================
