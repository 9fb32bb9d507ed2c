------------------------------- MODULE MCTables -------------------------------
(* Instances of AcmRows for TLC. *)
EXTENDS AcmRows, TLC

CONSTANTS in1, in2, ev1, rec1, tt1, tt2, tt3, tt4, m0, m1, c1

\* Time triggered streams for two pairs.
PairKinds == [s \in {tt1, tt2, tt3, tt4} |-> TIME_TRIGGERED_STREAM]

\* One pair and a stream listed after its second half.
TriggeredKinds == [s \in {tt1, tt2, tt3} |-> TIME_TRIGGERED_STREAM]

\* Ingress triggered streams, an event and a recovery stream for one of them.
MixedKinds ==
  in1 :> INGRESS_TRIGGERED_STREAM @@ in2 :> INGRESS_TRIGGERED_STREAM @@
  ev1 :> EVENT_STREAM @@ rec1 :> RECOVERY_STREAM

TwoPorts == m0 :> 0 @@ m1 :> 1

\* Buffers in two lock groups, lengths at both ends of what the library takes.
Arguments ==
  "INSERT" :> << [buffer |-> 17, offset |-> 0, length |-> 1500], [buffer |-> 3, offset |-> 0, length |-> 3] >> @@
  "INSERT_CONSTANT" :> << [buffer |-> 0, offset |-> 0, length |-> 1500], [buffer |-> 0, offset |-> 0, length |-> 1] >> @@
  "READ" :> << [buffer |-> 31, offset |-> 0, length |-> 1528], [buffer |-> 2, offset |-> 1524, length |-> 4] >> @@
  "FORWARD_ALL" :> << [buffer |-> 0, offset |-> 0, length |-> 0], [buffer |-> 0, offset |-> 0, length |-> 0] >>

\* The event stream keeps the source address of the frame.
KeepsSource == ev1 :> {2}

\* The longest filter and none.
Filters == [s \in Streams |-> IF s = in1 THEN 112 ELSE 0]

\* The streams of PairKinds are interchangeable.
PairSymmetry == Permutations({tt1, tt2, tt3, tt4})

-----------------------------------------------------------------------------
(* The pure operators against what they stand for. *)

\* The numbers of the ones of an array of bits.
Ones(array) == { b \in 0 .. LOCK_CTRL_MAXSIZE - 1 : BitarrayIsset(b, array) }
ArrayOf(ones) == FoldSet(BitarraySet, BitarrayZero, ones)

\* A generated mask is the range of bits from lo to hi, over the border of words.
ASSUME GenmaskIsRange ==
  \A hi, lo \in {0, 1, 15, 16, 30, 31, 32, 33, 47, 48, 62, 63} : Ones(BitmaskGenmask(hi, lo)) = lo .. hi

\* A field of up to a word takes a value that fits and leaves the others alone.
ASSUME FieldTakesValue ==
  \A lo \in {0, 1, 16, 31, 32, 48}, width \in {1, 2, 16} :
    \A value \in { {}, {0}, {width - 1}, 0 .. width - 1 }, old \in { {}, {0, 31, 32, 63}, 0 .. 63 } :
      LET mask == BitmaskGenmask(Min({ 63, lo + width - 1 }), lo)
          new == BitmaskFieldSet(mask, ArrayOf(old), value)
      IN  lo + width <= LOCK_CTRL_MAXSIZE =>
            BitmaskFieldGet(mask, new) = value /\ Ones(new) \ (lo .. lo + width - 1) = old \ (lo .. lo + width - 1)

\* Setting and clearing ignore numbers beyond the end; the first one is found.
ASSUME BitsAreSetAndCleared ==
  \A old \in { {}, {5}, {31, 32}, {63} }, b \in {0, 5, 31, 32, 63, 64, 95} :
    /\ Ones(BitarraySet(b, ArrayOf(old))) = old \cup ({b} \cap 0 .. 63)
    /\ Ones(BitarrayClr(b, ArrayOf(old))) = old \ {b}
    /\ BitarrayCount(ArrayOf(old)) = Cardinality(old)
    /\ BitarrayFfs(ArrayOf(old)) = IF old = {} THEN 0 ELSE Min(old) + 1

\* What a descriptor was created of is read from it, up to the largest values.
ASSUME DescriptorIsRead ==
  \A offset \in {0, 1, 65535}, size \in {1, 2, 256, 512}, kind \in {0, 1}, reset, timestamp \in BOOLEAN :
    BuffDescRead(BuffDescCreate(offset, reset, kind, size, timestamp, TRUE)) =
      [ offset |-> offset, reset |-> Flag(reset), type |-> kind, sub_buffer_size |-> size,
        timestamp |-> Flag(timestamp), valid |-> 1 ]

\* Every word behind the attributes of the bypass modules is one register: no two
\* items share one, and none is in the control area.
ASSUME ItemsApart ==
  LET items(a) == ItemsOf(0, AttrSize(a), BYPASS_ATTR[a].padsize)
      words == UNION { UNION { BypassWords(a, i) : i \in items(a) } : a \in BypassAttrs }
  IN  /\ Cardinality(words) =
           MapThenSumSet(LAMBDA a : Cardinality(items(a)) * (BYPASS_ATTR[a].elemsize \div WORD), BypassAttrs)
      /\ \A w \in words : w.part \in 0 .. MODULES_COUNT - 1 /\ w.at < CONTROL_AREA

\* libacmconfig counts as many items as the driver: its accesses are accepted and
\* end at the register of the same index of the module.
ASSUME OffsetsAgree ==
  \A a \in BypassAttrs, module_id \in 0 .. MODULES_COUNT - 1 :
    \A index \in { 0, LIB_ITEMS[a] - 1 } :
      LET off == LibOffset(a, module_id, index)
      IN  /\ AccessOk(AttrSize(a), off, BYPASS_ATTR[a].padsize, BYPASS_ATTR[a].padsize)
          /\ RegisterAt(a, off) =
               [part |-> module_id, at |-> BYPASS_ATTR[a].offset + index * BYPASS_ATTR[a].delta]

\* Every row of every table of every scheduler is one item.
ASSUME SchedRowsApart ==
  LET items == 0 .. MODULES_COUNT * SCHED_TBL_COUNT * SCHED_TBL_ROW_COUNT - 1
  IN  Cardinality({ SchedRowItem(i) : i \in items }) = Cardinality(items)
=============================================================================
