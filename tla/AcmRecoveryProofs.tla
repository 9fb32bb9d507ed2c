--------------------------- MODULE AcmRecoveryProofs ---------------------------
(***************************************************************************)
(* Proofs about AcmRecovery, for any rules, entries, timeouts of a word    *)
(* and ticks a second: a TAKE_ANY bit is not set before the timeout has    *)
(* passed in silence, unless its product with the ticks leaves the word.   *)
(***************************************************************************)
EXTENDS AcmRecovery, NaturalsInduction, WellFoundedInduction, TLAPS

-----------------------------------------------------------------------------
(* The arithmetic of the timeouts.                                         *)

(* A number below the modulus is its own remainder, also one round later.  *)
LEMMA SmallMod ==
  ASSUME NEW w \in Nat, NEW n \in Nat, n < w
  PROVE  n % w = n /\ (n + w) % w = n
<1>1. w \in Nat \ {0}
  OBVIOUS
<1>2. n % w = n
  BY <1>1
<1>3. (n + w) % w \in 0 .. w - 1 /\ (n + w) \div w \in Nat
  BY <1>1
<1>4. PICK q \in Nat : q = (n + w) \div w
  BY <1>3
<1>5. PICK r \in 0 .. w - 1 : r = (n + w) % w
  BY <1>3
<1>6. PICK e \in Nat : e = w * q
  OBVIOUS
<1>7. n + w = e + r
  BY <1>1, <1>4, <1>5, <1>6, SMT
<1>8. CASE q = 0
  <2>1. e = 0
    BY <1>6, <1>8
  <2>2. QED
    BY <1>7, <2>1
<1>9. CASE q = 1
  <2>1. e = w
    BY <1>6, <1>9
  <2>2. QED
    BY <1>2, <1>5, <1>7, <2>1
<1>10. CASE q > 1
  <2>1. PICK k \in Nat : q = k + 2
    <3>1. q - 2 \in Nat /\ q = (q - 2) + 2
      BY <1>10
    <3>2. QED
      BY <3>1
  <2>2. PICK f \in Nat : f = w * k
    OBVIOUS
  <2>3. e = f + w + w
    BY <1>6, <2>1, <2>2, SMT
  <2>4. QED
    BY <1>7, <2>3
<1>11. QED
  BY <1>8, <1>9, <1>10

(* A quotient is a natural number no greater than the dividend.            *)
LEMMA Quotient ==
  ASSUME NEW d \in Nat, NEW m \in Nat \ {0}
  PROVE  d \div m \in Nat /\ d \div m <= d
<1>1. d \div m \in Nat /\ d % m \in 0 .. m - 1
  OBVIOUS
<1>2. PICK q \in Nat : q = d \div m
  BY <1>1
<1>3. PICK r \in 0 .. m - 1 : r = d % m
  BY <1>1
<1>4. PICK e \in Nat : e = m * q
  OBVIOUS
<1>5. d = e + r
  BY <1>2, <1>3, <1>4, SMT
<1>6. PICK k \in Nat : m = k + 1
  <2>1. m - 1 \in Nat /\ m = (m - 1) + 1
    OBVIOUS
  <2>2. QED
    BY <2>1
<1>7. PICK f \in Nat : f = k * q
  OBVIOUS
<1>8. e = f + q
  BY <1>4, <1>6, <1>7, SMT
<1>9. q <= d
  BY <1>5, <1>8
<1>10. QED
  BY <1>2, <1>9

(* Rounding up: so many ticks are at least the time asked for.             *)
LEMMA RoundedUp ==
  ASSUME NEW x \in Nat, NEW m \in Nat \ {0}
  PROVE  /\ ((x + m - 1) \div m) * m >= x
         /\ x > 0 => (x + m - 1) \div m > 0
<1> DEFINE d == x + m - 1
<1>1. d \in Nat /\ x <= d - (m - 1) /\ (x > 0 => d >= m)
  OBVIOUS
<1>2. d \div m \in Nat /\ d % m \in 0 .. m - 1
  BY <1>1
<1>3. d = x + m - 1
  OBVIOUS
<1> HIDE DEF d
<1>4. PICK q \in Nat : q = d \div m
  BY <1>2
<1>5. PICK r \in 0 .. m - 1 : r = d % m
  BY <1>2
<1>6. PICK e \in Nat : e = m * q /\ e = q * m
  OBVIOUS
<1>7. d = e + r
  BY <1>1, <1>4, <1>5, <1>6, SMT
<1>8. e >= x
  BY <1>1, <1>7
<1>9. x > 0 => q > 0
  <2>1. ASSUME q = 0 PROVE e = 0
    BY <1>6, <2>1
  <2>2. QED
    BY <1>1, <1>7, <2>1
<1>10. q * m >= x
  BY <1>6, <1>8
<1>11. QED
  BY <1>3, <1>4, <1>9, <1>10

(* More ticks are more time.                                               *)
LEMMA MoreTicks ==
  ASSUME NEW n \in Nat, NEW k \in Nat, NEW m \in Nat, n >= k
  PROVE  n * m >= k * m
<1>1. PICK j \in Nat : n = k + j
  <2>1. n - k \in Nat /\ n = k + (n - k)
    OBVIOUS
  <2>2. QED
    BY <2>1
<1>2. PICK f \in Nat : f = j * m
  OBVIOUS
<1>3. PICK e \in Nat : e = k * m
  OBVIOUS
<1>4. n * m = e + f
  BY <1>1, <1>2, <1>3, SMT
<1>5. QED
  BY <1>3, <1>4

(* The product of any timeout, and the ticks that it needs.                *)
LEMMA ProductIs ==
  ASSUME NEW t \in Timeouts
  PROVE  /\ t \in Nat /\ Product(t) \in Nat
         /\ Needed(t) \in Nat /\ Needed(t) <= Product(t)
<1> DEFINE x == t * recovery_ticks_per_sec
           m == MSEC_PER_SEC
<1>1. t \in Nat /\ recovery_ticks_per_sec \in Nat \ {0} /\ m \in Nat \ {0}
  BY RecoveryAssumption
<1>2. x \in Nat
  BY <1>1
<1>3. Product(t) = x + m - 1
  BY DEF Product
<1> HIDE DEF x
<1>4. x + m - 1 \in Nat
  BY <1>1, <1>2
<1>5. Product(t) \in Nat
  BY <1>3, <1>4
<1>6. QED
  BY <1>1, <1>5, Quotient DEF Needed

(* reset_remaining_ticks() of any timeout stays in its word, and where the *)
(* product fits, the ticks are those that the timeout needs.               *)
LEMMA TicksAre ==
  ASSUME NEW t \in Timeouts
  PROVE  /\ Ticks(t) \in 0 .. WordMod - 1
         /\ Fits(t) => /\ Ticks(t) = Needed(t)
                       /\ Ticks(t) * MSEC_PER_SEC >= t * recovery_ticks_per_sec
                       /\ t > 0 => Ticks(t) > 0
<1> DEFINE x == t * recovery_ticks_per_sec
           m == MSEC_PER_SEC
           p == Product(t)
<1>1. /\ t \in Nat /\ recovery_ticks_per_sec \in Nat \ {0} /\ m \in Nat \ {0}
      /\ WordMod \in Nat \ {0} /\ p \in Nat
  BY ProductIs, RecoveryAssumption
<1>2. x \in Nat /\ (t > 0 => x > 0)
  BY <1>1
<1>3. p = x + m - 1
  BY DEF Product
<1>4. Ticks(t) = (p % WordMod) \div m /\ Needed(t) = p \div m
  BY DEF Ticks, Needed
<1>5. Fits(t) => p < WordMod
  BY DEF Fits
<1> HIDE DEF x, p
<1>6. p % WordMod \in 0 .. WordMod - 1
  BY <1>1
<1>7. PICK d \in 0 .. WordMod - 1 : d = p % WordMod
  BY <1>6
<1>8. d \in Nat /\ d \div m \in Nat /\ d \div m <= d
  BY <1>1, Quotient
<1>9. Ticks(t) \in 0 .. WordMod - 1
  BY <1>1, <1>4, <1>7, <1>8
<1>10. ASSUME Fits(t)
       PROVE  Ticks(t) = Needed(t) /\ Ticks(t) * m >= x /\ (t > 0 => Ticks(t) > 0)
  <2>1. p % WordMod = p
    BY <1>1, <1>5, <1>10, SmallMod
  <2>2. Ticks(t) = Needed(t) /\ Ticks(t) = (x + m - 1) \div m
    BY <1>3, <1>4, <2>1
  <2>3. ((x + m - 1) \div m) * m >= x /\ (x > 0 => (x + m - 1) \div m > 0)
    BY <1>1, <1>2, RoundedUp
  <2>4. QED
    BY <1>2, <2>2, <2>3
<1>11. QED
  BY <1>9, <1>10 DEF x

(* A set of natural numbers has a least one.                               *)
LEMMA Least ==
  ASSUME NEW S \in SUBSET Nat, S # {}
  PROVE  \E x \in S : \A y \in S : x <= y
<1> DEFINE R == OpToRel(<, Nat)
           Q == {ss \in Nat \X Nat : ss[1] < ss[2]}
<1>1. IsWellFoundedOn(R, Nat)
  BY NatLessThanWellFounded, Zenon
<1>2. R = Q
  BY Zenon DEF OpToRel
<1> HIDE DEF R
<1>3. PICK x \in S : \A y \in S : ~(<<y, x>> \in Q)
  BY <1>1, <1>2, WFMin, Zenon
<1>4. ASSUME NEW y \in S PROVE x <= y
  <2>1. <<y, x>> \in Nat \X Nat
    OBVIOUS
  <2>2. ~(y < x)
    BY <1>3, <2>1
  <2>3. QED
    BY <2>2
<1>5. QED
  BY <1>4

(* What timeouts need is bounded, so that Longest is one of them.          *)
LEMMA LongestIs ==
  /\ Longest \in Nat
  /\ \A t \in Timeouts : Needed(t) <= Longest /\ (Fits(t) => Ticks(t) <= Longest)
<1> DEFINE S == {Needed(t) : t \in Timeouts}
           B == WordMod * recovery_ticks_per_sec + MSEC_PER_SEC
           D == {B - n : n \in S}
<1>1. B \in Nat /\ S # {} /\ \A n \in S : n \in Nat /\ n <= B
  <2>1. /\ WordMod \in Nat \ {0} /\ recovery_ticks_per_sec \in Nat /\ MSEC_PER_SEC \in Nat
        /\ 0 \in Timeouts /\ Timeouts \subseteq 0 .. WordMod - 1
    BY RecoveryAssumption
  <2>2. ASSUME NEW t \in Timeouts PROVE Needed(t) \in Nat /\ Needed(t) <= B
    <3>1. PICK a \in Nat : a = WordMod * recovery_ticks_per_sec
      BY <2>1
    <3>2. PICK x \in Nat : x = t * recovery_ticks_per_sec
      BY <2>1, ProductIs
    <3>3. a >= x
      <4>1. t \in Nat /\ WordMod \in Nat /\ WordMod >= t
        BY <2>1
      <4>2. QED
        BY <2>1, <3>1, <3>2, <4>1, MoreTicks
    <3>4. Product(t) = x + MSEC_PER_SEC - 1 /\ B = a + MSEC_PER_SEC
      BY <3>1, <3>2 DEF Product
    <3>5. Needed(t) \in Nat /\ Needed(t) <= Product(t)
      BY ProductIs
    <3>6. QED
      BY <2>1, <3>3, <3>4, <3>5
  <2>3. B \in Nat
    BY <2>1
  <2>4. QED
    BY <2>1, <2>2, <2>3
<1> HIDE DEF S, B
<1>2. D \subseteq Nat /\ D # {}
  BY <1>1
<1> HIDE DEF D
<1>3. PICK d \in D : \A y \in D : d <= y
  BY <1>2, Least
<1>4. \A y \in D : ~(y < d)
  BY <1>2, <1>3
<1>5. PICK n \in S : d = B - n
  BY DEF D
<1>6. \A k \in S : n >= k
  <2>1. ASSUME NEW k \in S PROVE n >= k
    <3>1. B - k \in D
      BY DEF D
    <3>2. QED
      BY <1>1, <1>4, <1>5, <3>1
  <2>2. QED
    BY <2>1
<1>7. n \in S /\ \A t \in Timeouts : n >= Needed(t)
  BY <1>6 DEF S
<1>8. Longest \in S /\ \A t \in Timeouts : Longest >= Needed(t)
  BY <1>7 DEF Longest, S
<1>9. QED
  BY <1>1, <1>8, ProductIs, TicksAre

-----------------------------------------------------------------------------
(* The inductive invariant.                                                *)

(* A flag, wherever it is, says that its rule was silent since the work    *)
(* last looked; an IntSeqNum that stands still says so of its entry.       *)
FlagsSilent == cache \cup register \subseteq silent

BasesSilent ==
    \A b \in Bases : base[b].msec > 0 /\ b \notin silent => intSeqNum[b] # base[b].intseqnum

(* The ticks that a running timer has counted and those it has left are    *)
(* at least its timeout, if its product fits.                              *)
Due(timer, counted) ==
    timer.msec > 0 /\ Fits(timer.msec) =>
      timer.remaining \in 1 .. Ticks(timer.msec) /\ counted + timer.remaining >= Ticks(timer.msec)

TicksDue ==
    /\ \A r \in Rules : Due(individual[r], ticks[r])
    /\ \A b \in Bases : Due(base[b], ticks[b])

IInv == TypeOK /\ FlagsSilent /\ BasesSilent /\ TicksDue

(* What the invariant says of the timers does not depend on the rest.      *)
LEMMA TimersKeep ==
  ASSUME TicksDue, UNCHANGED <<individual, base, ticks>>
  PROVE  TicksDue'
  BY DEF TicksDue, Due

(* All timers are off.                                                     *)
LEMMA InitIInv ==
  ASSUME Init
  PROVE  IInv
<1>1. /\ register = {} /\ cache = {} /\ intSeqNum = [b \in Bases |-> 0]
      /\ takeAny = {} /\ enabled = {}
      /\ individual = [r \in Rules |-> [msec |-> 0, remaining |-> 0]]
      /\ base = [b \in Bases |-> [msec |-> 0, remaining |-> 0, intseqnum |-> 0]]
      /\ work = "queued" /\ cycled = FALSE /\ heard = {} /\ silent = Bases
      /\ ticks = [i \in Items |-> 0] /\ sets = 0
  BY DEF Init
<1>2. /\ 0 \in Timeouts /\ 0 \in 0 .. Longest /\ 0 \in 0 .. WordMod - 1
      /\ 0 \in 0 .. SeqMod - 1 /\ 0 \in 0 .. MaxSets
  BY RecoveryAssumption, LongestIs
<1>3. TypeOK
  <2>1. individual \in [Rules -> [msec : Timeouts, remaining : 0 .. WordMod - 1]]
    BY <1>1, <1>2
  <2>2. base \in [Bases -> [msec : Timeouts, remaining : 0 .. WordMod - 1, intseqnum : 0 .. SeqMod - 1]]
    BY <1>1, <1>2
  <2>3. intSeqNum \in [Bases -> 0 .. SeqMod - 1] /\ ticks \in [Items -> 0 .. Longest]
    BY <1>1, <1>2
  <2>4. QED
    BY <1>1, <1>2, <2>1, <2>2, <2>3 DEF TypeOK, Items
<1>4. FlagsSilent /\ BasesSilent
  BY <1>1 DEF FlagsSilent, BasesSilent
<1>5. TicksDue
  BY <1>1 DEF TicksDue, Due
<1>6. QED
  BY <1>3, <1>4, <1>5 DEF IInv

-----------------------------------------------------------------------------
(* The hardware and those who read its flags.                              *)

(* A cycle of the hardware sets flags and sequence numbers.                *)
LEMMA CycleKeeps ==
  ASSUME IInv, NEW received \in SUBSET Items, Cycle(received)
  PROVE  IInv'
<1>1. /\ register' = register \cup (Rules \ received)
      /\ intSeqNum' = [b \in Bases |-> IF b \in received THEN (intSeqNum[b] + 1) % SeqMod ELSE intSeqNum[b]]
      /\ \A b \in Bases \cap received : base[b].msec > 0 => intSeqNum'[b] # base[b].intseqnum
      /\ takeAny' = takeAny \ received /\ cycled' = TRUE /\ heard' = received
      /\ silent' = (silent \cup (Rules \ received)) \ (Bases \cap received)
      /\ UNCHANGED <<cache, enabled, individual, base, work, ticks, sets>>
  BY DEF Cycle, timers
<1>2. TypeOK
  BY DEF IInv
<1>3. intSeqNum' \in [Bases -> 0 .. SeqMod - 1]
  <2>1. SeqMod \in Nat \ {0}
    BY RecoveryAssumption
  <2>2. \A n \in Nat : n % SeqMod \in 0 .. SeqMod - 1
    BY <2>1
  <2>3. ASSUME NEW b \in Bases PROVE intSeqNum'[b] \in 0 .. SeqMod - 1
    <3>1. intSeqNum[b] \in 0 .. SeqMod - 1 /\ intSeqNum[b] + 1 \in Nat
      BY <1>2, <2>1 DEF TypeOK
    <3>2. QED
      BY <1>1, <2>2, <3>1
  <2>4. intSeqNum' = [b \in Bases |-> intSeqNum'[b]]
    BY <1>1
  <2>5. QED
    BY <2>3, <2>4
<1>4. TypeOK'
  <2>1. register' \in SUBSET Rules /\ takeAny' \in SUBSET Items /\ silent' \in SUBSET Items
    BY <1>1, <1>2 DEF TypeOK, Items
  <2>2. heard' \in SUBSET Items /\ cycled' \in BOOLEAN
    BY <1>1
  <2>3. /\ cache' \in SUBSET Rules /\ enabled' \in SUBSET Items
        /\ individual' \in [Rules -> [msec : Timeouts, remaining : 0 .. WordMod - 1]]
        /\ base' \in [Bases -> [msec : Timeouts, remaining : 0 .. WordMod - 1, intseqnum : 0 .. SeqMod - 1]]
        /\ work' \in {"queued", "stopping", "cancelled", "gone"}
        /\ ticks' \in [Items -> 0 .. Longest] /\ sets' \in 0 .. MaxSets
    BY <1>1, <1>2 DEF TypeOK
  <2>4. QED
    BY <1>3, <2>1, <2>2, <2>3 DEF TypeOK
<1>5. FlagsSilent'
  BY <1>1, <1>2, ItemsDiffer DEF IInv, FlagsSilent, TypeOK
<1>6. BasesSilent'
  <2>1. ASSUME NEW b \in Bases, base'[b].msec > 0, b \notin silent'
        PROVE  intSeqNum'[b] # base'[b].intseqnum
    <3>1. CASE b \in received
      BY <1>1, <2>1, <3>1
    <3>2. CASE b \notin received
      <4>1. intSeqNum'[b] = intSeqNum[b] /\ b \notin silent
        BY <1>1, <2>1, <3>2
      <4>2. QED
        BY <1>1, <2>1, <4>1 DEF IInv, BasesSilent
    <3>3. QED
      BY <3>1, <3>2
  <2>2. QED
    BY <2>1 DEF BasesSilent
<1>7. TicksDue'
  BY <1>1, TimersKeep DEF IInv
<1>8. QED
  BY <1>4, <1>5, <1>6, <1>7 DEF IInv

(* The diagnostics read the flags and hand them over.                      *)
LEMMA DiagnosticsKeep ==
  ASSUME IInv, DiagnosticsUpdate
  PROVE  IInv'
<1>1. /\ cache' = cache \cup register /\ register' = {}
      /\ UNCHANGED <<intSeqNum, takeAny, individual, base, enabled, work, cycled, heard, silent, ticks, sets>>
  BY DEF DiagnosticsUpdate, timers
<1>2. TypeOK'
  BY <1>1 DEF IInv, TypeOK
<1>3. FlagsSilent' /\ BasesSilent'
  BY <1>1 DEF IInv, FlagsSilent, BasesSilent
<1>4. TicksDue'
  BY <1>1, TimersKeep DEF IInv
<1>5. QED
  BY <1>2, <1>3, <1>4 DEF IInv

-----------------------------------------------------------------------------
(* Timeouts are set.                                                       *)

(* redundancy_set_individual_recovery_timeout()                            *)
LEMMA SetIndividualKeeps ==
  ASSUME IInv, NEW x \in Rules, NEW msec \in Timeouts, SetIndividual(x, msec)
  PROVE  IInv'
<1>1. /\ enabled' = (IF msec > 0 THEN enabled \cup {x} ELSE enabled \ {x})
      /\ cache' = (cache \cup register) \ {x} /\ register' = {}
      /\ individual' = [individual EXCEPT ![x] = [msec |-> msec, remaining |-> Ticks(msec)]]
      /\ ticks' = [ticks EXCEPT ![x] = 0]
      /\ silent' = silent \ {x} /\ sets < MaxSets /\ sets' = sets + 1
      /\ UNCHANGED <<intSeqNum, takeAny, base, work, cycled, heard>>
  BY DEF SetIndividual, Enable, TakeFlags, Restarted
<1>2. TypeOK
  BY DEF IInv
<1>3. /\ Ticks(msec) \in 0 .. WordMod - 1
      /\ (msec > 0 /\ Fits(msec) => Ticks(msec) \in 1 .. Ticks(msec))
      /\ 0 \in 0 .. Longest /\ x \in Items
  BY TicksAre, ProductIs, LongestIs, RecoveryAssumption DEF Items
<1>4. TypeOK'
  <2>1. individual' \in [Rules -> [msec : Timeouts, remaining : 0 .. WordMod - 1]]
    BY <1>1, <1>2, <1>3 DEF TypeOK
  <2>2. ticks' \in [Items -> 0 .. Longest]
    BY <1>1, <1>2, <1>3 DEF TypeOK
  <2>3. enabled' \in SUBSET Items /\ sets' \in 0 .. MaxSets
    BY <1>1, <1>2, <1>3, RecoveryAssumption DEF TypeOK
  <2>4. QED
    BY <1>1, <1>2, <2>1, <2>2, <2>3 DEF TypeOK
<1>5. FlagsSilent' /\ BasesSilent'
  BY <1>1, ItemsDiffer DEF IInv, FlagsSilent, BasesSilent
<1>6. TicksDue'
  <2>1. ASSUME NEW r \in Rules PROVE Due(individual'[r], ticks'[r])
    <3>1. CASE r = x
      <4>1. individual'[r].msec = msec /\ individual'[r].remaining = Ticks(msec) /\ ticks'[r] = 0
        BY <1>1, <1>2, <1>3, <3>1 DEF TypeOK
      <4>2. QED
        BY <1>3, <4>1 DEF Due
    <3>2. CASE r # x
      <4>1. individual'[r] = individual[r] /\ ticks'[r] = ticks[r]
        BY <1>1, <1>2, <3>2 DEF TypeOK, Items
      <4>2. QED
        BY <4>1 DEF IInv, TicksDue
    <3>3. QED
      BY <3>1, <3>2
  <2>2. ASSUME NEW b \in Bases PROVE Due(base'[b], ticks'[b])
    <3>1. base'[b] = base[b] /\ ticks'[b] = ticks[b]
      BY <1>1, <1>2, ItemsDiffer DEF TypeOK, Items
    <3>2. QED
      BY <3>1 DEF IInv, TicksDue
  <2>3. QED
    BY <2>1, <2>2 DEF TicksDue, Due
<1>7. QED
  BY <1>4, <1>5, <1>6 DEF IInv

(* redundancy_set_base_recovery_timeout()                                  *)
LEMMA SetBaseKeeps ==
  ASSUME IInv, NEW x \in Bases, NEW msec \in Timeouts, SetBase(x, msec)
  PROVE  IInv'
<1> DEFINE seq == IF msec > 0 THEN intSeqNum[x] ELSE 0
<1>1. /\ enabled' = (IF msec > 0 THEN enabled \cup {x} ELSE enabled \ {x})
      /\ base' = [base EXCEPT ![x] = [msec |-> msec, remaining |-> Ticks(msec), intseqnum |-> seq]]
      /\ ticks' = [ticks EXCEPT ![x] = 0]
      /\ silent' = silent \cup {x} /\ sets < MaxSets /\ sets' = sets + 1
      /\ UNCHANGED <<register, cache, intSeqNum, takeAny, individual, work, cycled, heard>>
  BY DEF SetBase, Enable, Restarted
<1>2. TypeOK
  BY DEF IInv
<1>3. /\ Ticks(msec) \in 0 .. WordMod - 1
      /\ (msec > 0 /\ Fits(msec) => Ticks(msec) \in 1 .. Ticks(msec))
      /\ 0 \in 0 .. Longest /\ x \in Items
  BY TicksAre, ProductIs, LongestIs, RecoveryAssumption DEF Items
<1>4. seq \in 0 .. SeqMod - 1
  BY <1>2, RecoveryAssumption DEF TypeOK
<1> HIDE DEF seq
<1>5. TypeOK'
  <2>1. base' \in [Bases -> [msec : Timeouts, remaining : 0 .. WordMod - 1, intseqnum : 0 .. SeqMod - 1]]
    BY <1>1, <1>2, <1>3, <1>4 DEF TypeOK
  <2>2. ticks' \in [Items -> 0 .. Longest]
    BY <1>1, <1>2, <1>3 DEF TypeOK
  <2>3. enabled' \in SUBSET Items /\ silent' \in SUBSET Items /\ sets' \in 0 .. MaxSets
    BY <1>1, <1>2, <1>3, RecoveryAssumption DEF TypeOK
  <2>4. QED
    BY <1>1, <1>2, <2>1, <2>2, <2>3 DEF TypeOK
<1>6. FlagsSilent'
  BY <1>1 DEF IInv, FlagsSilent
<1>7. BasesSilent'
  <2>1. ASSUME NEW b \in Bases, b \notin silent' PROVE base'[b] = base[b] /\ b \notin silent
    BY <1>1, <1>2, <2>1 DEF TypeOK
  <2>2. QED
    BY <1>1, <2>1 DEF IInv, BasesSilent
<1>8. TicksDue'
  <2>1. ASSUME NEW b \in Bases PROVE Due(base'[b], ticks'[b])
    <3>1. CASE b = x
      <4>1. base'[b].msec = msec /\ base'[b].remaining = Ticks(msec) /\ ticks'[b] = 0
        BY <1>1, <1>2, <1>3, <3>1 DEF TypeOK
      <4>2. QED
        BY <1>3, <4>1 DEF Due
    <3>2. CASE b # x
      <4>1. base'[b] = base[b] /\ ticks'[b] = ticks[b]
        BY <1>1, <1>2, <3>2 DEF TypeOK, Items
      <4>2. QED
        BY <4>1 DEF IInv, TicksDue
    <3>3. QED
      BY <3>1, <3>2
  <2>2. ASSUME NEW r \in Rules PROVE Due(individual'[r], ticks'[r])
    <3>1. individual'[r] = individual[r] /\ ticks'[r] = ticks[r]
      BY <1>1, <1>2, ItemsDiffer DEF TypeOK, Items
    <3>2. QED
      BY <3>1 DEF IInv, TicksDue
  <2>3. QED
    BY <2>1, <2>2 DEF TicksDue, Due
<1>9. QED
  BY <1>5, <1>6, <1>7, <1>8 DEF IInv

-----------------------------------------------------------------------------
(* The delayed work.                                                       *)

(* The ticks left are counted in a word.                                   *)
LEMMA LeftIs ==
  ASSUME NEW timer, timer.remaining \in 0 .. WordMod - 1
  PROVE  Left(timer) \in 0 .. WordMod - 1
<1>1. WordMod \in Nat \ {0}
  BY RecoveryAssumption
<1>2. PICK n \in Nat : n = timer.remaining + WordMod - 1
  BY <1>1
<1>3. n % WordMod \in 0 .. WordMod - 1
  BY <1>1
<1>4. QED
  BY <1>2, <1>3 DEF Left

(* What a tick that counted one more silent tick for a still timer leaves. *)
LEMMA TickIsDue ==
  ASSUME NEW timer, timer.msec \in Timeouts, timer.msec > 0, Fits(timer.msec),
         NEW n \in 0 .. Longest, Due(timer, n),
         NEW still \in BOOLEAN, NEW m \in 0 .. Longest,
         still => m = IF n < Longest THEN n + 1 ELSE Longest
  PROVE  LET left == IF still /\ Left(timer) > 0 THEN Left(timer) ELSE Ticks(timer.msec)
         IN  /\ left \in 1 .. Ticks(timer.msec) /\ m + left >= Ticks(timer.msec)
             /\ TimedOut(timer, still) => m >= Ticks(timer.msec)
<1> DEFINE T == Ticks(timer.msec)
           rest == timer.remaining
<1>1. T \in Nat /\ T < WordMod /\ T > 0 /\ T <= Longest /\ Longest \in Nat /\ WordMod \in Nat
  <2>1. T \in 0 .. WordMod - 1 /\ T > 0 /\ T <= Longest
    BY TicksAre, LongestIs
  <2>2. Longest \in Nat /\ WordMod \in Nat
    BY LongestIs, RecoveryAssumption
  <2> HIDE DEF T
  <2>3. QED
    BY <2>1, <2>2
<1>2. rest \in 1 .. T /\ n + rest >= T
  BY DEF Due
<1>3. Left(timer) = rest - 1
  <2>1. PICK k \in Nat : k = rest - 1
    BY <1>1, <1>2
  <2>2. k < WordMod /\ rest + WordMod - 1 = k + WordMod
    BY <1>1, <1>2, <2>1
  <2>3. (k + WordMod) % WordMod = k
    BY <1>1, <2>2, SmallMod
  <2>4. Left(timer) = (rest + WordMod - 1) % WordMod
    BY DEF Left
  <2>5. QED
    BY <2>1, <2>2, <2>3, <2>4
<1>4. still => m >= T \/ m = n + 1
  BY <1>1
<1> HIDE DEF T, rest
<1>5. CASE still /\ Left(timer) > 0
  <2>1. rest - 1 \in 1 .. T /\ m + (rest - 1) >= T
    BY <1>1, <1>2, <1>3, <1>4, <1>5
  <2>2. QED
    BY <1>3, <1>5, <2>1 DEF T, TimedOut
<1>6. CASE ~(still /\ Left(timer) > 0)
  <2>1. T \in 1 .. T /\ m + T >= T
    BY <1>1
  <2>2. TimedOut(timer, still) => m >= T
    <3>1. ASSUME TimedOut(timer, still) PROVE m >= T
      <4>1. still /\ rest - 1 = 0
        BY <1>3, <3>1 DEF TimedOut
      <4>2. QED
        BY <1>1, <1>2, <1>4, <4>1
    <3>2. QED
      BY <3>1
  <2>3. QED
    BY <1>6, <2>1, <2>2 DEF T
<1>7. QED
  BY <1>5, <1>6

(* A timer that runs and what it counts, before and after a tick.          *)
LEMMA RuleTicked ==
  ASSUME IInv, Tick, NEW r \in Rules, r \in Timed
  PROVE  /\ individual'[r] \in [msec : Timeouts, remaining : 0 .. WordMod - 1]
         /\ individual'[r].msec = individual[r].msec
         /\ Due(individual'[r], ticks'[r])
         /\ ticks'[r] \in 0 .. Longest
         /\ Fits(individual[r].msec) /\ TimedOut(individual[r], r \in NoFrameReceived(Timed))
              => ticks'[r] >= Ticks(individual[r].msec)
<1> DEFINE timer == individual[r]
           still == r \in NoFrameReceived(Timed)
           left == IF still /\ Left(timer) > 0 THEN Left(timer) ELSE Ticks(timer.msec)
<1>1. /\ timer \in [msec : Timeouts, remaining : 0 .. WordMod - 1] /\ timer.msec > 0
      /\ r \in Items /\ ticks[r] \in 0 .. Longest
  BY DEF IInv, TypeOK, Items, Timed
<1>2. individual'[r] = Ticked(timer, still)
  BY DEF Tick, RecoveryProcess
<1>3. still => r \in silent
  BY DEF NoFrameReceived, IInv, FlagsSilent
<1>4. ticks'[r] = IF r \notin silent THEN 0 ELSE IF ticks[r] < Longest THEN ticks[r] + 1 ELSE Longest
  BY <1>1 DEF Tick
<1>5. ticks'[r] \in 0 .. Longest
  BY <1>1, <1>4, LongestIs
<1>6. Due(timer, ticks[r])
  BY DEF IInv, TicksDue
<1>7. ASSUME Fits(timer.msec)
      PROVE  /\ left \in 1 .. Ticks(timer.msec) /\ ticks'[r] + left >= Ticks(timer.msec)
             /\ TimedOut(timer, still) => ticks'[r] >= Ticks(timer.msec)
  <2>1. timer.msec \in Timeouts /\ still \in BOOLEAN
    BY <1>1
  <2>2. still => ticks'[r] = IF ticks[r] < Longest THEN ticks[r] + 1 ELSE Longest
    BY <1>3, <1>4
  <2> HIDE DEF timer, still
  <2>3. QED
    BY <1>1, <1>5, <1>6, <1>7, <2>1, <2>2, TickIsDue
<1>8. left \in 0 .. WordMod - 1
  BY <1>1, TicksAre, LeftIs
<1>9. individual'[r] = [timer EXCEPT !.remaining = left]
  BY <1>2 DEF Ticked
<1> HIDE DEF left, timer
<1>10. individual'[r].msec = timer.msec /\ individual'[r].remaining = left
  BY <1>1, <1>9
<1>11. individual'[r] \in [msec : Timeouts, remaining : 0 .. WordMod - 1]
  BY <1>1, <1>8, <1>9
<1>12. Due(individual'[r], ticks'[r])
  BY <1>7, <1>10 DEF Due
<1>13. QED
  BY <1>5, <1>7, <1>10, <1>11, <1>12 DEF timer

(* One tick of the timer of an entry: it counts silence, and ends no       *)
(* earlier than its timeout.                                               *)
LEMMA BaseTicked ==
  ASSUME IInv, Tick, NEW b \in Bases, b \in TimedBases
  PROVE  /\ base'[b] \in [msec : Timeouts, remaining : 0 .. WordMod - 1, intseqnum : 0 .. SeqMod - 1]
         /\ base'[b].msec = base[b].msec
         /\ Due(base'[b], ticks'[b])
         /\ ticks'[b] \in 0 .. Longest
         /\ Fits(base[b].msec) /\ TimedOut(base[b], Still(b)) => ticks'[b] >= Ticks(base[b].msec)
<1> DEFINE timer == base[b]
           left == IF Still(b) /\ Left(timer) > 0 THEN Left(timer) ELSE Ticks(timer.msec)
<1>1. /\ timer \in [msec : Timeouts, remaining : 0 .. WordMod - 1, intseqnum : 0 .. SeqMod - 1] /\ timer.msec > 0
      /\ b \in Items /\ ticks[b] \in 0 .. Longest /\ intSeqNum[b] \in 0 .. SeqMod - 1
  BY DEF IInv, TypeOK, Items, TimedBases
<1>2. base'[b] = [Ticked(timer, Still(b)) EXCEPT !.intseqnum = intSeqNum[b]]
  BY DEF Tick, RecoveryProcess
<1>3. Still(b) => b \in silent
  BY <1>1 DEF Still, IInv, BasesSilent
<1>4. ticks'[b] = IF b \notin silent THEN 0 ELSE IF ticks[b] < Longest THEN ticks[b] + 1 ELSE Longest
  BY <1>1 DEF Tick
<1>5. ticks'[b] \in 0 .. Longest
  BY <1>1, <1>4, LongestIs
<1>6. Due(timer, ticks[b])
  BY DEF IInv, TicksDue
<1>7. ASSUME Fits(timer.msec)
      PROVE  /\ left \in 1 .. Ticks(timer.msec) /\ ticks'[b] + left >= Ticks(timer.msec)
             /\ TimedOut(timer, Still(b)) => ticks'[b] >= Ticks(timer.msec)
  <2>1. timer.msec \in Timeouts /\ Still(b) \in BOOLEAN
    BY <1>1 DEF Still
  <2>2. Still(b) => ticks'[b] = IF ticks[b] < Longest THEN ticks[b] + 1 ELSE Longest
    BY <1>3, <1>4
  <2> HIDE DEF timer
  <2>3. QED
    BY <1>1, <1>5, <1>6, <1>7, <2>1, <2>2, TickIsDue
<1>8. left \in 0 .. WordMod - 1
  BY <1>1, TicksAre, LeftIs
<1>9. base'[b] = [timer EXCEPT !.remaining = left, !.intseqnum = intSeqNum[b]]
  <2>1. base'[b] = [[timer EXCEPT !.remaining = left] EXCEPT !.intseqnum = intSeqNum[b]]
    BY <1>2 DEF Ticked
  <2> HIDE DEF left, timer
  <2>2. QED
    BY <1>1, <2>1
<1> HIDE DEF left, timer
<1>10. base'[b].msec = timer.msec /\ base'[b].remaining = left
  BY <1>1, <1>9
<1>11. base'[b] \in [msec : Timeouts, remaining : 0 .. WordMod - 1, intseqnum : 0 .. SeqMod - 1]
  BY <1>1, <1>8, <1>9
<1>12. Due(base'[b], ticks'[b])
  BY <1>7, <1>10 DEF Due
<1>13. QED
  BY <1>5, <1>7, <1>10, <1>11, <1>12 DEF timer

(* A timer that does not run keeps still.                                  *)
LEMMA Untimed ==
  ASSUME IInv, Tick
  PROVE  /\ \A r \in Rules \ Timed : individual'[r] = individual[r]
         /\ \A b \in Bases \ TimedBases : base'[b] = base[b]
         /\ \A i \in Items \ (Timed \cup TimedBases) : ticks'[i] = 0
         /\ DOMAIN individual' = Rules /\ individual' = [r \in Rules |-> individual'[r]]
         /\ DOMAIN base' = Bases /\ base' = [b \in Bases |-> base'[b]]
         /\ DOMAIN ticks' = Items /\ ticks' = [i \in Items |-> ticks'[i]]
<1>1. /\ \A r \in Rules \ Timed : individual'[r] = individual[r]
      /\ DOMAIN individual' = Rules /\ individual' = [r \in Rules |-> individual'[r]]
  BY DEF Tick, RecoveryProcess
<1>2. /\ \A b \in Bases \ TimedBases : base'[b] = base[b]
      /\ DOMAIN base' = Bases /\ base' = [b \in Bases |-> base'[b]]
  BY DEF Tick, RecoveryProcess
<1>3. /\ \A i \in Items \ (Timed \cup TimedBases) : ticks'[i] = 0
      /\ DOMAIN ticks' = Items /\ ticks' = [i \in Items |-> ticks'[i]]
  BY DEF Tick
<1>4. QED
  BY <1>1, <1>2, <1>3

(* The periodic work, for all items at once.                               *)
LEMMA TickKeeps ==
  ASSUME IInv, Tick
  PROVE  IInv'
<1>1. /\ takeAny' = takeAny
           \cup {r \in Timed : TimedOut(individual[r], r \in NoFrameReceived(Timed))}
           \cup {b \in TimedBases : TimedOut(base[b], Still(b))}
      /\ \/ Timed = {} /\ UNCHANGED <<register, cache>>
         \/ cache' = (cache \cup register) \ Timed /\ register' = {}
      /\ silent' = (silent \ Timed) \cup TimedBases
      /\ cycled' = FALSE
      /\ UNCHANGED <<intSeqNum, enabled, work, heard, sets>>
  BY DEF Tick, RecoveryProcess, TakeFlags
<1>2. TypeOK
  BY DEF IInv
<1>3. Timed \subseteq Rules /\ TimedBases \subseteq Bases
  BY DEF Timed, TimedBases
<1>4. ASSUME NEW r \in Rules
      PROVE  /\ individual'[r] \in [msec : Timeouts, remaining : 0 .. WordMod - 1]
             /\ Due(individual'[r], ticks'[r])
             /\ ticks'[r] \in 0 .. Longest
  <2>1. CASE r \in Timed
    BY <2>1, RuleTicked
  <2>2. CASE r \notin Timed
    <3>1. individual'[r] = individual[r] /\ ticks'[r] = 0
      <4>1. r \in Items \ (Timed \cup TimedBases)
        BY <1>3, <2>2, ItemsDiffer DEF Items
      <4>2. QED
        BY <2>2, <4>1, Untimed
    <3>2. individual[r] \in [msec : Timeouts, remaining : 0 .. WordMod - 1] /\ ~(individual[r].msec > 0)
      BY <1>2, <2>2 DEF TypeOK, Timed
    <3>3. QED
      BY <3>1, <3>2, LongestIs DEF Due
  <2>3. QED
    BY <2>1, <2>2
<1>5. ASSUME NEW b \in Bases
      PROVE  /\ base'[b] \in [msec : Timeouts, remaining : 0 .. WordMod - 1, intseqnum : 0 .. SeqMod - 1]
             /\ Due(base'[b], ticks'[b])
             /\ ticks'[b] \in 0 .. Longest
  <2>1. CASE b \in TimedBases
    BY <2>1, BaseTicked
  <2>2. CASE b \notin TimedBases
    <3>1. base'[b] = base[b] /\ ticks'[b] = 0
      <4>1. b \in Items \ (Timed \cup TimedBases)
        BY <1>3, <2>2, ItemsDiffer DEF Items
      <4>2. QED
        BY <2>2, <4>1, Untimed
    <3>2. /\ base[b] \in [msec : Timeouts, remaining : 0 .. WordMod - 1, intseqnum : 0 .. SeqMod - 1]
          /\ ~(base[b].msec > 0)
      BY <1>2, <2>2 DEF TypeOK, TimedBases
    <3>3. QED
      BY <3>1, <3>2, LongestIs DEF Due
  <2>3. QED
    BY <2>1, <2>2
<1>6. TypeOK'
  <2>1. individual' \in [Rules -> [msec : Timeouts, remaining : 0 .. WordMod - 1]]
    BY <1>4, Untimed
  <2>2. base' \in [Bases -> [msec : Timeouts, remaining : 0 .. WordMod - 1, intseqnum : 0 .. SeqMod - 1]]
    BY <1>5, Untimed
  <2>3. ticks' \in [Items -> 0 .. Longest]
    <3>1. \A i \in Items : ticks'[i] \in 0 .. Longest
      BY <1>4, <1>5 DEF Items
    <3>2. QED
      BY <3>1, Untimed
  <2>4. takeAny' \in SUBSET Items /\ silent' \in SUBSET Items
    BY <1>1, <1>2, <1>3 DEF TypeOK, Items
  <2>5. register' \in SUBSET Rules /\ cache' \in SUBSET Rules
    BY <1>1, <1>2 DEF TypeOK
  <2>6. /\ intSeqNum' \in [Bases -> 0 .. SeqMod - 1] /\ enabled' \in SUBSET Items
        /\ work' \in {"queued", "stopping", "cancelled", "gone"} /\ cycled' \in BOOLEAN
        /\ heard' \in SUBSET Items /\ sets' \in 0 .. MaxSets
    BY <1>1, <1>2 DEF TypeOK
  <2>7. QED
    BY <2>1, <2>2, <2>3, <2>4, <2>5, <2>6 DEF TypeOK
<1>7. FlagsSilent'
  BY <1>1 DEF IInv, FlagsSilent
<1>8. BasesSilent'
  <2>1. ASSUME NEW b \in Bases, base'[b].msec > 0, b \notin silent' PROVE FALSE
    <3>1. b \notin TimedBases
      BY <1>1, <2>1
    <3>2. base'[b] = base[b]
      BY <3>1, Untimed
    <3>3. QED
      BY <2>1, <3>1, <3>2 DEF TimedBases
  <2>2. QED
    BY <2>1 DEF BasesSilent
<1>9. TicksDue'
  BY <1>4, <1>5 DEF TicksDue, Due
<1>10. QED
  BY <1>6, <1>7, <1>8, <1>9 DEF IInv

(* recovery_exit().                                                        *)
LEMMA ExitKeeps ==
  ASSUME IInv, StopTick \/ CancelWork \/ ClearTimeouts
  PROVE  IInv'
<1>1. TypeOK
  BY DEF IInv
<1>2. CASE StopTick \/ CancelWork
  <2>1. /\ UNCHANGED <<register, cache, intSeqNum, takeAny, enabled, individual, base, cycled, heard, silent, ticks, sets>>
        /\ work' \in {"queued", "stopping", "cancelled", "gone"}
    BY <1>2 DEF StopTick, CancelWork, hardware, timers
  <2>2. TypeOK'
    BY <1>1, <2>1 DEF TypeOK
  <2>3. FlagsSilent' /\ BasesSilent'
    BY <2>1 DEF IInv, FlagsSilent, BasesSilent
  <2>4. TicksDue'
    BY <2>1, TimersKeep DEF IInv
  <2>5. QED
    BY <2>2, <2>3, <2>4 DEF IInv
<1>3. CASE ClearTimeouts
  <2>1. /\ work' = "gone" /\ enabled' = {}
        /\ cache' = (cache \cup register) \ Rules /\ register' = {}
        /\ individual' = [r \in Rules |-> [msec |-> 0, remaining |-> Ticks(0)]]
        /\ base' = [b \in Bases |-> [msec |-> 0, remaining |-> Ticks(0), intseqnum |-> 0]]
        /\ ticks' = [i \in Items |-> 0] /\ silent' = Bases
        /\ UNCHANGED <<intSeqNum, takeAny, cycled, heard, sets>>
    BY <1>3 DEF ClearTimeouts, TakeFlags
  <2>2. 0 \in Timeouts /\ Ticks(0) \in 0 .. WordMod - 1 /\ 0 \in 0 .. Longest /\ 0 \in 0 .. SeqMod - 1
    BY RecoveryAssumption, TicksAre, LongestIs
  <2>3. TypeOK'
    <3>1. individual' \in [Rules -> [msec : Timeouts, remaining : 0 .. WordMod - 1]]
      BY <2>1, <2>2
    <3>2. base' \in [Bases -> [msec : Timeouts, remaining : 0 .. WordMod - 1, intseqnum : 0 .. SeqMod - 1]]
      BY <2>1, <2>2
    <3>3. ticks' \in [Items -> 0 .. Longest] /\ silent' \in SUBSET Items /\ enabled' \in SUBSET Items
      BY <2>1, <2>2 DEF Items
    <3>4. register' \in SUBSET Rules /\ cache' \in SUBSET Rules
      BY <1>1, <2>1 DEF TypeOK
    <3>5. work' \in {"queued", "stopping", "cancelled", "gone"}
      BY <2>1
    <3>6. QED
      BY <1>1, <2>1, <3>1, <3>2, <3>3, <3>4, <3>5 DEF TypeOK
  <2>4. FlagsSilent'
    BY <1>1, <2>1 DEF FlagsSilent, TypeOK
  <2>5. BasesSilent'
    BY <2>1 DEF BasesSilent
  <2>6. TicksDue'
    BY <2>1 DEF TicksDue, Due
  <2>7. QED
    BY <2>3, <2>4, <2>5, <2>6 DEF IInv
<1>4. QED
  BY <1>2, <1>3

(* The invariant is inductive.                                             *)
LEMMA NextKeeps ==
  ASSUME IInv, [Next]_vars
  PROVE  IInv'
<1>1. CASE Next
  BY <1>1, CycleKeeps, DiagnosticsKeep, SetIndividualKeeps, SetBaseKeeps, TickKeeps, ExitKeeps DEF Next
<1>2. CASE UNCHANGED vars
  <2>1. UNCHANGED <<register, cache, intSeqNum, takeAny, enabled, individual, base, work, cycled,
                    heard, silent, ticks, sets>>
    BY <1>2 DEF vars
  <2>2. TypeOK'
    BY <2>1 DEF IInv, TypeOK
  <2>3. FlagsSilent' /\ BasesSilent'
    BY <2>1 DEF IInv, FlagsSilent, BasesSilent
  <2>4. TicksDue'
    BY <2>1, TimersKeep DEF IInv
  <2>5. QED
    BY <2>2, <2>3, <2>4 DEF IInv
<1>3. QED
  BY <1>1, <1>2

(* The timers of redundancy.c agree with what was heard, in every state.   *)
THEOREM InvariantHolds == Spec => []IInv
<1>1. Init => IInv
  BY InitIInv
<1>2. IInv /\ [Next]_vars => IInv'
  BY NextKeeps
<1>3. QED
  BY <1>1, <1>2, PTL DEF Spec

(* Every variable of the recovery has its type, the remaining ticks within *)
(* a word and the silent ones within what the longest timeout needs.       *)
THEOREM TypeCorrect == Spec => []TypeOK
<1>1. IInv => TypeOK
  BY DEF IInv
<1>2. QED
  BY <1>1, InvariantHolds, PTL

(* individual_recovery_process() and base_recovery_process(): a TAKE_ANY   *)
(* bit that a step sets was due, if the product of the timeout fits: the   *)
(* time that was set has passed in ticks that found the rule or the entry  *)
(* silent.                                                                 *)
THEOREM TimeoutsAreDue == Spec => TimeoutIsDue
<1> DEFINE Step == \A i \in takeAny' \ takeAny : Fits(Msec(i)) => Passed(i)
<1>1. ASSUME NEW t \in Timeouts, Fits(t), NEW n \in Nat, n >= Ticks(t)
      PROVE  n * MSEC_PER_SEC >= t * recovery_ticks_per_sec
  <2>1. MSEC_PER_SEC \in Nat /\ recovery_ticks_per_sec \in Nat
    BY RecoveryAssumption
  <2>2. PICK need \in Nat : need = t * recovery_ticks_per_sec
    BY <2>1, ProductIs
  <2>3. PICK e \in Nat : e = Ticks(t) * MSEC_PER_SEC
    BY <1>1, <2>1, TicksAre, ProductIs
  <2>4. PICK f \in Nat : f = n * MSEC_PER_SEC
    BY <2>1
  <2>5. f >= e
    <3>1. Ticks(t) \in Nat
      BY <1>1, TicksAre, ProductIs
    <3>2. QED
      BY <1>1, <2>1, <2>3, <2>4, <3>1, MoreTicks
  <2>6. e >= need
    BY <1>1, <2>2, <2>3, TicksAre
  <2>7. f >= need
    BY <2>5, <2>6
  <2>8. QED
    BY <2>2, <2>4, <2>7
<1>2. ASSUME IInv, Tick PROVE Step
  <2>1. ASSUME NEW i \in takeAny' \ takeAny, Fits(Msec(i))
        PROVE  Passed(i)
    <3>1. \/ i \in Timed /\ TimedOut(individual[i], i \in NoFrameReceived(Timed))
          \/ i \in TimedBases /\ TimedOut(base[i], Still(i))
      BY <1>2, <2>1 DEF Tick, RecoveryProcess
    <3>2. CASE i \in Timed /\ TimedOut(individual[i], i \in NoFrameReceived(Timed))
      <4>1. i \in Rules /\ Msec(i) = individual[i].msec /\ individual[i].msec \in Timeouts
        BY <1>2, <3>2 DEF Timed, Msec, IInv, TypeOK
      <4>2. ticks'[i] \in Nat /\ ticks'[i] >= Ticks(individual[i].msec)
        BY <1>2, <2>1, <3>2, <4>1, RuleTicked, LongestIs
      <4>3. QED
        BY <1>1, <2>1, <4>1, <4>2 DEF Passed
    <3>3. CASE i \in TimedBases /\ TimedOut(base[i], Still(i))
      <4>1. i \in Bases /\ Msec(i) = base[i].msec /\ base[i].msec \in Timeouts
        BY <1>2, <3>3, ItemsDiffer DEF TimedBases, Msec, IInv, TypeOK
      <4>2. ticks'[i] \in Nat /\ ticks'[i] >= Ticks(base[i].msec)
        BY <1>2, <2>1, <3>3, <4>1, BaseTicked, LongestIs
      <4>3. QED
        BY <1>1, <2>1, <4>1, <4>2 DEF Passed
    <3>4. QED
      BY <3>1, <3>2, <3>3
  <2>2. QED
    BY <2>1
<1>3. ASSUME Next, ~Tick PROVE Step
  <2>1. takeAny' \subseteq takeAny
    BY <1>3 DEF Next, Cycle, DiagnosticsUpdate, SetIndividual, SetBase, StopTick, CancelWork,
                ClearTimeouts, hardware
  <2>2. QED
    BY <2>1
<1> HIDE DEF Step
<1>4. IInv /\ [Next]_vars => [Step]_vars
  BY <1>2, <1>3
<1>5. [][Step]_vars => TimeoutIsDue
  BY PTL DEF TimeoutIsDue, Step
<1>6. QED
  BY <1>4, <1>5, InvariantHolds, PTL DEF Spec
=============================================================================
