--------------------------- MODULE TimestampProof ---------------------------
(***************************************************************************)
(* The comparison of timestamps is right for every size of the word, and   *)
(* for every two values that are at most a quarter of the word apart.      *)
(***************************************************************************)
EXTENDS Timestamp, TLAPS

(* The modulo of the word, for the sums that occur: no more than two words. *)
LEMMA WrapSum ==
  ASSUME NEW n \in 0 .. 2 * WordSize - 1
  PROVE  Wrap(n) = IF n < WordSize THEN n ELSE n - WordSize
  BY QuarterAssumption DEF Wrap, WordSize

(* The two top bits of a word say in which quarter it is.                   *)
LEMMA FlagBitsQuarter ==
  ASSUME NEW a \in Word
  PROVE  FlagBits(a) = IF a < Quarter THEN 0
                       ELSE IF a < 2 * Quarter THEN 1
                       ELSE IF a < 3 * Quarter THEN 2 ELSE 3
  BY QuarterAssumption DEF FlagBits, Word, WordSize

(* What is left of a number of words and a remainder is the remainder.      *)
LEMMA WrapRemainder ==
  ASSUME NEW q \in Int, NEW r \in Word
  PROVE  Wrap(WordSize * q + r) = r
  <1> DEFINE n == WordSize * q + r
             p == n \div WordSize
             k == q - p
  <1> USE DEF Word
  <1>1. WordSize \in Nat /\ WordSize > 0
    BY QuarterAssumption DEF WordSize
  <1>2. n \in Int /\ n = WordSize * q + r
    BY <1>1
  <1> HIDE DEF n
  <1>3. /\ p \in Int /\ n = WordSize * p + Wrap(n)
        /\ Wrap(n) \in Int /\ 0 <= Wrap(n) /\ Wrap(n) < WordSize
    BY <1>1, <1>2 DEF Wrap
  <1> HIDE DEF p
  <1>4. k \in Int /\ WordSize * k = WordSize * q - WordSize * p
    BY <1>1, <1>3
  <1> HIDE DEF k
  <1>5. WordSize * k = Wrap(n) - r
    <2>1. WordSize * q \in Int /\ WordSize * p \in Int
      BY <1>1, <1>3
    <2> QED
      BY ONLY <2>1, <1>2, <1>3, <1>4, r \in Int
  <1>6. k = 0
    <2>1. k >= 1 => WordSize * k >= WordSize
      BY <1>1, <1>4
    <2>2. k <= -1 => WordSize * k <= -WordSize
      BY <1>1, <1>4
    <2> QED
      BY <1>1, <1>3, <1>4, <1>5, <2>1, <2>2
  <1> QED
    BY <1>1, <1>3, <1>5, <1>6 DEF n

(* Counting one more and wrapping is wrapping, counting one more, and       *)
(* wrapping again.                                                          *)
LEMMA WrapNext ==
  ASSUME NEW n \in Nat
  PROVE  Wrap(n) \in Word /\ Wrap(n + 1) = Wrap(Wrap(n) + 1)
  <1> DEFINE q == n \div WordSize
             r == Wrap(n)
  <1>1. WordSize \in Nat /\ WordSize > 0
    BY QuarterAssumption DEF WordSize
  <1>2. q \in Int /\ r \in Word /\ n = WordSize * q + r
    BY <1>1 DEF Wrap, Word
  <1> HIDE DEF q, r
  <1>3. CASE r + 1 < WordSize
    <2>1. r + 1 \in Word
      BY <1>1, <1>2, <1>3 DEF Word
    <2>2. Wrap(WordSize * q + (r + 1)) = r + 1 /\ Wrap(WordSize * 0 + (r + 1)) = r + 1
      BY <1>2, <2>1, WrapRemainder
    <2>3. n + 1 = WordSize * q + (r + 1) /\ r + 1 = WordSize * 0 + (r + 1)
      BY <1>1, <1>2 DEF Word
    <2> QED
      BY <1>2, <2>2, <2>3 DEF r
  <1>4. CASE r + 1 = WordSize
    <2>1. 0 \in Word
      BY <1>1 DEF Word
    <2>2. Wrap(WordSize * (q + 1) + 0) = 0 /\ Wrap(WordSize * 1 + 0) = 0
      BY <1>2, <2>1, WrapRemainder
    <2>3. n + 1 = WordSize * (q + 1) + 0 /\ r + 1 = WordSize * 1 + 0
      BY <1>1, <1>2, <1>4 DEF Word
    <2> QED
      BY <1>2, <2>2, <2>3 DEF r
  <1> QED
    BY <1>1, <1>2, <1>3, <1>4 DEF r, Word

(* Comparing a word with one that is d increments later, d being at most a  *)
(* quarter of the word, gives their order, in both argument orders.         *)
THEOREM CompLater ==
  ASSUME NEW a \in Word, NEW d \in 1 .. Quarter
  PROVE  /\ Comp(a, Wrap(a + d)) = -1
         /\ Comp(Wrap(a + d), a) = 1
  <1> DEFINE b == Wrap(a + d)
  <1>1. /\ b = IF a + d < WordSize THEN a + d ELSE a + d - WordSize
        /\ b \in Word
    BY QuarterAssumption, WrapSum DEF Word, WordSize
  <1>2. FlagBits(b) = IF b < Quarter THEN 0
                       ELSE IF b < 2 * Quarter THEN 1
                       ELSE IF b < 3 * Quarter THEN 2 ELSE 3
    BY <1>1, FlagBitsQuarter
  <1>3. FlagBits(a) = IF a < Quarter THEN 0
                       ELSE IF a < 2 * Quarter THEN 1
                       ELSE IF a < 3 * Quarter THEN 2 ELSE 3
    BY FlagBitsQuarter
  <1> HIDE DEF b
  <1>4. a # b
    BY <1>1, QuarterAssumption DEF Word, WordSize
  <1>5. Comp(a, b) = -1
    BY <1>1, <1>2, <1>3, <1>4, QuarterAssumption DEF Comp, Word, WordSize
  <1>6. Comp(b, a) = 1
    BY <1>1, <1>2, <1>3, <1>4, QuarterAssumption DEF Comp, Word, WordSize
  <1> QED
    BY <1>5, <1>6 DEF b

(* ts is the sample incremented now - sampledAt times, while these are no   *)
(* more than a quarter of the word: TypeOK alone does not relate the two.   *)
Inductive ==
  /\ ts \in Word
  /\ sample \in Word
  /\ now \in Nat
  /\ sampledAt \in Nat
  /\ sampledAt <= now
  /\ now - sampledAt <= Quarter => ts = Wrap(sample + (now - sampledAt))

LEMMA InitInductive == Init => Inductive
  <1> SUFFICES ASSUME Init PROVE Inductive
    OBVIOUS
  <1>1. 0 \in Word /\ Wrap(0) = 0
    BY QuarterAssumption, WrapSum DEF Word, WordSize
  <1> QED
    BY <1>1 DEF Init, Inductive

LEMMA StepInductive == Inductive /\ [Next]_vars => Inductive'
  <1> SUFFICES ASSUME Inductive, [Next]_vars PROVE Inductive'
    OBVIOUS
  <1> USE QuarterAssumption DEF Inductive
  <1>1. CASE Inc
    <2>1. Wrap(ts + 1) = IF ts + 1 = WordSize THEN 0 ELSE ts + 1
      BY WrapSum DEF Word, WordSize
    <2>2. ts' \in Word
      BY <1>1, <2>1 DEF Inc, Word, WordSize
    <2>3. ASSUME now' - sampledAt' <= Quarter
          PROVE  ts' = Wrap(sample' + (now' - sampledAt'))
      <3> DEFINE d == now - sampledAt
      <3>1. d \in 0 .. Quarter - 1 /\ now' - sampledAt' = d + 1
        BY <1>1, <2>3 DEF Inc
      <3>2. ts = IF sample + d < WordSize THEN sample + d ELSE sample + d - WordSize
        BY <3>1, WrapSum DEF Word, WordSize
      <3>3. Wrap(sample + (d + 1)) =
              IF sample + (d + 1) < WordSize THEN sample + (d + 1)
              ELSE sample + (d + 1) - WordSize
        BY <3>1, WrapSum DEF Word, WordSize
      <3>4. sample' = sample /\ ts' = Wrap(ts + 1)
        BY <1>1 DEF Inc
      <3> HIDE DEF d
      <3> QED
        BY <2>1, <3>1, <3>2, <3>3, <3>4 DEF Word, WordSize
    <2> QED
      BY <1>1, <2>2, <2>3 DEF Inc
  <1>2. CASE Sample
    <2>1. Wrap(ts) = ts
      BY WrapSum DEF Word, WordSize
    <2> QED
      BY <1>2, <2>1 DEF Sample, Word, WordSize
  <1>3. CASE UNCHANGED vars
    BY <1>3 DEF vars
  <1> QED
    BY <1>1, <1>2, <1>3 DEF Next, IncEq

LEMMA InductiveCompares == Inductive => ComparesAsTaken
  <1> SUFFICES ASSUME Inductive, now - sampledAt <= Quarter
               PROVE  /\ Comp(sample, ts) = Sign(sampledAt - now)
                      /\ Comp(ts, sample) = Sign(now - sampledAt)
    BY DEF ComparesAsTaken
  <1> DEFINE d == now - sampledAt
  <1>1. d \in 0 .. Quarter /\ sampledAt - now = -d /\ ts = Wrap(sample + d)
    BY DEF Inductive
  <1>2. CASE d = 0
    <2>1. ts = sample
      BY <1>1, <1>2, WrapSum, QuarterAssumption DEF Inductive, Word, WordSize
    <2> QED
      BY <1>1, <1>2, <2>1 DEF Comp, Sign
  <1>3. CASE d \in 1 .. Quarter
    <2>1. Comp(sample, ts) = -1 /\ Comp(ts, sample) = 1
      BY <1>1, <1>3, CompLater DEF Inductive
    <2>2. Sign(sampledAt - now) = -1 /\ Sign(now - sampledAt) = 1
      BY <1>1, <1>3 DEF Sign, Inductive
    <2> QED
      BY <2>1, <2>2
  <1> QED
    BY <1>1, <1>2, <1>3

(* However often the timestamp is incremented and overflows, it compares    *)
(* with a sample as the two were taken, within a quarter of the word.       *)
THEOREM TimestampsCompare == Spec => []ComparesAsTaken
  <1>1. Init => Inductive
    BY InitInductive
  <1>2. Inductive /\ [Next]_vars => Inductive'
    BY StepInductive
  <1>3. Inductive => ComparesAsTaken
    BY InductiveCompares
  <1> QED
    BY <1>1, <1>2, <1>3, PTL DEF Spec
(* The words keep their type and count the increments modulo the word, for  *)
(* every word size and however often they overflow.                         *)
THEOREM TimestampTypes == Spec => []TypeOK
  <1> USE QuarterAssumption
  <1>1. Init => TypeOK
    <2> SUFFICES ASSUME Init PROVE TypeOK
      OBVIOUS
    <2>1. 0 \in Word /\ Wrap(0) = 0
      BY WrapSum DEF Word, WordSize
    <2> QED
      BY <2>1 DEF Init, TypeOK
  <1>2. TypeOK /\ [Next]_vars => TypeOK'
    <2> SUFFICES ASSUME TypeOK, [Next]_vars PROVE TypeOK'
      OBVIOUS
    <2> USE DEF TypeOK
    <2>1. CASE Inc
      <3>1. Wrap(now + 1) \in Word /\ Wrap(now + 1) = Wrap(ts + 1)
        BY WrapNext, now + 1 \in Nat
      <3> QED
        BY <2>1, <3>1 DEF Inc
    <2>2. CASE Sample
      BY <2>2 DEF Sample
    <2>3. CASE UNCHANGED vars
      BY <2>3 DEF vars
    <2> QED
      BY <2>1, <2>2, <2>3 DEF Next, IncEq
  <1> QED
    BY <1>1, <1>2, PTL DEF Spec
=============================================================================
