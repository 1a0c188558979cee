--------------------------- MODULE FlagWordProof ---------------------------
(***************************************************************************)
(* The flags and the masks of the dependency tracker are right for every   *)
(* width of a word and of the table of yarn_bit_log2, every size of the    *)
(* ring, and any number of epochs, from any epoch on.                      *)
(*                                                                         *)
(* Two hypotheses say what the code does not see to.  A ring that does not *)
(* divide the range of the epochs puts two live epochs in one slot at the  *)
(* overflow (Slotted; MCFlagWordRing), and dep_violation_check takes an    *)
(* overflow between two epochs for one that comes before the other         *)
(* (NoOverflow; MCFlagWordOverflow).                                       *)
(***************************************************************************)
EXTENDS FlagWord, FiniteSetTheorems, TLAPS

NoOverflow == Start + Span < WordSize
Slotted == NoOverflow \/ WordSize % Ring = 0

Slot(e) == e % Ring

-----------------------------------------------------------------------------
(* The arithmetic of words and slots.                                       *)

(* A build has one of four words, and a ring fits in half of one.           *)
LEMMA Widths ==
  /\ WordBits \in {8, 16, 32, 64}
  /\ PackShift \in {4, 8, 16, 32}
  /\ WordBits = 2 * PackShift
  /\ Ring \in Nat \ {0}
  /\ Ring <= PackShift
  BY TableBitsAssumption, WordBitsAssumption, RingAssumption DEF PackShift

(* The epochs have more values than the ring has slots.                     *)
LEMMA WordSizeType == WordSize \in Nat /\ Ring < WordSize
  <1>1. WordSize \in Int
    BY Widths DEF WordSize
  <1> QED
    BY <1>1, WordSizeAssumption, Widths

(* The division with remainder.                                             *)
LEMMA Division ==
  ASSUME NEW n \in Int, NEW m \in Nat \ {0}
  PROVE  /\ n \div m \in Int
         /\ n % m \in 0 .. m - 1
         /\ n = m * (n \div m) + (n % m)
  OBVIOUS

(* There is only one remainder.                                             *)
LEMMA Remainder ==
  ASSUME NEW m \in Nat \ {0}, NEW q \in Int, NEW r \in 0 .. m - 1
  PROVE  (m * q + r) % m = r
  <1> DEFINE n == m * q + r
             p == n \div m
             s == n % m
             k == q - p
  <1>1. n \in Int /\ n = m * q + r /\ m * q \in Int
    OBVIOUS
  <1> HIDE DEF n
  <1>2. p \in Int /\ n = m * p + s /\ s \in 0 .. m - 1 /\ m * p \in Int
    BY <1>1
  <1> HIDE DEF p, s
  <1>3. k \in Int /\ m * k = m * q - m * p
    BY <1>2
  <1> HIDE DEF k
  <1>4. m * k = s - r /\ m * k \in Int
    BY <1>1, <1>2, <1>3
  <1>5. k = 0
    <2>1. CASE k >= 1
      <3>1. m * k >= m
        BY <2>1, <1>3
      <3> QED
        BY ONLY <3>1, <1>4, <1>2, m \in Nat, r \in 0 .. m - 1
    <2>2. CASE k <= -1
      <3>1. m * k <= -m
        BY <2>2, <1>3
      <3> QED
        BY ONLY <3>1, <1>4, <1>2, m \in Nat, r \in 0 .. m - 1
    <2> QED
      BY <2>1, <2>2, <1>3
  <1>6. m * k = 0
    BY <1>5
  <1> QED
    BY ONLY <1>6, <1>4, <1>2, r \in 0 .. m - 1, m \in Nat, s = n % m, n = m * q + r DEF s, n

(* A number that is a word wraps to itself.                                 *)
LEMMA WrapSmall ==
  ASSUME NEW n \in 0 .. WordSize - 1
  PROVE  Wrap(n) = n
  <1>1. (WordSize * 0 + n) % WordSize = n
    BY Remainder, WordSizeType, 0 \in Int
  <1>2. WordSize * 0 + n = n
    BY WordSizeType
  <1> QED
    BY <1>1, <1>2 DEF Wrap

\* A wrapped number is a word.
LEMMA WrapType ==
  ASSUME NEW n \in Int
  PROVE  Wrap(n) \in 0 .. WordSize - 1
  <1>1. WordSize \in Nat \ {0}
    BY WordSizeType, Widths
  <1>2. n % WordSize \in 0 .. WordSize - 1
    BY <1>1, Division
  <1> QED
    BY <1>2 DEF Wrap

(* What is added to a word is added to the number it wraps.                 *)
LEMMA WrapAdd ==
  ASSUME NEW n \in Int, NEW d \in Int
  PROVE  Wrap(Wrap(n) + d) = Wrap(n + d)
  <1> DEFINE q == n \div WordSize
             p == (Wrap(n) + d) \div WordSize
             r == (Wrap(n) + d) % WordSize
  <1>1. WordSize \in Nat \ {0}
    BY WordSizeType, Widths
  <1>2. q \in Int /\ n = WordSize * q + Wrap(n) /\ Wrap(n) \in Int
    <2>1. Wrap(n) = n % WordSize
      BY DEF Wrap
    <2> QED
      BY <1>1, <2>1, Division
  <1>3. /\ p \in Int /\ r \in 0 .. WordSize - 1
        /\ Wrap(n) + d = WordSize * p + r
    <2>1. Wrap(n) + d \in Int
      BY <1>2
    <2> QED
      BY <1>1, <2>1, Division
  <1>4. r = Wrap(Wrap(n) + d)
    BY DEF Wrap
  <1> HIDE DEF q, p, r
  <1> DEFINE k == q + p
  <1>5. k \in Int /\ n + d = WordSize * k + r
    <2>1. WordSize * q \in Int /\ WordSize * p \in Int
      BY <1>1, <1>2, <1>3
    <2>2. WordSize * k = WordSize * q + WordSize * p
      BY <1>1, <1>2, <1>3
    <2>3. k \in Int /\ r \in Int
      BY <1>2, <1>3
    <2> HIDE DEF k
    <2> QED
      BY ONLY <1>1, <1>2, <1>3, <2>1, <2>2, <2>3, d \in Int, n \in Int
  <1> HIDE DEF k
  <1>6. (WordSize * k + r) % WordSize = r
    BY <1>1, <1>3, <1>5, Remainder
  <1> QED
    BY <1>4, <1>5, <1>6 DEF Wrap

(* The slot of a wrapped epoch is that of the epoch.                        *)
LEMMA SlotOfWrapped ==
  ASSUME Slotted, NEW e \in 0 .. Start + Span
  PROVE  BitIndex(Wrap(e), Ring) = Slot(e)
  <1>0. WordSize \in Nat \ {0} /\ Ring \in Nat \ {0} /\ e \in Int
    BY WordSizeType, Widths, StartAssumption
  <1>1. CASE NoOverflow
    <2>1. e \in 0 .. WordSize - 1
      BY <1>0, <1>1, StartAssumption DEF NoOverflow
    <2> QED
      BY <2>1, WrapSmall DEF BitIndex, Slot
  <1>2. CASE WordSize % Ring = 0
    <2> DEFINE d == WordSize \div Ring
               q == e \div WordSize
               r == e % WordSize
               p == r \div Ring
               s == r % Ring
               k == d * q + p
    <2>1. d \in Int /\ WordSize = Ring * d
      BY <1>0, <1>2, Division
    <2>2. q \in Int /\ r \in Int /\ e = WordSize * q + r
      BY <1>0, Division
    <2>3. p \in Int /\ s \in 0 .. Ring - 1 /\ r = Ring * p + s
      BY <1>0, <2>2, Division
    <2>4. s = BitIndex(Wrap(e), Ring)
      BY DEF BitIndex, Wrap
    <2> HIDE DEF d, q, r, p, s
    <2>5. k \in Int /\ e = Ring * k + s
      <3>1. d * q \in Int /\ Ring * (d * q) \in Int /\ Ring * p \in Int
        BY <1>0, <2>1, <2>2, <2>3
      <3>2. Ring * k = Ring * (d * q) + Ring * p
        BY <1>0, <3>1, <2>3
      <3>3. WordSize * q = Ring * (d * q)
        BY <1>0, <2>1, <2>2
      <3>4. k \in Int /\ s \in Int
        BY <3>1, <2>3
      <3> HIDE DEF k
      <3> QED
        BY ONLY <3>1, <3>2, <3>3, <3>4, <2>2, <2>3, <1>0
    <2> HIDE DEF k
    <2>6. (Ring * k + s) % Ring = s
      BY <1>0, <2>3, <2>5, Remainder
    <2> QED
      BY <2>4, <2>5, <2>6 DEF Slot
  <1> QED
    BY <1>1, <1>2 DEF Slotted

(* The slots of two epochs that are at most a ring apart.                   *)
LEMMA SlotOfLater ==
  ASSUME NEW b \in Nat, NEW d \in 0 .. Ring
  PROVE  /\ Slot(b) \in 0 .. Ring - 1
         /\ Slot(b + d) = IF Slot(b) + d < Ring THEN Slot(b) + d ELSE Slot(b) + d - Ring
  <1> DEFINE q == b \div Ring
             r == Slot(b)
             k == q + 1
  <1>1. Ring \in Nat \ {0}
    BY Widths
  <1>2. q \in Int /\ r \in 0 .. Ring - 1 /\ b = Ring * q + r
    BY <1>1, Division DEF Slot
  <1> HIDE DEF q, r
  <1>3. k \in Int /\ Ring * k = Ring * q + Ring /\ Ring * q \in Int
    BY <1>1, <1>2
  <1> HIDE DEF k
  <1>4. CASE r + d < Ring
    <2>1. (Ring * q + (r + d)) % Ring = r + d
      <3>1. r + d \in 0 .. Ring - 1
        BY <1>1, <1>2, <1>4
      <3> QED
        BY <1>1, <1>2, <3>1, Remainder
    <2>2. Ring * q + (r + d) = b + d
      BY ONLY <1>2, <1>3, b \in Nat, d \in 0 .. Ring, <1>1
    <2> QED
      BY <1>2, <1>4, <2>1, <2>2 DEF Slot, r
  <1>5. CASE ~(r + d < Ring)
    <2>1. (Ring * k + (r + d - Ring)) % Ring = r + d - Ring
      <3>1. r + d - Ring \in 0 .. Ring - 1
        BY <1>1, <1>2, <1>5
      <3> QED
        BY <1>1, <1>3, <3>1, Remainder
    <2>2. Ring * k + (r + d - Ring) = b + d
      BY ONLY <1>2, <1>3, b \in Nat, d \in 0 .. Ring, <1>1
    <2> QED
      BY <1>2, <1>5, <2>1, <2>2 DEF Slot, r
  <1> QED
    BY <1>4, <1>5


-----------------------------------------------------------------------------
(* The searches for a bit.                                                  *)

IsHighest(p, v) == p \in v /\ \A q \in v : q <= p
IsLowest(p, v) == p \in v /\ \A q \in v : p <= q

\* Highest chooses the highest.
LEMMA HighestIs ==
  ASSUME NEW v \in SUBSET Int, NEW p, IsHighest(p, v)
  PROVE  Highest(v) = p
  <1>1. \A q \in v : (\A r \in v : r <= q) <=> q = p
    BY DEF IsHighest
  <1> QED
    BY <1>1 DEF IsHighest, Highest

(* A set of naturals has a least element.                                   *)
LEMMA Smallest ==
  ASSUME NEW T, T \subseteq Nat, T # {}
  PROVE  \E x \in T : \A y \in T : x <= y
  <1> DEFINE B(n) == 0 .. n - 1
             F == {B(n) : n \in T}
  <1>1. F \subseteq FiniteSubsetsOf(Nat) /\ F # {}
    <2>1. \A n \in T : B(n) \in FiniteSubsetsOf(Nat)
      BY FS_Interval DEF FiniteSubsetsOf
    <2> QED
      BY <2>1
  <1>2. PICK X \in F : \A Y \in F : ~ (<<Y, X>> \in StrictSubsetOrdering(Nat))
    <2> HIDE DEF F
    <2> QED
      BY <1>1, FS_StrictSubsetOrderingWellFounded, WFMin
  <1>3. PICK n \in T : X = B(n)
    OBVIOUS
  <1>4. ASSUME NEW y \in T, y < n
        PROVE  FALSE
    <2>1. B(y) \in F
      OBVIOUS
    <2>2. B(y) \subseteq B(n) /\ y \in B(n) /\ y \notin B(y)
      BY <1>4
    <2>3. <<B(y), X>> \in StrictSubsetOrdering(Nat)
      BY <2>2, <1>3 DEF StrictSubsetOrdering
    <2> QED
      BY <1>2, <2>1, <2>3
  <1> QED
    BY <1>4

(* A bounded set of integers has a greatest element.                        *)
LEMMA Greatest ==
  ASSUME NEW T, T \subseteq Int, T # {}, NEW b \in Int, \A x \in T : x <= b
  PROVE  \E x \in T : \A y \in T : y <= x
  <1> DEFINE U == {b - x : x \in T}
  <1>1. U \subseteq Nat /\ U # {}
    <2>1. \A x \in T : b - x \in Nat
      OBVIOUS
    <2> QED
      BY <2>1
  <1>2. PICK m \in U : \A n \in U : m <= n
    <2> HIDE DEF U
    <2> QED
      BY <1>1, Smallest
  <1>3. PICK x \in T : m = b - x
    OBVIOUS
  <1>4. ASSUME NEW y \in T
        PROVE  y <= x
    <2>1. b - y \in U
      OBVIOUS
    <2>2. m <= b - y
      BY <1>2, <2>1
    <2> QED
      BY <1>3, <2>2
  <1> QED
    BY <1>4


(* Of a word that has a bit, the bits have a highest and a lowest.          *)
LEMMA Extremes ==
  ASSUME NEW v \in SUBSET Positions, v # {}
  PROVE  /\ \E p \in v : IsHighest(p, v)
         /\ \E p \in v : IsLowest(p, v)
  <1>1. v \subseteq Nat /\ v \subseteq Int /\ WordBits \in Int /\ \A p \in v : p <= WordBits
    BY Widths DEF Positions
  <1>2. \E p \in v : \A q \in v : q <= p
    BY <1>1, Greatest
  <1>3. \E p \in v : \A q \in v : p <= q
    BY <1>1, Smallest
  <1> QED
    BY <1>2, <1>3 DEF IsHighest, IsLowest

(* A shift to the right takes the extremes along.                           *)
LEMMA ShiftExtremes ==
  ASSUME NEW v \in SUBSET Nat, NEW k \in Nat, NEW p \in Nat
  PROVE  /\ ShiftRight(v, k) \in SUBSET Nat
         /\ IsHighest(p, v) /\ p >= k => IsHighest(p - k, ShiftRight(v, k))
         /\ IsHighest(p, v) => (ShiftRight(v, k) # {} <=> k <= p)
         /\ IsLowest(p, v) /\ p >= k => IsLowest(p - k, ShiftRight(v, k))
  BY DEF ShiftRight, IsHighest, IsLowest

(* yarn_bit_log2 finds the highest bit.                                     *)
LEMMA Log2Highest ==
  ASSUME NEW v \in SUBSET Positions, NEW p \in v, IsHighest(p, v)
  PROVE  Log2(v) = p
  <1> DEFINE width == 2 * TableBits
             tests == {k \in 1 .. WordBits \div width - 1 : ShiftRight(v, k * width) # {}}
             top == p \div width
             base == width * (IF tests = {} THEN 0 ELSE Highest(tests))
             tt == ShiftRight(v, base)
             t == ShiftRight(tt, TableBits)
  <1>1. v \in SUBSET Nat /\ p \in Nat /\ p < WordBits
    BY Widths DEF Positions
  <1>2. \A k \in 1 .. WordBits \div width - 1 : ShiftRight(v, k * width) # {} <=> k * width <= p
    <2> TAKE k \in 1 .. WordBits \div width - 1
    <2> DEFINE m == k * width
    <2>1. m \in Nat
      BY TableBitsAssumption
    <2> HIDE DEF m
    <2>2. ShiftRight(v, m) # {} <=> m <= p
      BY ONLY <1>1, <2>1, ShiftExtremes, IsHighest(p, v)
    <2> QED
      BY <2>2 DEF m
  <1>3. tests = 1 .. top
    <2>1. tests = {k \in 1 .. WordBits \div width - 1 : k * width <= p}
      BY <1>2
    <2>2. \A k \in Int : (k \in 1 .. WordBits \div width - 1 /\ k * width <= p) <=> k \in 1 .. top
      BY <1>1, TableBitsAssumption, WordBitsAssumption
    <2> QED
      BY <2>1, <2>2
  <1>4. base = width * top /\ top \in Nat
    <2>1. top \in Nat
      BY <1>1, TableBitsAssumption
    <2>2. CASE top = 0
      BY <2>2, <1>3, TableBitsAssumption
    <2>3. CASE top # 0
      <3> HIDE DEF top
      <3>1. IsHighest(top, 1 .. top) /\ 1 .. top # {} /\ 1 .. top \in SUBSET Int
        BY <2>1, <2>3 DEF IsHighest
      <3> QED
        BY <2>1, <3>1, <1>3, HighestIs
    <2> QED
      BY <2>1, <2>2, <2>3
  <1> HIDE DEF base
  <1>5. base \in Nat /\ base <= p /\ p < base + width
    BY <1>1, <1>4, TableBitsAssumption
  <1>6. tt \in SUBSET Nat /\ IsHighest(p - base, tt) /\ p - base \in Nat
    <2>1. p >= base /\ p - base \in Nat
      BY <1>1, <1>5
    <2>2. tt \in SUBSET Nat
      BY <1>1, <1>5, ShiftExtremes
    <2>3. IsHighest(p - base, tt)
      BY <1>1, <1>5, <2>1, ShiftExtremes
    <2> QED
      BY <2>1, <2>2, <2>3
  <1> HIDE DEF tt
  <1>7. TableBits \in Nat
    BY TableBitsAssumption
  <1>8. Log2(v) = IF t # {} THEN base + TableBits + LogTable(t) ELSE base + LogTable(tt)
    BY DEF Log2, base, tt
  <1>9. CASE p - base >= TableBits
    <2>1. t \in SUBSET Nat /\ IsHighest(p - base - TableBits, t)
      BY <1>6, <1>7, <1>9, ShiftExtremes
    <2> HIDE DEF t
    <2>2. t # {} /\ LogTable(t) = p - base - TableBits
      BY <2>1, HighestIs, Nat \subseteq Int DEF LogTable, IsHighest
    <2> QED
      BY <2>2, <1>8, <1>5, <1>1, <1>7
  <1>10. CASE p - base < TableBits
    <2>1. t = {}
      <3>1. ~(TableBits <= p - base)
        BY <1>6, <1>7, <1>10
      <3> QED
        BY <1>6, <1>7, <3>1, ShiftExtremes
    <2>2. tt # {} /\ LogTable(tt) = p - base
      BY <1>6, HighestIs, Nat \subseteq Int DEF LogTable, IsHighest
    <2> QED
      BY <2>1, <2>2, <1>8, <1>5, <1>1
  <1> QED
    BY <1>9, <1>10, <1>5, <1>1, <1>7

(* A step of yarn_bit_trailing_zeros halves the range of the lowest bit.    *)
LEMMA SkipLowest ==
  ASSUME NEW s, s.v \in SUBSET Nat, s.c \in Nat,
         NEW p \in Nat, IsLowest(p, s.v), p < WordBits,
         NEW g \in Nat \ {0}, p < 2 * g
  PROVE  \E q \in Nat : /\ Skip(s, g).v \in SUBSET Nat
                        /\ Skip(s, g).c \in Nat
                        /\ Skip(s, g).c + q = s.c + p
                        /\ IsLowest(q, Skip(s, g).v)
                        /\ q < WordBits
                        /\ q < g
  <1>0. WordBits \in Nat
    BY Widths
  <1>1. s.v \cap Below(g) = {} <=> p >= g
    BY DEF IsLowest, Below
  <1>2. CASE g < WordBits /\ p >= g
    <2>1. Skip(s, g) = [v |-> ShiftRight(s.v, g), c |-> s.c + g]
      BY <1>1, <1>2 DEF Skip
    <2>2. ShiftRight(s.v, g) \in SUBSET Nat /\ IsLowest(p - g, ShiftRight(s.v, g))
      BY <1>2, ShiftExtremes
    <2>3. p - g \in Nat /\ p - g < g /\ p - g < WordBits /\ s.c + g + (p - g) = s.c + p
      BY <1>0, <1>2
    <2> DEFINE q == p - g
    <2>4. /\ q \in Nat /\ q < g /\ q < WordBits
          /\ Skip(s, g).v \in SUBSET Nat /\ IsLowest(q, Skip(s, g).v)
          /\ Skip(s, g).c \in Nat /\ Skip(s, g).c + q = s.c + p
      BY <2>1, <2>2, <2>3
    <2> HIDE DEF q
    <2> QED
      BY <2>4
  <1>3. CASE ~(g < WordBits /\ p >= g)
    <2>1. Skip(s, g) = s
      BY <1>1, <1>3 DEF Skip
    <2>2. p < g
      BY <1>0, <1>3
    <2> WITNESS p \in Nat
    <2> QED
      BY <2>1, <2>2
  <1> QED
    BY <1>2, <1>3

(* yarn_bit_trailing_zeros finds the lowest bit.                            *)
LEMMA TrailingZerosLowest ==
  ASSUME NEW v \in SUBSET Positions, NEW p \in v, IsLowest(p, v)
  PROVE  TrailingZeros(v) = p
  <1> DEFINE a == [v |-> v, c |-> 1]
             s32 == Skip(a, 32)
             s16 == Skip(s32, 16)
             s8 == Skip(s16, 8)
             s4 == Skip(s8, 4)
             end == Skip(s4, 2)
  <1>1. /\ a.v \in SUBSET Nat /\ a.c = 1 /\ a.c \in Nat
        /\ p \in Nat /\ IsLowest(p, a.v) /\ p < WordBits /\ p < 2 * 32
    BY Widths DEF Positions
  <1> HIDE DEF a
  <1>2. PICK q32 \in Nat : /\ s32.v \in SUBSET Nat /\ s32.c \in Nat /\ s32.c + q32 = a.c + p
                           /\ IsLowest(q32, s32.v) /\ q32 < WordBits /\ q32 < 32
    BY <1>1, SkipLowest
  <1> HIDE DEF s32
  <1>3. PICK q16 \in Nat : /\ s16.v \in SUBSET Nat /\ s16.c \in Nat /\ s16.c + q16 = s32.c + q32
                           /\ IsLowest(q16, s16.v) /\ q16 < WordBits /\ q16 < 16
    <2>1. q32 < 2 * 16
      BY <1>2
    <2> QED
      BY <1>2, <2>1, SkipLowest
  <1> HIDE DEF s16
  <1>4. PICK q8 \in Nat : /\ s8.v \in SUBSET Nat /\ s8.c \in Nat /\ s8.c + q8 = s16.c + q16
                          /\ IsLowest(q8, s8.v) /\ q8 < WordBits /\ q8 < 8
    <2>1. q16 < 2 * 8
      BY <1>3
    <2> QED
      BY <1>3, <2>1, SkipLowest
  <1> HIDE DEF s8
  <1>5. PICK q4 \in Nat : /\ s4.v \in SUBSET Nat /\ s4.c \in Nat /\ s4.c + q4 = s8.c + q8
                          /\ IsLowest(q4, s4.v) /\ q4 < WordBits /\ q4 < 4
    <2>1. q8 < 2 * 4
      BY <1>4
    <2> QED
      BY <1>4, <2>1, SkipLowest
  <1> HIDE DEF s4
  <1>6. PICK q2 \in Nat : /\ end.v \in SUBSET Nat /\ end.c \in Nat /\ end.c + q2 = s4.c + q4
                          /\ IsLowest(q2, end.v) /\ q2 < 2
    <2>1. q4 < 2 * 2
      BY <1>5
    <2> QED
      BY <1>5, <2>1, SkipLowest
  <1>7. TrailingZeros(v) = IF 0 \in v THEN 0 ELSE IF 0 \in end.v THEN end.c - 1 ELSE end.c
    BY DEF TrailingZeros, a, s32, s16, s8, s4
  <1> HIDE DEF end
  <1>8. end.c + q2 = p + 1
    BY <1>1, <1>2, <1>3, <1>4, <1>5, <1>6
  <1>9. 0 \in v => p = 0
    BY <1>1 DEF IsLowest
  <1>10. p = 0 => 0 \in v
    OBVIOUS
  <1>11. 0 \in end.v <=> q2 = 0
    BY <1>6 DEF IsLowest
  <1> QED
    BY <1>6, <1>7, <1>8, <1>9, <1>10, <1>11, <1>1


-----------------------------------------------------------------------------
(* The flags of a record.                                                   *)

(* Two live epochs have two slots.                                          *)
LEMMA SlotsDiffer ==
  ASSUME NEW e \in Nat, NEW f \in Nat, e < f + Ring, f < e + Ring, Slot(e) = Slot(f)
  PROVE  e = f
  <1>0. Ring \in Nat \ {0}
    BY Widths
  <1>1. CASE e <= f
    <2>1. f - e \in 0 .. Ring /\ f - e < Ring /\ e + (f - e) = f
      BY <1>0, <1>1
    <2>2. /\ Slot(e) \in 0 .. Ring - 1
          /\ Slot(f) = IF Slot(e) + (f - e) < Ring THEN Slot(e) + (f - e)
                       ELSE Slot(e) + (f - e) - Ring
      BY <2>1, SlotOfLater
    <2> QED
      BY <1>0, <2>1, <2>2
  <1>2. CASE f <= e
    <2>1. e - f \in 0 .. Ring /\ e - f < Ring /\ f + (e - f) = e
      BY <1>0, <1>2
    <2>2. /\ Slot(f) \in 0 .. Ring - 1
          /\ Slot(e) = IF Slot(f) + (e - f) < Ring THEN Slot(f) + (e - f)
                       ELSE Slot(f) + (e - f) - Ring
      BY <2>1, SlotOfLater
    <2> QED
      BY <1>0, <2>1, <2>2
  <1> QED
    BY <1>1, <1>2

\* A slot is one of the ring.
LEMMA SlotType ==
  ASSUME NEW e \in Nat
  PROVE  Slot(e) \in 0 .. Ring - 1
  BY Widths, Division DEF Slot

Epochs == 0 .. Start + Span

\* The slots of a set of epochs, without the wrap.
LEMMA SlotsAre ==
  ASSUME Slotted, NEW S \in SUBSET Epochs
  PROVE  Slots(S) = {Slot(e) : e \in S} /\ Slots(S) \subseteq 0 .. Ring - 1
  <1>1. \A e \in S : BitIndex(Wrap(e), Ring) = Slot(e)
    BY SlotOfWrapped DEF Epochs
  <1>2. \A e \in S : Slot(e) \in 0 .. Ring - 1
    BY SlotType DEF Epochs
  <1> QED
    BY <1>1, <1>2 DEF Slots

\* One half of the word.
Half == 0 .. PackShift - 1

(* Unpacking takes apart what packing put together.                         *)
LEMMA PackUnpack ==
  ASSUME NEW a \in SUBSET Half, NEW b \in SUBSET Half
  PROVE  /\ Pack(a, b) \subseteq Positions
         /\ UnpackLow(Pack(a, b)) = a
         /\ UnpackHigh(Pack(a, b)) = b
  <1>0. PackShift \in Nat /\ WordBits = 2 * PackShift
    BY Widths
  <1>1. /\ \A p \in a : p \in Half
        /\ \A p \in b : p \in Half
        /\ \A p \in Half : p \in Int /\ 0 <= p /\ p < PackShift
    BY <1>0 DEF Half
  <1>2. ShiftLeft(b, PackShift) = {p + PackShift : p \in b}
    BY <1>0, <1>1 DEF ShiftLeft, Positions
  <1>3. \A x : x \in Pack(a, b) <=> x \in a \/ \E p \in b : x = p + PackShift
    BY <1>1, <1>2 DEF Pack, Below, Half
  <1>4. Pack(a, b) \subseteq Positions
    BY <1>0, <1>1, <1>3 DEF Positions
  <1>5. UnpackLow(Pack(a, b)) = a
    <2>1. \A x : x \in Pack(a, b) /\ x \in Half <=> x \in a
      BY <1>0, <1>1, <1>3
    <2> QED
      BY <2>1 DEF UnpackLow, Below, Half
  <1>6. UnpackHigh(Pack(a, b)) = b
    <2> DEFINE upper == {q \in Pack(a, b) : q >= PackShift}
    <2>1. \A x \in upper : x - PackShift \in b
      BY <1>0, <1>1, <1>3
    <2>2. \A p \in b : p + PackShift \in upper /\ p = (p + PackShift) - PackShift
      BY <1>0, <1>1, <1>3
    <2> HIDE DEF upper
    <2>3. {x - PackShift : x \in upper} = b
      BY <2>1, <2>2
    <2> QED
      BY <2>3 DEF UnpackHigh, ShiftRight, upper
  <1> QED
    BY <1>4, <1>5, <1>6

\* The halves of a word.
LEMMA UnpackType ==
  ASSUME NEW v \in SUBSET Positions
  PROVE  UnpackLow(v) \in SUBSET Half /\ UnpackHigh(v) \in SUBSET Half
  <1>0. PackShift \in Nat /\ WordBits = 2 * PackShift
    BY Widths
  <1> QED
    BY <1>0 DEF UnpackLow, UnpackHigh, ShiftRight, Below, Half, Positions

CursorsRight ==
  /\ lo \in Nat /\ hi \in Nat
  /\ Start <= lo /\ lo <= hi /\ hi <= Start + Span
  /\ hi - lo <= Ring
  /\ first = Wrap(lo) /\ last = Wrap(hi)

(* What an executor holds is of epochs that were in the ring together with  *)
(* its own, which is still in it.                                           *)
HeldRight ==
  doing # "nothing" =>
    /\ holder \in Live
    /\ held = Slots(heldBy)
    /\ heldBy \in SUBSET Epochs
    /\ \A f \in heldBy : f < lo + Ring /\ holder < f + Ring

Inductive == CursorsRight /\ FlagsExact /\ HeldRight

\* The live epochs fit in the ring.
LEMMA LiveEpochs ==
  ASSUME CursorsRight
  PROVE  /\ Live \subseteq Epochs /\ Live \subseteq Nat
         /\ \A e \in Live : e + 1 \in Epochs
         /\ \A e, f \in Live : e < f + Ring
  BY Widths, StartAssumption DEF CursorsRight, Live, Epochs

(* A flag that is set or cleared in a half is that of one live epoch.       *)
LEMMA FlagOne ==
  ASSUME Slotted, CursorsRight, NEW S \in SUBSET Live, NEW e \in Live
  PROVE  /\ BitMask(Wrap(e), Ring) = {Slot(e)}
         /\ {Slot(e)} \in SUBSET Half
         /\ Slots(S) \in SUBSET Half
         /\ Slots(S) \cup {Slot(e)} = Slots(S \cup {e})
         /\ Slots(S) \cap Complement({Slot(e)}) = Slots(S \ {e})
  <1>1. Live \subseteq Epochs /\ Live \subseteq Nat /\ \A f \in Live : e < f + Ring /\ f < e + Ring
    BY LiveEpochs
  <1>2. BitMask(Wrap(e), Ring) = {Slot(e)}
    BY <1>1, SlotOfWrapped DEF BitMask, Epochs
  <1>3. 0 .. Ring - 1 \subseteq Half /\ Half \subseteq Positions
    BY Widths DEF Half, Positions
  <1>4. Slot(e) \in Half
    BY <1>1, <1>3, SlotType
  <1>5. /\ Slots(S) = {Slot(f) : f \in S} /\ Slots(S) \subseteq Half
        /\ Slots(S \cup {e}) = {Slot(f) : f \in S \cup {e}}
        /\ Slots(S \ {e}) = {Slot(f) : f \in S \ {e}}
    <2>1. S \in SUBSET Epochs /\ S \cup {e} \in SUBSET Epochs /\ S \ {e} \in SUBSET Epochs
      BY <1>1
    <2> QED
      BY <2>1, <1>3, SlotsAre
  <1>6. \A f \in S : Slot(f) = Slot(e) => f = e
    BY <1>1, SlotsDiffer
  <1>7. Slots(S) \cap Complement({Slot(e)}) = Slots(S \ {e})
    BY <1>3, <1>5, <1>6 DEF Complement
  <1> QED
    BY <1>2, <1>4, <1>5, <1>7


\* The invariant holds at first.
LEMMA InitInductive ==
  ASSUME Init, Slotted
  PROVE  Inductive
  <1>1. CursorsRight
    BY Widths, StartAssumption DEF Init, CursorsRight
  <1>2. FlagsExact
    <2>1. Slots({}) = {}
      BY SlotsAre
    <2>2. UnpackLow({}) = {} /\ UnpackHigh({}) = {}
      BY DEF UnpackLow, UnpackHigh, ShiftRight
    <2> QED
      BY <2>1, <2>2 DEF Init, FlagsExact, Live
  <1>3. HeldRight
    BY DEF Init, HeldRight
  <1> QED
    BY <1>1, <1>2, <1>3 DEF Inductive

(* The flags follow the epochs that read and wrote.                         *)
LEMMA ReadSets ==
  ASSUME Slotted, Inductive, NEW e \in Live
  PROVE  /\ UnpackLow(flags) \cup BitMask(Wrap(e), Ring) = Slots(readBy \cup {e})
         /\ UnpackLow(flags) \cap Complement(BitMask(Wrap(e), Ring)) = Slots(readBy \ {e})
         /\ UnpackHigh(flags) \cup BitMask(Wrap(e), Ring) = Slots(wroteBy \cup {e})
         /\ UnpackHigh(flags) \cap Complement(BitMask(Wrap(e), Ring)) = Slots(wroteBy \ {e})
         /\ \A S \in SUBSET Live : Slots(S) \in SUBSET Half
  <1>1. /\ readBy \in SUBSET Live /\ wroteBy \in SUBSET Live
        /\ UnpackLow(flags) = Slots(readBy) /\ UnpackHigh(flags) = Slots(wroteBy)
        /\ CursorsRight
    BY DEF Inductive, FlagsExact
  <1>2. \A S \in SUBSET Live :
          /\ BitMask(Wrap(e), Ring) = {Slot(e)}
          /\ Slots(S) \in SUBSET Half
          /\ Slots(S) \cup {Slot(e)} = Slots(S \cup {e})
          /\ Slots(S) \cap Complement({Slot(e)}) = Slots(S \ {e})
    BY <1>1, FlagOne
  <1> QED
    BY <1>1, <1>2

(* clear_flags takes an epoch out of both halves, and of nothing else.      *)
LEMMA ClearExact ==
  ASSUME Slotted, Inductive, NEW e \in Live, Clear(e)
  PROVE  /\ flags' \subseteq Positions
         /\ readBy' = readBy \ {e} /\ wroteBy' = wroteBy \ {e}
         /\ UnpackLow(flags') = Slots(readBy')
         /\ UnpackHigh(flags') = Slots(wroteBy')
  <1>1. flags' = Pack(Slots(readBy'), Slots(wroteBy'))
    BY ReadSets DEF Clear, ClearFlags
  <1>2. readBy' \in SUBSET Live /\ wroteBy' \in SUBSET Live
    BY DEF Clear, Inductive, FlagsExact
  <1>3. Slots(readBy') \in SUBSET Half /\ Slots(wroteBy') \in SUBSET Half
    BY <1>2, ReadSets
  <1> QED
    BY <1>1, <1>3, PackUnpack DEF Clear

\* A new epoch changes no flag.
LEMMA BeginInductive ==
  ASSUME Slotted, Inductive, Begin
  PROVE  Inductive'
  <1>0. CursorsRight /\ Ring \in Nat
    BY Widths DEF Inductive
  <1>1. CursorsRight'
    <2>1. Wrap(last + 1) = Wrap(hi + 1)
      BY <1>0, WrapAdd DEF CursorsRight
    <2> QED
      BY <1>0, <2>1, StartAssumption DEF CursorsRight, Begin
  <1>2. FlagsExact'
    BY <1>0 DEF Inductive, FlagsExact, Begin, recordVars, Live, CursorsRight, Slots
  <1>3. HeldRight'
    BY <1>0 DEF Inductive, HeldRight, Begin, heldVars, Live, CursorsRight, Slots, Epochs
  <1> QED
    BY <1>1, <1>2, <1>3 DEF Inductive

\* A commit clears the flags of the first epoch, and leaves the ring with one less.
LEMMA CommitInductive ==
  ASSUME Slotted, Inductive, Commit
  PROVE  Inductive'
  <1>0. CursorsRight /\ Ring \in Nat /\ lo \in Live
    BY Widths DEF Inductive, CursorsRight, Commit, Live
  <1>1. CursorsRight'
    <2>1. Wrap(first + 1) = Wrap(lo + 1)
      BY <1>0, WrapAdd DEF CursorsRight
    <2> QED
      BY <1>0, <2>1, StartAssumption DEF CursorsRight, Commit
  <1>2. FlagsExact'
    <2>1. /\ flags' \subseteq Positions
          /\ readBy' = readBy \ {lo} /\ wroteBy' = wroteBy \ {lo}
          /\ UnpackLow(flags') = Slots(readBy')
          /\ UnpackHigh(flags') = Slots(wroteBy')
      BY <1>0, ClearExact DEF Commit
    <2>2. Live' = Live \ {lo}
      BY <1>0 DEF Live, Commit, CursorsRight
    <2> QED
      BY <2>1, <2>2 DEF FlagsExact, Slots, Inductive
  <1>3. HeldRight'
    <2> SUFFICES ASSUME doing # "nothing"
                 PROVE  /\ holder \in Live'
                        /\ held = Slots(heldBy)
                        /\ heldBy \in SUBSET Epochs
                        /\ \A f \in heldBy : f < lo' + Ring /\ holder < f + Ring
      BY DEF HeldRight, Commit, heldVars, Slots
    <2>1. /\ holder \in Live /\ holder # lo
          /\ held = Slots(heldBy)
          /\ heldBy \in SUBSET Epochs
          /\ \A f \in heldBy : f < lo + Ring /\ holder < f + Ring
      BY DEF Inductive, HeldRight, Commit
    <2>2. Live' = Live \ {lo} /\ lo' = lo + 1
      BY <1>0 DEF Live, Commit, CursorsRight
    <2>3. \A f \in heldBy : f \in Int /\ lo \in Int
      BY <2>1, <1>0, StartAssumption DEF Epochs, CursorsRight
    <2> QED
      BY <1>0, <2>1, <2>2, <2>3
  <1> QED
    BY <1>1, <1>2, <1>3 DEF Inductive

\* A rollback clears the flags of an epoch, which stays in the ring.
LEMMA UndoInductive ==
  ASSUME Slotted, Inductive, NEW e \in Live, Undo(e)
  PROVE  Inductive'
  <1>0. CursorsRight
    BY DEF Inductive
  <1>1. CursorsRight'
    BY <1>0 DEF CursorsRight, Undo, cursorVars
  <1>2. FlagsExact'
    <2>1. /\ flags' \subseteq Positions
          /\ readBy' = readBy \ {e} /\ wroteBy' = wroteBy \ {e}
          /\ UnpackLow(flags') = Slots(readBy')
          /\ UnpackHigh(flags') = Slots(wroteBy')
      BY ClearExact DEF Undo
    <2> QED
      BY <2>1 DEF FlagsExact, Slots, Inductive, Live, Undo, cursorVars
  <1>3. HeldRight'
    <2>1. CASE holder = e
      BY <2>1 DEF HeldRight, Undo, Release
    <2>2. CASE holder # e
      BY <2>2 DEF HeldRight, Undo, heldVars, cursorVars, Inductive, Live, Slots
    <2> QED
      BY <2>1, <2>2
  <1> QED
    BY <1>1, <1>2, <1>3 DEF Inductive

\* An executor sets its flag and takes those of the other kind.
LEMMA SetInductive ==
  ASSUME Slotted, Inductive, NEW e \in Live, SetReadFlag(e) \/ SetWriteFlag(e)
  PROVE  Inductive'
  <1>0. /\ CursorsRight
        /\ readBy \in SUBSET Live /\ wroteBy \in SUBSET Live
        /\ UnpackLow(flags) = Slots(readBy) /\ UnpackHigh(flags) = Slots(wroteBy)
    BY DEF Inductive, FlagsExact
  <1>1. CursorsRight'
    BY <1>0 DEF CursorsRight, SetReadFlag, SetWriteFlag, cursorVars
  <1>2. readBy' \in SUBSET Live /\ wroteBy' \in SUBSET Live
    BY <1>0 DEF SetReadFlag, SetWriteFlag
  <1>3. flags' = Pack(Slots(readBy'), Slots(wroteBy'))
    <2>1. CASE SetReadFlag(e)
      BY <1>0, <2>1, ReadSets DEF SetReadFlag
    <2>2. CASE SetWriteFlag(e)
      BY <1>0, <2>2, ReadSets DEF SetWriteFlag
    <2> QED
      BY <2>1, <2>2
  <1>4. /\ flags' \subseteq Positions
        /\ UnpackLow(flags') = Slots(readBy')
        /\ UnpackHigh(flags') = Slots(wroteBy')
    <2>1. Slots(readBy') \in SUBSET Half /\ Slots(wroteBy') \in SUBSET Half
      BY <1>2, ReadSets
    <2> QED
      BY <1>3, <2>1, PackUnpack
  <1>5. FlagsExact'
    BY <1>2, <1>4 DEF FlagsExact, Slots, Live, SetReadFlag, SetWriteFlag, cursorVars
  <1>6. HeldRight'
    <2>1. holder' = e /\ held' = Slots(heldBy') /\ heldBy' \in SUBSET Live
      <3>1. CASE SetReadFlag(e)
        BY <3>1, <1>0, <1>4 DEF SetReadFlag
      <3>2. CASE SetWriteFlag(e)
        BY <3>2, <1>0, <1>4 DEF SetWriteFlag
      <3> QED
        BY <3>1, <3>2
    <2>2. \A f \in heldBy' : f < lo + Ring /\ e < f + Ring
      BY <1>0, <2>1, LiveEpochs, Widths DEF Live, CursorsRight
    <2>3. heldBy' \in SUBSET Epochs
      BY <1>0, <2>1, LiveEpochs
    <2>4. Live' = Live /\ lo' = lo
      BY DEF Live, SetReadFlag, SetWriteFlag, cursorVars
    <2> QED
      BY <2>1, <2>2, <2>3, <2>4 DEF HeldRight, Slots
  <1> QED
    BY <1>1, <1>5, <1>6 DEF Inductive

\* The invariant holds throughout.
LEMMA Invariant ==
  ASSUME Slotted
  PROVE  Spec => []Inductive
  <1>1. Init => Inductive
    BY InitInductive
  <1>2. Inductive /\ [Next]_vars => Inductive'
    <2> SUFFICES ASSUME Inductive, [Next]_vars
                 PROVE  Inductive'
      OBVIOUS
    <2>1. CASE Begin
      BY <2>1, BeginInductive
    <2>2. CASE Commit
      BY <2>2, CommitInductive
    <2>3. ASSUME NEW e \in Live, Undo(e) \/ SetReadFlag(e) \/ SetWriteFlag(e)
          PROVE  Inductive'
      BY <2>3, UndoInductive, SetInductive
    <2>4. CASE UNCHANGED vars
      BY <2>4 DEF Inductive, CursorsRight, FlagsExact, HeldRight, Live, Slots, vars,
                  cursorVars, recordVars, heldVars
    <2> QED
      BY <2>1, <2>2, <2>3, <2>4 DEF Next
  <1> QED
    BY <1>1, <1>2, PTL DEF Spec

(* The packed word holds exactly the flags of the live epochs, for every    *)
(* ring whose epochs keep to their slots.                                   *)
THEOREM FlagsAreExact ==
  ASSUME Slotted
  PROVE  Spec => []FlagsExact
  <1>1. Inductive => FlagsExact
    BY DEF Inductive
  <1> QED
    BY <1>1, Invariant, PTL


-----------------------------------------------------------------------------
(* The choice of an epoch.                                                  *)

(* Which bits a mask has: those from one index to the one before the other, *)
(* around the end of the word when the first is above the second.           *)
LEMMA RangeMember ==
  ASSUME NEW x \in Nat, NEW y \in Nat, NEW a \in Nat, NEW b \in Nat,
         BitIndex(x, Ring) = a, BitIndex(y, Ring) = b,
         NEW p \in Positions
  PROVE  /\ a < b => (p \in BitMaskRange(x, y, Ring) <=> a <= p /\ p < b)
         /\ b < a => (p \in BitMaskRange(x, y, Ring) <=> p < b \/ a <= p)
         /\ a = b => (p \in BitMaskRange(x, y, Ring) <=> x < y)
  <1>1. p \in Nat
    BY Widths DEF Positions
  <1>2. p \in Xor(Below(a), Below(b)) <=> (p < a <=> ~(p < b))
    BY <1>1 DEF Xor, Below
  <1>3. p \in Complement(Xor(Below(a), Below(b))) <=> (p < a <=> p < b)
    BY <1>2 DEF Complement
  <1>4. BitMaskRange(x, y, Ring) = IF (IF a # b THEN a < b ELSE x >= y)
                                   THEN Xor(Below(a), Below(b))
                                   ELSE Complement(Xor(Below(a), Below(b)))
    BY DEF BitMaskRange
  <1> QED
    BY <1>1, <1>2, <1>3, <1>4

(* The three masks, for indexes of the ring.                                *)
LEMMA Masks ==
  ASSUME NEW m \in SUBSET (0 .. Ring - 1), NEW a \in Nat, NEW b \in Nat
  PROVE  /\ Slot(a) < Slot(b) =>
              m \cap BitMaskRange(a, b, Ring) = {p \in m : Slot(a) <= p /\ p < Slot(b)}
         /\ m \cap BitMaskRange(Slot(a), Ring, Ring) = {p \in m : Slot(a) <= p}
         /\ m \cap BitMaskRange(0, Slot(b), Ring) = {p \in m : p < Slot(b)}
  <1>0. /\ Ring \in Nat \ {0}
        /\ Slot(a) \in 0 .. Ring - 1 /\ Slot(b) \in 0 .. Ring - 1
        /\ \A p \in m : p \in Int /\ 0 <= p /\ p < Ring /\ p \in Positions
    BY Widths, SlotType DEF Positions
  <1>1. /\ \A i \in 0 .. Ring - 1 : BitIndex(i, Ring) = i
        /\ BitIndex(Ring, Ring) = 0
        /\ BitIndex(a, Ring) = Slot(a) /\ BitIndex(b, Ring) = Slot(b)
    <2>1. \A i \in 0 .. Ring - 1 : (Ring * 0 + i) % Ring = i /\ Ring * 0 + i = i
      BY <1>0, Remainder, 0 \in Int
    <2>2. (Ring * 1 + 0) % Ring = 0 /\ Ring * 1 + 0 = Ring
      BY <1>0, Remainder, 1 \in Int, 0 \in 0 .. Ring - 1
    <2> QED
      BY <2>1, <2>2 DEF BitIndex, Slot
  <1>2. Slot(a) < Slot(b) =>
          m \cap BitMaskRange(a, b, Ring) = {p \in m : Slot(a) <= p /\ p < Slot(b)}
    <2> SUFFICES ASSUME Slot(a) < Slot(b), NEW p \in m
                 PROVE  p \in BitMaskRange(a, b, Ring) <=> Slot(a) <= p /\ p < Slot(b)
      OBVIOUS
    <2>1. Slot(a) \in Nat /\ Slot(b) \in Nat
      BY <1>0
    <2> QED
      BY <1>0, <1>1, <2>1, RangeMember
  <1>3. m \cap BitMaskRange(Slot(a), Ring, Ring) = {p \in m : Slot(a) <= p}
    <2> SUFFICES ASSUME NEW p \in m
                 PROVE  p \in BitMaskRange(Slot(a), Ring, Ring) <=> Slot(a) <= p
      OBVIOUS
    <2>1. Slot(a) \in Nat /\ Ring \in Nat /\ 0 \in Nat /\ BitIndex(Slot(a), Ring) = Slot(a)
      BY <1>0, <1>1
    <2>2. /\ 0 < Slot(a) =>
               (p \in BitMaskRange(Slot(a), Ring, Ring) <=> p < 0 \/ Slot(a) <= p)
          /\ Slot(a) = 0 => (p \in BitMaskRange(Slot(a), Ring, Ring) <=> Slot(a) < Ring)
      BY <1>0, <1>1, <2>1, RangeMember
    <2> QED
      BY <1>0, <2>2
  <1>4. m \cap BitMaskRange(0, Slot(b), Ring) = {p \in m : p < Slot(b)}
    <2> SUFFICES ASSUME NEW p \in m
                 PROVE  p \in BitMaskRange(0, Slot(b), Ring) <=> p < Slot(b)
      OBVIOUS
    <2>1. Slot(b) \in Nat /\ 0 \in Nat /\ BitIndex(Slot(b), Ring) = Slot(b) /\ BitIndex(0, Ring) = 0
      BY <1>0, <1>1
    <2>2. /\ 0 < Slot(b) =>
               (p \in BitMaskRange(0, Slot(b), Ring) <=> 0 <= p /\ p < Slot(b))
          /\ 0 = Slot(b) => (p \in BitMaskRange(0, Slot(b), Ring) <=> 0 < Slot(b))
      BY <1>0, <2>1, RangeMember
    <2> QED
      BY <1>0, <2>2
  <1> QED
    BY <1>2, <1>3, <1>4

\* The epoch before a base that an index stands for.
LEMMA IndexBefore ==
  ASSUME Slotted, NEW b \in Epochs, NEW d \in 0 .. Ring - 1, d <= b
  PROVE  IndexToEpochBefore(Wrap(b), Slot(b - d)) = Wrap(b - d)
  <1>0. Ring \in Nat \ {0} /\ b \in Nat /\ b - d \in Nat /\ Slot(b) \in 0 .. Ring - 1
    BY Widths, StartAssumption, SlotType DEF Epochs
  <1>1. BitIndex(Wrap(b), Ring) = Slot(b)
    BY SlotOfWrapped DEF Epochs
  <1>2. /\ Slot(b - d) \in 0 .. Ring - 1
        /\ Slot(b) = IF Slot(b - d) + d < Ring THEN Slot(b - d) + d
                     ELSE Slot(b - d) + d - Ring
    <2>1. (b - d) + d = b /\ d \in 0 .. Ring
      BY <1>0
    <2> QED
      BY <1>0, <2>1, SlotOfLater
  <1>3. Wrap(b) \in Int /\ Wrap(Wrap(b) + (-d)) = Wrap(b + (-d)) /\ b + (-d) = b - d
    BY <1>0, WrapAdd, WrapType
  <1>4. CASE Slot(b) >= Slot(b - d)
    <2>1. Wrap(b) - (Slot(b) - Slot(b - d)) = Wrap(b) + (-d)
      BY <1>0, <1>2, <1>3, <1>4
    <2> QED
      BY <1>1, <1>3, <1>4, <2>1 DEF IndexToEpochBefore
  <1>5. CASE ~(Slot(b) >= Slot(b - d))
    <2>1. Wrap(b) - Slot(b) - (Ring - Slot(b - d)) = Wrap(b) + (-d)
      BY <1>0, <1>2, <1>3, <1>5
    <2> QED
      BY <1>1, <1>3, <1>5, <2>1 DEF IndexToEpochBefore
  <1> QED
    BY <1>4, <1>5

\* The epoch after a base that an index stands for.
LEMMA IndexAfter ==
  ASSUME Slotted, NEW b \in Epochs, NEW d \in 1 .. Ring - 1
  PROVE  IndexToEpochAfter(Wrap(b), Slot(b + d)) = Wrap(b + d)
  <1>0. Ring \in Nat \ {0} /\ b \in Nat /\ Slot(b) \in 0 .. Ring - 1
    BY Widths, StartAssumption, SlotType DEF Epochs
  <1>1. BitIndex(Wrap(b), Ring) = Slot(b)
    BY SlotOfWrapped DEF Epochs
  <1>2. Slot(b + d) = IF Slot(b) + d < Ring THEN Slot(b) + d ELSE Slot(b) + d - Ring
    BY <1>0, SlotOfLater
  <1>3. Wrap(b) \in Int /\ Wrap(Wrap(b) + d) = Wrap(b + d)
    BY <1>0, WrapAdd, WrapType
  <1>4. CASE Slot(b) <= Slot(b + d)
    <2>1. Wrap(b) + (Slot(b + d) - Slot(b)) = Wrap(b) + d
      BY <1>0, <1>2, <1>3, <1>4
    <2> QED
      BY <1>1, <1>3, <1>4, <2>1 DEF IndexToEpochAfter
  <1>5. CASE ~(Slot(b) <= Slot(b + d))
    <2>1. Wrap(b) + (Ring - Slot(b)) + Slot(b + d) = Wrap(b) + d
      BY <1>0, <1>2, <1>3, <1>5
    <2> QED
      BY <1>1, <1>3, <1>5, <2>1 DEF IndexToEpochAfter
  <1> QED
    BY <1>4, <1>5


(* Which of the bits s belong to the n epochs from b on.                    *)
Direct(s, b, n) == {p \in s : Slot(b) <= p /\ p < Slot(b + n)}
Upper(s, b) == {p \in s : Slot(b) <= p}
Lower(s, b, n) == {p \in s : p < Slot(b + n)}
Wanted(s, b, n) == {e \in b .. b + n - 1 : Slot(e) \in s}

OneRun(s, b, n) ==
  /\ \A e \in Wanted(s, b, n) : Slot(e) \in Direct(s, b, n) /\ Slot(e) = Slot(b) + (e - b)
  /\ \A p \in Direct(s, b, n) : \E e \in Wanted(s, b, n) : Slot(e) = p

TwoRuns(s, b, n) ==
  /\ \A e \in Wanted(s, b, n) :
       /\ e - b < Ring - Slot(b) => Slot(e) \in Upper(s, b) /\ Slot(e) = Slot(b) + (e - b)
       /\ ~(e - b < Ring - Slot(b)) =>
            Slot(e) \in Lower(s, b, n) /\ Slot(e) = Slot(b) + (e - b) - Ring
  /\ \A p \in Upper(s, b) :
       \E e \in Wanted(s, b, n) : Slot(e) = p /\ e - b < Ring - Slot(b)
  /\ \A p \in Lower(s, b, n) :
       \E e \in Wanted(s, b, n) : Slot(e) = p /\ ~(e - b < Ring - Slot(b))

(* The slots of these epochs go up, from the slot of b to the end of the    *)
(* ring and then, if the ring wraps among them, from its begin.             *)
LEMMA Window ==
  ASSUME NEW s \in SUBSET (0 .. Ring - 1), NEW b \in Nat, NEW n \in 1 .. Ring
  PROVE  /\ Slot(b) < Slot(b + n) => OneRun(s, b, n)
         /\ ~(Slot(b) < Slot(b + n)) => TwoRuns(s, b, n)
  <1> DEFINE l == Slot(b)
             u == Slot(b + n)
  <1>1. /\ Ring \in Nat \ {0} /\ l \in 0 .. Ring - 1 /\ u \in 0 .. Ring - 1
        /\ u = IF l + n < Ring THEN l + n ELSE l + n - Ring
    <2>1. Ring \in Nat \ {0} /\ n \in 0 .. Ring /\ b + n \in Nat
      BY Widths
    <2> QED
      BY <2>1, SlotType, SlotOfLater
  <1>2. \A e \in b .. b + n - 1 :
          /\ e \in Int
          /\ Slot(e) = IF l + (e - b) < Ring THEN l + (e - b) ELSE l + (e - b) - Ring
    <2> TAKE e \in b .. b + n - 1
    <2>1. e - b \in 0 .. Ring /\ b + (e - b) = e
      BY <1>1
    <2> QED
      BY <2>1, SlotOfLater
  <1> HIDE DEF l, u
  <1>3. \A p \in s : p \in Int /\ 0 <= p /\ p < Ring
    BY <1>1
  <1>4. \A p \in s : /\ b + (p - l) \in b .. b + n - 1 /\ l <= p =>
                          b + (p - l) \in Wanted(s, b, n) /\ Slot(b + (p - l)) = p
                     /\ b + (p + Ring - l) \in b .. b + n - 1 /\ p < l =>
                          b + (p + Ring - l) \in Wanted(s, b, n) /\ Slot(b + (p + Ring - l)) = p
    <2> TAKE p \in s
    <2>1. b + (p - l) \in b .. b + n - 1 /\ l <= p => Slot(b + (p - l)) = p
      BY <1>1, <1>2, <1>3
    <2>2. b + (p + Ring - l) \in b .. b + n - 1 /\ p < l => Slot(b + (p + Ring - l)) = p
      BY <1>1, <1>2, <1>3
    <2> QED
      BY <2>1, <2>2 DEF Wanted
  <1>5. CASE l < u
    <2>1. u = l + n
      BY <1>1, <1>5
    <2>2. \A e \in Wanted(s, b, n) : Slot(e) \in Direct(s, b, n) /\ Slot(e) = l + (e - b)
      BY <1>1, <1>2, <2>1 DEF Wanted, Direct, l, u
    <2>3. ASSUME NEW p \in Direct(s, b, n)
          PROVE  \E e \in Wanted(s, b, n) : Slot(e) = p
      <3>1. p \in s /\ l <= p /\ p < u
        BY DEF Direct, l, u
      <3>2. b + (p - l) \in b .. b + n - 1
        BY <1>1, <1>3, <2>1, <3>1
      <3> QED
        BY <1>4, <3>1, <3>2
    <2> QED
      BY <1>5, <2>2, <2>3 DEF l, u, OneRun
  <1>6. CASE ~(l < u)
    <2>1. u = l + n - Ring /\ l + n >= Ring
      BY <1>1, <1>6
    <2>2. ASSUME NEW e \in Wanted(s, b, n)
          PROVE  /\ e - b < Ring - l => Slot(e) \in Upper(s, b) /\ Slot(e) = l + (e - b)
                 /\ ~(e - b < Ring - l) =>
                      Slot(e) \in Lower(s, b, n) /\ Slot(e) = l + (e - b) - Ring
      <3>1. e \in b .. b + n - 1 /\ Slot(e) \in s
        BY DEF Wanted
      <3>2. CASE e - b < Ring - l
        BY <1>1, <1>2, <3>1, <3>2 DEF Upper, l
      <3>3. CASE ~(e - b < Ring - l)
        BY <1>1, <1>2, <2>1, <3>1, <3>3 DEF Lower, u
      <3> QED
        BY <3>2, <3>3
    <2>3. ASSUME NEW p \in Upper(s, b)
          PROVE  \E e \in Wanted(s, b, n) : Slot(e) = p /\ e - b < Ring - l
      <3>1. p \in s /\ l <= p
        BY DEF Upper, l
      <3>2. b + (p - l) \in b .. b + n - 1 /\ (b + (p - l)) - b < Ring - l
        BY <1>1, <1>3, <2>1, <3>1
      <3> QED
        BY <1>4, <3>1, <3>2
    <2>4. ASSUME NEW p \in Lower(s, b, n)
          PROVE  \E e \in Wanted(s, b, n) : Slot(e) = p /\ ~(e - b < Ring - l)
      <3>1. p \in s /\ p < u
        BY DEF Lower, u
      <3>2. /\ b + (p + Ring - l) \in b .. b + n - 1 /\ p < l
            /\ ~((b + (p + Ring - l)) - b < Ring - l)
        BY <1>1, <1>3, <2>1, <3>1
      <3> QED
        BY <1>4, <3>1, <3>2
    <2> QED
      BY <1>6, <2>2, <2>3, <2>4 DEF l, u, TwoRuns
  <1> QED
    BY <1>5, <1>6

(* The latest wanted epoch has the highest of the bits that a load looks at *)
(* first, those below the slot after its own.                               *)
LEMMA Latest ==
  ASSUME NEW s \in SUBSET (0 .. Ring - 1), NEW b \in Nat, NEW n \in 1 .. Ring,
         NEW masked,
         masked = IF Slot(b) < Slot(b + n) THEN Direct(s, b, n)
                  ELSE IF Lower(s, b, n) # {} THEN Lower(s, b, n) ELSE Upper(s, b)
  PROVE  /\ masked \in SUBSET s
         /\ Wanted(s, b, n) = {} => masked = {}
         /\ \A e \in Wanted(s, b, n) :
              (\A f \in Wanted(s, b, n) : f <= e) => IsHighest(Slot(e), masked)
  <1>0. /\ Ring \in Nat \ {0} /\ Slot(b) \in 0 .. Ring - 1
        /\ \A e \in Wanted(s, b, n) : e \in Int
    BY Widths, SlotType DEF Wanted
  <1>1. masked \in SUBSET s
    BY DEF Direct, Lower, Upper
  <1>2. Wanted(s, b, n) = {} => masked = {}
    BY Window DEF OneRun, TwoRuns
  <1>3. ASSUME NEW e \in Wanted(s, b, n), \A f \in Wanted(s, b, n) : f <= e
        PROVE  IsHighest(Slot(e), masked)
    <2>1. CASE Slot(b) < Slot(b + n)
      <3>0. OneRun(s, b, n) /\ masked = Direct(s, b, n)
        BY <2>1, Window
      <3>1. Slot(e) \in masked
        BY <3>0 DEF OneRun
      <3>2. ASSUME NEW p \in masked
            PROVE  p <= Slot(e)
        <4>1. PICK f \in Wanted(s, b, n) : Slot(f) = p
          BY <3>0 DEF OneRun
        <4>2. Slot(e) = Slot(b) + (e - b) /\ p = Slot(b) + (f - b)
          BY <3>0, <4>1 DEF OneRun
        <4> QED
          BY <1>0, <1>3, <4>2
      <3> QED
        BY <3>1, <3>2 DEF IsHighest
    <2>2. CASE ~(Slot(b) < Slot(b + n))
      <3>0. TwoRuns(s, b, n)
        BY <2>2, Window
      <3>1. CASE e - b < Ring - Slot(b)
        <4>1. Lower(s, b, n) = {}
          <5>1. ASSUME NEW p \in Lower(s, b, n)
                PROVE  FALSE
            <6>1. PICK f \in Wanted(s, b, n) : ~(f - b < Ring - Slot(b))
              BY <3>0 DEF TwoRuns
            <6> QED
              BY <1>0, <1>3, <3>1, <6>1
          <5> QED
            BY <5>1
        <4>2. masked = Upper(s, b) /\ Slot(e) \in masked /\ Slot(e) = Slot(b) + (e - b)
          BY <2>2, <3>0, <3>1, <4>1 DEF TwoRuns
        <4>3. ASSUME NEW p \in masked
              PROVE  p <= Slot(e)
          <5>1. PICK f \in Wanted(s, b, n) : Slot(f) = p /\ f - b < Ring - Slot(b)
            BY <3>0, <4>2 DEF TwoRuns
          <5>2. p = Slot(b) + (f - b)
            BY <3>0, <5>1 DEF TwoRuns
          <5> QED
            BY <1>0, <1>3, <4>2, <5>2
        <4> QED
          BY <4>2, <4>3 DEF IsHighest
      <3>2. CASE ~(e - b < Ring - Slot(b))
        <4>1. Slot(e) \in Lower(s, b, n) /\ Slot(e) = Slot(b) + (e - b) - Ring
          BY <3>0, <3>2 DEF TwoRuns
        <4>2. masked = Lower(s, b, n)
          BY <2>2, <4>1
        <4>3. ASSUME NEW p \in masked
              PROVE  p <= Slot(e)
          <5>1. PICK f \in Wanted(s, b, n) : Slot(f) = p /\ ~(f - b < Ring - Slot(b))
            BY <3>0, <4>2 DEF TwoRuns
          <5>2. p = Slot(b) + (f - b) - Ring
            BY <3>0, <5>1 DEF TwoRuns
          <5> QED
            BY <1>0, <1>3, <4>1, <5>2
        <4> QED
          BY <4>1, <4>2, <4>3 DEF IsHighest
      <3> QED
        BY <3>1, <3>2
    <2> QED
      BY <2>1, <2>2
  <1> QED
    BY <1>1, <1>2, <1>3


\* The same for the earliest wanted epoch, the other half first.
LEMMA Earliest ==
  ASSUME NEW s \in SUBSET (0 .. Ring - 1), NEW b \in Nat, NEW n \in 1 .. Ring,
         NEW masked,
         masked = IF Slot(b) < Slot(b + n) THEN Direct(s, b, n)
                  ELSE IF Upper(s, b) # {} THEN Upper(s, b) ELSE Lower(s, b, n)
  PROVE  /\ masked \in SUBSET s
         /\ Wanted(s, b, n) = {} => masked = {}
         /\ \A e \in Wanted(s, b, n) :
              (\A f \in Wanted(s, b, n) : e <= f) => IsLowest(Slot(e), masked)
  <1>0. /\ Ring \in Nat \ {0} /\ Slot(b) \in 0 .. Ring - 1
        /\ \A e \in Wanted(s, b, n) : e \in Int
    BY Widths, SlotType DEF Wanted
  <1>1. masked \in SUBSET s
    BY DEF Direct, Lower, Upper
  <1>2. Wanted(s, b, n) = {} => masked = {}
    BY Window DEF OneRun, TwoRuns
  <1>3. ASSUME NEW e \in Wanted(s, b, n), \A f \in Wanted(s, b, n) : e <= f
        PROVE  IsLowest(Slot(e), masked)
    <2>1. CASE Slot(b) < Slot(b + n)
      <3>0. OneRun(s, b, n) /\ masked = Direct(s, b, n)
        BY <2>1, Window
      <3>1. Slot(e) \in masked
        BY <3>0 DEF OneRun
      <3>2. ASSUME NEW p \in masked
            PROVE  Slot(e) <= p
        <4>1. PICK f \in Wanted(s, b, n) : Slot(f) = p
          BY <3>0 DEF OneRun
        <4>2. Slot(e) = Slot(b) + (e - b) /\ p = Slot(b) + (f - b)
          BY <3>0, <4>1 DEF OneRun
        <4> QED
          BY <1>0, <1>3, <4>2
      <3> QED
        BY <3>1, <3>2 DEF IsLowest
    <2>2. CASE ~(Slot(b) < Slot(b + n))
      <3>0. TwoRuns(s, b, n)
        BY <2>2, Window
      <3>1. CASE ~(e - b < Ring - Slot(b))
        <4>1. Upper(s, b) = {}
          <5>1. ASSUME NEW p \in Upper(s, b)
                PROVE  FALSE
            <6>1. PICK f \in Wanted(s, b, n) : f - b < Ring - Slot(b)
              BY <3>0 DEF TwoRuns
            <6> QED
              BY <1>0, <1>3, <3>1, <6>1
          <5> QED
            BY <5>1
        <4>2. /\ masked = Lower(s, b, n)
              /\ Slot(e) \in masked /\ Slot(e) = Slot(b) + (e - b) - Ring
          BY <2>2, <3>0, <3>1, <4>1 DEF TwoRuns
        <4>3. ASSUME NEW p \in masked
              PROVE  Slot(e) <= p
          <5>1. PICK f \in Wanted(s, b, n) : Slot(f) = p /\ ~(f - b < Ring - Slot(b))
            BY <3>0, <4>2 DEF TwoRuns
          <5>2. p = Slot(b) + (f - b) - Ring
            BY <3>0, <5>1 DEF TwoRuns
          <5> QED
            BY <1>0, <1>3, <4>2, <5>2
        <4> QED
          BY <4>2, <4>3 DEF IsLowest
      <3>2. CASE e - b < Ring - Slot(b)
        <4>1. Slot(e) \in Upper(s, b) /\ Slot(e) = Slot(b) + (e - b)
          BY <3>0, <3>2 DEF TwoRuns
        <4>2. masked = Upper(s, b)
          BY <2>2, <4>1
        <4>3. ASSUME NEW p \in masked
              PROVE  Slot(e) <= p
          <5>1. PICK f \in Wanted(s, b, n) : Slot(f) = p /\ f - b < Ring - Slot(b)
            BY <3>0, <4>2 DEF TwoRuns
          <5>2. p = Slot(b) + (f - b)
            BY <3>0, <5>1 DEF TwoRuns
          <5> QED
            BY <1>0, <1>3, <4>1, <5>2
        <4> QED
          BY <4>1, <4>2, <4>3 DEF IsLowest
      <3> QED
        BY <3>1, <3>2
    <2> QED
      BY <2>1, <2>2
  <1> QED
    BY <1>1, <1>2, <1>3

(* What an executor holds, and the epochs up to its own or after it.        *)
LEMMA HeldFacts ==
  ASSUME Slotted, Inductive, doing # "nothing"
  PROVE  /\ held \in SUBSET (0 .. Ring - 1) /\ held \subseteq Positions
         /\ holder \in Live /\ holder \in Epochs /\ holder + 1 \in Epochs
         /\ lo \in Epochs /\ hi \in Epochs
         /\ holder - lo + 1 \in 1 .. Ring
         /\ Wanted(held, lo, holder - lo + 1) = heldBy \cap (lo .. holder)
         /\ \A e \in lo .. hi : BitIndex(Wrap(e), Ring) = Slot(e)
  <1>0. /\ CursorsRight /\ Ring \in Nat /\ Start \in Nat /\ Span \in Nat
        /\ holder \in Live /\ held = Slots(heldBy) /\ heldBy \in SUBSET Epochs
        /\ \A f \in heldBy : f < lo + Ring /\ holder < f + Ring
    BY Widths, StartAssumption DEF Inductive, HeldRight
  <1>1. held = {Slot(f) : f \in heldBy} /\ held \subseteq 0 .. Ring - 1
    BY <1>0, SlotsAre
  <1>2. /\ lo \in Nat /\ hi \in Nat /\ lo <= holder /\ holder < hi /\ hi - lo <= Ring
        /\ hi <= Start + Span /\ holder \in Int
    BY <1>0 DEF CursorsRight, Live
  <1>3. holder - lo + 1 \in 1 .. Ring /\ lo + (holder - lo + 1) - 1 = holder
    BY <1>0, <1>2
  <1>4. Wanted(held, lo, holder - lo + 1) = heldBy \cap (lo .. holder)
    <2>1. Wanted(held, lo, holder - lo + 1) = {e \in lo .. holder : Slot(e) \in held}
      BY <1>3 DEF Wanted
    <2>2. ASSUME NEW e \in lo .. holder, Slot(e) \in held
          PROVE  e \in heldBy
      <3>1. PICK f \in heldBy : Slot(e) = Slot(f)
        BY <1>1, <2>2
      <3>2. e \in Nat /\ f \in Nat /\ e < f + Ring /\ f < e + Ring
        BY <1>0, <1>2 DEF Epochs
      <3> QED
        BY <3>1, <3>2, SlotsDiffer
    <2> QED
      BY <1>1, <2>1, <2>2
  <1>5. \A e \in lo .. hi : BitIndex(Wrap(e), Ring) = Slot(e)
    BY <1>0, <1>2, SlotOfWrapped
  <1>6. 0 .. Ring - 1 \subseteq Positions
    BY Widths DEF Positions
  <1> QED
    BY <1>0, <1>1, <1>2, <1>3, <1>4, <1>5, <1>6 DEF Epochs

\* load_from_wbuf, with the masks of the window from the first epoch to the executor's.
LEMMA LoadSelectsRight ==
  ASSUME Slotted, Inductive
  PROVE  LoadSelects
  <1> SUFFICES ASSUME doing = "load"
               PROVE  LoadPick(Wrap(holder), held) =
                        IF heldBy \cap (lo .. holder) = {} THEN None
                        ELSE Wrap(CHOOSE e \in heldBy \cap (lo .. holder) :
                                    \A f \in heldBy \cap (lo .. holder) : f <= e)
    BY DEF LoadSelects
  <1> DEFINE n == holder - lo + 1
             wrote == heldBy \cap (lo .. holder)
             direct == held \cap BitMaskRange(first, Wrap(holder + 1), Ring)
             older == held \cap BitMaskRange(Slot(lo), Ring, Ring)
             newer == held \cap BitMaskRange(0, Slot(holder + 1), Ring)
             masked == IF Slot(lo) < Slot(holder + 1) THEN direct
                       ELSE IF newer # {} THEN newer ELSE older
  <1>1. /\ held \in SUBSET (0 .. Ring - 1) /\ held \subseteq Positions
        /\ holder \in Live /\ holder \in Epochs /\ holder + 1 \in Epochs
        /\ lo \in Epochs /\ n \in 1 .. Ring
        /\ Wanted(held, lo, n) = wrote
    BY HeldFacts
  <1>2. lo \in Nat /\ holder \in Nat /\ lo + n = holder + 1 /\ holder + 1 \in Nat /\ Ring \in Nat
    BY <1>1, StartAssumption, Widths DEF Epochs
  <1>3. /\ first = Wrap(lo)
        /\ Wrap(Wrap(holder) + 1) = Wrap(holder + 1)
        /\ BitIndex(Wrap(holder + 1), Ring) = Slot(holder + 1)
        /\ BitIndex(first, Ring) = Slot(lo)
    BY <1>1, <1>2, WrapAdd, SlotOfWrapped DEF Inductive, CursorsRight, Epochs
  <1>4. LoadPick(Wrap(holder), held) =
          IF masked = {} THEN None ELSE IndexToEpochBefore(Wrap(holder), Log2(masked))
    BY <1>3 DEF LoadPick
  <1>5. /\ Slot(lo) < Slot(lo + n) => direct = Direct(held, lo, n)
        /\ older = Upper(held, lo)
        /\ newer = Lower(held, lo, n)
    <2>1. first \in Nat /\ Wrap(holder + 1) \in Nat
      BY <1>2, <1>3, WrapType, WordSizeType
    <2>2. Slot(first) = Slot(lo) /\ Slot(Wrap(holder + 1)) = Slot(holder + 1)
      BY <1>3 DEF BitIndex, Slot
    <2>3. Slot(lo) < Slot(lo + n) => direct = Direct(held, lo, n)
      BY <1>1, <1>2, <2>1, <2>2, Masks DEF Direct
    <2>4. older = Upper(held, lo)
      BY <1>1, <1>2, Masks DEF Upper
    <2>5. newer = Lower(held, lo, n)
      <3>1. newer = {p \in held : p < Slot(holder + 1)}
        BY <1>1, <1>2, Masks
      <3> QED
        BY <1>2, <3>1 DEF Lower
    <2> QED
      BY <2>3, <2>4, <2>5
  <1>6. masked = IF Slot(lo) < Slot(lo + n) THEN Direct(held, lo, n)
                 ELSE IF Lower(held, lo, n) # {} THEN Lower(held, lo, n) ELSE Upper(held, lo)
    BY <1>2, <1>5
  <1> HIDE DEF masked, direct, older, newer
  <1>7. /\ masked \in SUBSET held
        /\ wrote = {} => masked = {}
        /\ \A e \in wrote : (\A f \in wrote : f <= e) => IsHighest(Slot(e), masked)
    BY <1>1, <1>2, <1>6, Latest
  <1>8. CASE wrote = {}
    BY <1>4, <1>7, <1>8
  <1>9. CASE wrote # {}
    <2>1. wrote \subseteq Int /\ \A x \in wrote : lo <= x /\ x <= holder
      BY <1>2
    <2>2. PICK e \in wrote : \A f \in wrote : f <= e
      <3> HIDE DEF wrote
      <3> QED
        BY <1>2, <1>9, <2>1, Greatest, holder \in Int
    <2>3. (CHOOSE x \in wrote : \A f \in wrote : f <= x) = e
      <3>1. \A x \in wrote : (\A f \in wrote : f <= x) => x = e
        BY <2>1, <2>2
      <3> HIDE DEF wrote
      <3> QED
        BY <2>2, <3>1
    <2>4. IsHighest(Slot(e), masked) /\ masked \in SUBSET Positions
      BY <1>1, <1>7, <2>2
    <2>5. masked # {} /\ Log2(masked) = Slot(e)
      BY <2>4, Log2Highest DEF IsHighest
    <2> DEFINE d == holder - e
    <2>6. d \in 0 .. Ring - 1 /\ d <= holder /\ holder - d = e
      BY <1>1, <1>2, <2>1, <2>2
    <2> HIDE DEF d
    <2>7. IndexToEpochBefore(Wrap(holder), Slot(holder - d)) = Wrap(holder - d)
      BY <1>1, <2>6, IndexBefore
    <2> QED
      BY <1>4, <1>9, <2>3, <2>5, <2>6, <2>7
  <1> QED
    BY <1>8, <1>9


\* dep_violation_check, with the masks of the window after the executor's epoch.
LEMMA StoreSelectsRight ==
  ASSUME NoOverflow, Inductive
  PROVE  StoreSelects
  <1> DEFINE flagged == {e \in holder + 1 .. hi - 1 : BitIndex(Wrap(e), Ring) \in Slots(heldBy)}
  <1> SUFFICES ASSUME doing = "store"
               PROVE  StorePick(Wrap(holder), held) =
                        IF flagged = {} THEN None
                        ELSE Wrap(CHOOSE e \in flagged : \A f \in flagged : e <= f)
    BY DEF StoreSelects
  <1> DEFINE b == holder + 1
             n == hi - b
             direct == held \cap BitMaskRange(b, hi, Ring)
             nearer == held \cap BitMaskRange(Slot(b), Ring, Ring)
             farther == held \cap BitMaskRange(0, Slot(hi), Ring)
             masked == IF Slot(b) < Slot(hi) THEN direct
                       ELSE IF nearer # {} THEN nearer ELSE farther
  <1>0. Slotted
    BY DEF Slotted
  <1>1. /\ held \in SUBSET (0 .. Ring - 1) /\ held \subseteq Positions
        /\ holder \in Live /\ holder \in Epochs /\ b \in Epochs /\ hi \in Epochs
        /\ lo \in Epochs /\ holder - lo + 1 \in 1 .. Ring
        /\ \A e \in lo .. hi : BitIndex(Wrap(e), Ring) = Slot(e)
    BY <1>0, HeldFacts
  <1>2. /\ lo \in Nat /\ hi \in Nat /\ holder \in Nat /\ b \in Nat /\ Ring \in Nat
        /\ lo <= holder /\ b <= hi /\ hi - lo <= Ring
        /\ n \in 0 .. Ring /\ b + n = hi /\ hi < WordSize /\ WordSize \in Nat
    BY <1>1, StartAssumption, Widths, WordSizeType
       DEF Epochs, Live, Inductive, CursorsRight, NoOverflow
  <1>3. /\ last = hi
        /\ Wrap(Wrap(holder) + 1) = b
        /\ BitIndex(b, Ring) = Slot(b) /\ BitIndex(last, Ring) = Slot(hi)
    <2>1. hi \in 0 .. WordSize - 1 /\ holder \in 0 .. WordSize - 1 /\ b \in 0 .. WordSize - 1
      BY <1>2
    <2> QED
      BY <2>1, WrapSmall DEF Inductive, CursorsRight, BitIndex, Slot
  <1>4. StorePick(Wrap(holder), held) =
          IF b >= hi \/ masked = {} THEN None
          ELSE IndexToEpochAfter(Wrap(holder), TrailingZeros(masked))
    BY <1>3 DEF StorePick
  <1>5. flagged = Wanted(held, b, n)
    <2>1. held = Slots(heldBy)
      BY DEF Inductive, HeldRight
    <2>2. \A e \in holder + 1 .. hi - 1 : BitIndex(Wrap(e), Ring) = Slot(e)
      BY <1>1, <1>2
    <2>3. b + n - 1 = hi - 1
      BY <1>2
    <2> QED
      BY <2>1, <2>2, <2>3 DEF Wanted
  <1>6. ASSUME b >= hi
        PROVE  flagged = {}
    BY <1>2, <1>6
  <1>7. ASSUME b < hi
        PROVE  n \in 1 .. Ring
    BY <1>2, <1>7
  <1>8. masked = IF Slot(b) < Slot(b + n) THEN Direct(held, b, n)
                 ELSE IF Upper(held, b) # {} THEN Upper(held, b) ELSE Lower(held, b, n)
    <2>1. Slot(b) < Slot(hi) => direct = {p \in held : Slot(b) <= p /\ p < Slot(hi)}
      BY <1>1, <1>2, Masks
    <2>2. nearer = {p \in held : Slot(b) <= p}
      BY <1>1, <1>2, Masks
    <2>3. farther = {p \in held : p < Slot(hi)}
      BY <1>1, <1>2, Masks
    <2> QED
      BY <1>2, <2>1, <2>2, <2>3 DEF Direct, Upper, Lower
  <1> HIDE DEF masked, direct, nearer, farther
  <1>9. ASSUME b < hi
        PROVE  /\ masked \in SUBSET held
               /\ flagged = {} => masked = {}
               /\ \A e \in flagged : (\A f \in flagged : e <= f) => IsLowest(Slot(e), masked)
    BY <1>1, <1>2, <1>5, <1>7, <1>8, <1>9, Earliest
  <1>10. CASE flagged = {}
    BY <1>2, <1>4, <1>9, <1>10
  <1>11. CASE flagged # {}
    <2>1. b < hi /\ flagged \subseteq Nat /\ \A x \in flagged : b <= x /\ x < hi
      BY <1>2, <1>6, <1>11
    <2>2. PICK e \in flagged : \A f \in flagged : e <= f
      <3> HIDE DEF flagged
      <3> QED
        BY <1>11, <2>1, Smallest
    <2>3. (CHOOSE x \in flagged : \A f \in flagged : x <= f) = e
      <3>1. \A x \in flagged : (\A f \in flagged : x <= f) => x = e
        BY <2>1, <2>2
      <3> HIDE DEF flagged
      <3> QED
        BY <2>2, <3>1
    <2>4. IsLowest(Slot(e), masked) /\ masked \in SUBSET Positions
      BY <1>1, <1>9, <2>1, <2>2
    <2>5. masked # {} /\ TrailingZeros(masked) = Slot(e)
      BY <2>4, TrailingZerosLowest DEF IsLowest
    <2> DEFINE d == e - holder
    <2>6. d \in 1 .. Ring - 1 /\ holder + d = e
      BY <1>2, <2>1, <2>2
    <2> HIDE DEF d
    <2>7. IndexToEpochAfter(Wrap(holder), Slot(holder + d)) = Wrap(holder + d)
      BY <1>0, <1>1, <2>6, IndexAfter
    <2>8. StorePick(Wrap(holder), held) = Wrap(e)
      <3>1. ~(b >= hi)
        BY <1>2, <2>1
      <3> QED
        BY <1>4, <2>5, <2>6, <2>7, <3>1
    <2> HIDE DEF flagged
    <2> QED
      BY <1>11, <2>3, <2>8
  <1> QED
    BY <1>10, <1>11

(* A load picks the latest epoch that wrote and is not after its own, for   *)
(* every ring whose epochs keep to their slots, across the overflow too.    *)
THEOREM LoadsSelectTheLatest ==
  ASSUME Slotted
  PROVE  Spec => []LoadSelects
  <1>1. Inductive => LoadSelects
    BY LoadSelectsRight
  <1> QED
    BY <1>1, Invariant, PTL

(* A store rolls back the earliest later epoch that is flagged, for every   *)
(* ring, as long as the epochs do not overflow.                             *)
THEOREM StoresSelectTheEarliest ==
  ASSUME NoOverflow
  PROVE  Spec => []StoreSelects
  <1>1. Inductive => StoreSelects
    BY StoreSelectsRight
  <1>2. Spec => []Inductive
    BY Invariant DEF Slotted
  <1> QED
    BY <1>1, <1>2, PTL
=============================================================================
