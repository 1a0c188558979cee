-------------------------------- MODULE Bits --------------------------------
(***************************************************************************)
(* libyarn/src/bits.h: bit fields in a yarn_word_t.                        *)
(*                                                                         *)
(* A word that holds a bit field is the set of the positions of its bits,  *)
(* so that & is \cap and | is \cup; a word that counts is a number below   *)
(* 2^WordBits.  A build has words of 4 * TableBits or of 8 * TableBits     *)
(* bits, with a table of TableBits bits where the code has one of 8.       *)
(***************************************************************************)
EXTENDS Integers

CONSTANTS
  TableBits,   \* log_tables_256 is of 2^TableBits entries
  WordBits     \* YARN_WORD_BIT_SIZE

ASSUME TableBitsAssumption == TableBits \in {2, 4, 8}
ASSUME WordBitsAssumption == WordBits \in {4 * TableBits, 8 * TableBits}

WordSize == 2^WordBits
Positions == 0 .. WordBits - 1

\* Of the power of two, the proofs use this.
ASSUME WordSizeAssumption == WordSize > WordBits

\* The operations of C on numbers, and those on the words of bits: ~v, v ^ w,
\* v << k, v >> k, and a - 1 where a has the only bit i.
Wrap(n) == n % WordSize
Complement(v) == Positions \ v
Xor(v, w) == (v \ w) \cup (w \ v)
ShiftLeft(v, k) == {p + k : p \in v} \cap Positions
ShiftRight(v, k) == {p - k : p \in {q \in v : q >= k}}
Below(i) == 0 .. i - 1

BitIndex(value, max) == value % max
BitMask(index, max) == {BitIndex(index, max)}

\* yarn_bit_mask_range: the bits from first to the one before second.
BitMaskRange(first, second, max) ==
  LET a == BitIndex(first, max)
      b == BitIndex(second, max)
      c == Xor(Below(a), Below(b))
      inOrder == IF a # b THEN a < b ELSE first >= second
  IN  IF inOrder THEN c ELSE Complement(c)

Highest(v) == CHOOSE p \in v : \A q \in v : q <= p

\* log_tables_256
LogTable(n) == IF n = {} THEN 0 ELSE Highest(n)

\* yarn_bit_log2: the highest bit, in the highest of the words of two tables
\* that has one, or in the lowest.
Log2(v) ==
  LET width == 2 * TableBits
      tests == {k \in 1 .. WordBits \div width - 1 : ShiftRight(v, k * width) # {}}
      base == width * (IF tests = {} THEN 0 ELSE Highest(tests))
      tt == ShiftRight(v, base)
      t == ShiftRight(tt, TableBits)
  IN  IF t # {} THEN base + TableBits + LogTable(t) ELSE base + LogTable(tt)

\* yarn_bit_trailing_zeros: skip ever smaller groups of zeros, from half a word.
Skip(s, g) ==
  IF g < WordBits /\ s.v \cap Below(g) = {}
  THEN [v |-> ShiftRight(s.v, g), c |-> s.c + g] ELSE s

TrailingZeros(v) ==
  LET end == Skip(Skip(Skip(Skip(Skip([v |-> v, c |-> 1], 32), 16), 8), 4), 2)
  IN  IF 0 \in v THEN 0 ELSE IF 0 \in end.v THEN end.c - 1 ELSE end.c

\* yarn_bit_pack, and the two results of yarn_bit_unpack.
PackShift == WordBits \div 2
Pack(a, b) == (a \cap Below(PackShift)) \cup ShiftLeft(b, PackShift)
UnpackLow(v) == v \cap Below(PackShift)
UnpackHigh(v) == ShiftRight(v, PackShift)
=============================================================================
