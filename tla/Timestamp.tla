----------------------------- MODULE Timestamp -----------------------------
(***************************************************************************)
(* libyarn/src/timestamp.h: the comparison of epochs that survives the     *)
(* overflow of yarn_word_t.  A word is one of 4 * Quarter values; the two  *)
(* top bits, which YARN_TIMESTAMP_FLAG_MASK selects, name its quarter.     *)
(*                                                                         *)
(* The state machine is a timestamp that is incremented forever, and one   *)
(* sample of it taken earlier.  The ghost variables now and sampledAt      *)
(* count the increments without wrapping.                                  *)
(***************************************************************************)
EXTENDS Integers

CONSTANTS
  Quarter,   \* 2^(YARN_WORD_BIT_SIZE - 2)
  Horizon    \* bound of the model: how many increments are explored

ASSUME QuarterAssumption == Quarter \in Nat \ {0}
ASSUME HorizonAssumption == Horizon \in Nat

WordSize == 4 * Quarter
Word == 0 .. WordSize - 1

\* Unsigned arithmetic of yarn_word_t.
Wrap(n) == n % WordSize

\* a & YARN_TIMESTAMP_FLAG_MASK, as the number of the quarter.
FlagBits(a) == a \div Quarter

\* Mutant of Comp: the plain order of the words.
CompPlain(a, b) == IF a = b THEN 0 ELSE IF a < b THEN -1 ELSE 1

\* yarn_timestamp_comp
Comp(a, b) ==
  LET aMask == FlagBits(a)
      bMask == FlagBits(b)
      Ordered(p) == IF p THEN -1 ELSE 1
  IN  IF a = b THEN 0
      ELSE IF aMask = bMask THEN Ordered(a < b)
      ELSE IF aMask = 0 THEN Ordered(bMask # 3)
      ELSE IF bMask = 0 THEN Ordered(aMask = 3)
      ELSE Ordered(aMask < bMask)

Sign(n) == IF n = 0 THEN 0 ELSE IF n < 0 THEN -1 ELSE 1

-----------------------------------------------------------------------------
VARIABLES
  ts,         \* the yarn_timestamp_t
  sample,     \* the result of an earlier yarn_timestamp_sample
  now,        \* ghost: how many times ts was incremented
  sampledAt   \* ghost: now, at the time of the sample

vars == <<ts, sample, now, sampledAt>>

Init ==
  /\ ts = 0
  /\ sample = 0
  /\ now = 0
  /\ sampledAt = 0

\* Mutant of Inc: the timestamp saturates instead of wrapping.
IncSaturates ==
  /\ now < Horizon
  /\ ts' = IF ts = WordSize - 1 THEN ts ELSE ts + 1
  /\ now' = now + 1
  /\ UNCHANGED <<sample, sampledAt>>

\* yarn_timestamp_inc
Inc ==
  /\ now < Horizon
  /\ ts' = Wrap(ts + 1)
  /\ now' = now + 1
  /\ UNCHANGED <<sample, sampledAt>>

\* yarn_timestamp_inc_eq, with the value sampled before as old_val.
IncEq == ts = sample /\ Inc

\* yarn_timestamp_sample
Sample ==
  /\ sample' = ts
  /\ sampledAt' = now
  /\ UNCHANGED <<ts, now>>

Next == Inc \/ IncEq \/ Sample

Spec == Init /\ [][Next]_vars

-----------------------------------------------------------------------------
(* The words keep their type, and count the increments modulo the word. *)
TypeOK ==
  /\ ts \in Word
  /\ sample \in Word
  /\ now \in Nat
  /\ sampledAt \in Nat
  /\ sampledAt <= now
  /\ ts = Wrap(now)
  /\ sample = Wrap(sampledAt)

(* timestamp.h:7-10: the comparison is only promised for values "sampled    *)
(* in reasonable time proximity".  Reasonable is at most a quarter of the   *)
(* word: as long as the timestamp moved no further since the sample, the    *)
(* comparison orders the two as they were taken, across an overflow too,    *)
(* and in both argument orders.                                             *)
ComparesAsTaken ==
  now - sampledAt <= Quarter =>
    /\ Comp(sample, ts) = Sign(sampledAt - now)
    /\ Comp(ts, sample) = Sign(now - sampledAt)
=============================================================================
