------------------------------ MODULE FlagWord ------------------------------
(***************************************************************************)
(* The arithmetic of libyarn/src/dependency.c that the module Dependency   *)
(* abstracts to sets of epochs: the flags of the readers and the writers   *)
(* packed in one word, and the masks by which a load picks the epoch to    *)
(* read from and a store the epoch to roll back.                           *)
(*                                                                         *)
(* The machine is one record while the epochs go by.  An executor holds    *)
(* the flags it read and picks an epoch later, when other epochs have      *)
(* begun and were committed meanwhile; lo, hi and the sets of epochs are   *)
(* ghosts that never wrap.                                                 *)
(***************************************************************************)
EXTENDS Bits

CONSTANTS
  Ring,    \* g_epoch_max
  Start,   \* the first epoch, near the overflow or not
  Span     \* bound of the model: how many epochs are begun

ASSUME RingAssumption == Ring \in 1 .. WordBits \div 2
ASSUME StartAssumption == Start \in Nat /\ Span \in Nat

VARIABLES
  first,     \* yarn_epoch_first()
  last,      \* yarn_epoch_last()
  flags,     \* flags of the record

  holder,    \* epoch of the executor
  held,      \* what it unpacked: the writers for a load, the readers for a store
  doing,     \* "load", "store", or "nothing"

  lo, hi,    \* ghost: first and last, unwrapped
  readBy,    \* ghost: the live epochs that read
  wroteBy,   \* ghost: the live epochs that wrote
  heldBy     \* ghost: the epochs in held

cursorVars == <<first, last, lo, hi>>
recordVars == <<flags, readBy, wroteBy>>
heldVars == <<holder, held, doing, heldBy>>
vars == <<cursorVars, recordVars, heldVars>>

Init ==
  /\ first = Wrap(Start) /\ last = Wrap(Start)
  /\ lo = Start /\ hi = Start
  /\ flags = {} /\ readBy = {} /\ wroteBy = {}
  /\ holder = 0 /\ held = {} /\ doing = "nothing" /\ heldBy = {}

Live == lo .. hi - 1

Release == holder' = 0 /\ held' = {} /\ doing' = "nothing" /\ heldBy' = {}

\* yarn_epoch_next hands out an epoch.
Begin ==
  /\ hi - lo < Ring
  /\ hi < Start + Span
  /\ last' = Wrap(last + 1)
  /\ hi' = hi + 1
  /\ UNCHANGED <<first, lo, recordVars, heldVars>>

\* Mutant of ClearFlags: the read flag of the epoch stays.
ClearFlagsKeepsRead(word, e) ==
  Pack(UnpackLow(word), UnpackHigh(word) \cap Complement(BitMask(e, Ring)))

\* clear_flags
ClearFlags(word, e) ==
  Pack(UnpackLow(word) \cap Complement(BitMask(e, Ring)),
       UnpackHigh(word) \cap Complement(BitMask(e, Ring)))

\* The record after the epoch e is committed or undone.
Clear(e) ==
  /\ flags' = ClearFlags(flags, Wrap(e))
  /\ readBy' = readBy \ {e}
  /\ wroteBy' = wroteBy \ {e}

\* An epoch whose executor is at work is not committed.
Commit ==
  /\ lo < hi
  /\ doing # "nothing" => holder # lo
  /\ Clear(lo)
  /\ first' = Wrap(first + 1)
  /\ lo' = lo + 1
  /\ UNCHANGED <<last, hi, heldVars>>

Undo(e) ==
  /\ e \in Live
  /\ Clear(e)
  /\ IF holder = e THEN Release ELSE UNCHANGED heldVars
  /\ UNCHANGED cursorVars

\* set_read_flag of load_from_wbuf, which returns the new flags.
SetReadFlag(e) ==
  /\ e \in Live
  /\ flags' = Pack(UnpackLow(flags) \cup BitMask(Wrap(e), Ring), UnpackHigh(flags))
  /\ readBy' = readBy \cup {e}
  /\ holder' = e
  /\ held' = UnpackHigh(flags')
  /\ doing' = "load"
  /\ heldBy' = wroteBy
  /\ UNCHANGED <<cursorVars, wroteBy>>

\* set_write_flag of store_to_wbuf.
SetWriteFlag(e) ==
  /\ e \in Live
  /\ flags' = Pack(UnpackLow(flags), UnpackHigh(flags) \cup BitMask(Wrap(e), Ring))
  /\ wroteBy' = wroteBy \cup {e}
  /\ holder' = e
  /\ held' = UnpackLow(flags')
  /\ doing' = "store"
  /\ heldBy' = readBy
  /\ UNCHANGED <<cursorVars, readBy>>

Next ==
  \/ Begin
  \/ Commit
  \/ \E e \in Live : Undo(e) \/ SetReadFlag(e) \/ SetWriteFlag(e)

Spec == Init /\ [][Next]_vars

-----------------------------------------------------------------------------
(* The choice of an epoch.                                                  *)

IndexToEpochAfter(base, index) ==
  LET baseIndex == BitIndex(base, Ring)
  IN  Wrap(IF baseIndex <= index THEN base + (index - baseIndex)
                                 ELSE base + (Ring - baseIndex) + index)

IndexToEpochBefore(base, index) ==
  LET baseIndex == BitIndex(base, Ring)
  IN  Wrap(IF baseIndex >= index THEN base - (baseIndex - index)
                                 ELSE base - baseIndex - (Ring - index))

None == -1

\* Mutant of LoadPick: the lower part of a wrapped range is looked at last.
LoadPickOlder(epoch, writers) ==
  LET lastIndex == BitIndex(Wrap(epoch + 1), Ring)
      older == writers \cap BitMaskRange(BitIndex(first, Ring), Ring, Ring)
      newer == writers \cap BitMaskRange(0, lastIndex, Ring)
      masked == IF BitIndex(first, Ring) < lastIndex
                THEN writers \cap BitMaskRange(first, Wrap(epoch + 1), Ring)
                ELSE IF older # {} THEN older ELSE newer
  IN  IF masked = {} THEN None ELSE IndexToEpochBefore(epoch, Log2(masked))

\* load_from_wbuf: the epoch whose buffered value is read.
LoadPick(epoch, writers) ==
  LET lastIndex == BitIndex(Wrap(epoch + 1), Ring)
      older == writers \cap BitMaskRange(BitIndex(first, Ring), Ring, Ring)
      newer == writers \cap BitMaskRange(0, lastIndex, Ring)
      masked == IF BitIndex(first, Ring) < lastIndex
                THEN writers \cap BitMaskRange(first, Wrap(epoch + 1), Ring)
                ELSE IF newer # {} THEN newer ELSE older
  IN  IF masked = {} THEN None ELSE IndexToEpochBefore(epoch, Log2(masked))

\* Mutant of StorePick: the range begins with the epoch of the store.
StorePickOwn(epoch, readers) ==
  LET masked == readers \cap BitMaskRange(epoch, last, Ring)
  IN  IF masked = {} THEN None ELSE IndexToEpochAfter(epoch, TrailingZeros(masked))

\* dep_violation_check: the epoch that is rolled back.
StorePick(epoch, readers) ==
  LET from == Wrap(epoch + 1)
      fromIndex == BitIndex(from, Ring)
      lastIndex == BitIndex(last, Ring)
      nearer == readers \cap BitMaskRange(fromIndex, Ring, Ring)
      farther == readers \cap BitMaskRange(0, lastIndex, Ring)
      masked == IF fromIndex < lastIndex
                THEN readers \cap BitMaskRange(from, last, Ring)
                ELSE IF nearer # {} THEN nearer ELSE farther
  IN  IF from >= last \/ masked = {}
      THEN None
      ELSE IndexToEpochAfter(epoch, TrailingZeros(masked))

-----------------------------------------------------------------------------
Slots(epochs) == {BitIndex(Wrap(e), Ring) : e \in epochs}

(* The two halves of the word hold the slots of the live epochs that read   *)
(* and wrote, and nothing of the epochs that had the slots before, however  *)
(* often the ring was gone around.                                          *)
FlagsExact ==
  /\ flags \subseteq Positions
  /\ readBy \cup wroteBy \subseteq Live
  /\ UnpackLow(flags) = Slots(readBy)
  /\ UnpackHigh(flags) = Slots(wroteBy)

(* A load reads from the latest epoch, up to its own, that had written when *)
(* it set its flag and is not committed yet: neither the wrap of the ring   *)
(* nor the epochs that came and went since lead it to another one.          *)
LoadSelects ==
  doing = "load" =>
    LET wrote == heldBy \cap (lo .. holder)
    IN  LoadPick(Wrap(holder), held) =
          IF wrote = {} THEN None ELSE Wrap(CHOOSE e \in wrote : \A f \in wrote : f <= e)

(* A store rolls back the earliest later epoch whose slot was flagged by a  *)
(* reader when it set its own flag, and none if there is none.              *)
StoreSelects ==
  doing = "store" =>
    LET flagged == {e \in holder + 1 .. hi - 1 : BitIndex(Wrap(e), Ring) \in Slots(heldBy)}
    IN  StorePick(Wrap(holder), held) =
          IF flagged = {} THEN None
          ELSE Wrap(CHOOSE e \in flagged : \A f \in flagged : e <= f)
=============================================================================
