------------------------------ MODULE MapProof ------------------------------
(***************************************************************************)
(* Proofs about the lock-free map (Map), for any finite set of threads,    *)
(* any hash function and any capacity.  The types, and that a helper never *)
(* leaves the table, hold through any number of resizes, provided that the *)
(* random number that picks a bucket is rounded down (~RoundsUp).  That no *)
(* item is lost or found twice, and that concurrent calls are atomic, is   *)
(* proved for a table that grows once (Bounds); the invariant is Safe.     *)
(***************************************************************************)
EXTENDS Map, FiniteSetTheorems, TLAPS

(* There is one master, and its label tells how far the resize is.          *)
MasterInv ==
  /\ \A t, u \in Thread : IsMaster(t) /\ IsMaster(u) => t = u
  /\ resizeState = "nothing" => newCapacity = 0 /\ \A t \in Thread : ~IsMaster(t)
  /\ resizeState = "resizing" => newCapacity = 2 * capacity
  /\ \A t \in Thread :
       /\ pc[t] \in Ready => resizeState = "preparing"
       /\ pc[t] = "prepare" => newCapacity = 0
       /\ pc[t] \in {"drain", "open", "sweep", "settle", "swap"} => newCapacity = 2 * capacity
       /\ pc[t] = "sweep" => resizeState = "resizing"
       /\ pc[t] \in {"settle", "swap", "reopen"} => resizeState = "waiting"
       /\ pc[t] = "reopen" => newCapacity = 0

(* The locals of each label: a key that is asked for, buckets that are in   *)
(* the table, and nobody who moves an item while the tables are swapped.    *)
LabelInv ==
  \A t \in Thread :
    /\ pc[t] # "idle" => key[t] \in Key
    /\ pc[t] = "sweep" => caller[t] = "sweep"
    /\ caller[t] = "sweep" => pc[t] \in Transferring \cup {"sweep"}
    /\ pc[t] \in {"look", "await", "claim", "fill"} => i[t] < capacity
    /\ pc[t] \in Transferring => pos[t] < capacity
    /\ pc[t] \in Transferring \cup {"help_pick"} =>
         /\ resizeState \in {"resizing", "waiting"} /\ newCapacity = 2 * capacity
         /\ IsMaster(t) => resizeState = "resizing"
         /\ \A u \in Thread : pc[u] # "swap"
    /\ pc[t] \in {"take", "place", "copy"} => moving[t] \in Key
    /\ pc[t] \in {"place", "copy"} => i[t] < newCapacity

Shape == SharedOK /\ LocalsOK /\ CountInv /\ MasterInv /\ LabelInv

-----------------------------------------------------------------------------
(* The initial state.                                                       *)

\* The empty table has the shape that every step keeps.
LEMMA InitShape == Init => Shape
  <1> SUFFICES ASSUME Init PROVE Shape
    OBVIOUS
  <1>1. SharedOK
    <2>1. << >> \in [0 .. 0 - 1 -> Bucket]
      OBVIOUS
    <2> QED
      BY <2>1, CapacityAssumption DEF Init, SharedOK, Table, Empty, Bucket
  <1>2. LocalsOK
    BY CapacityAssumption DEF Init, LocalsOK, Labels
  <1>3. Users = {} /\ Helpers = {}
    BY DEF Init, Users, Helpers, IsUser, IsMaster, IsHelper, UserLabels, MasterLabels,
       HelperLabels, Ready, Transferring, Probing
  <1>4. CountInv
    BY <1>3, FS_EmptySet DEF Init, CountInv
  <1>5. MasterInv
    BY DEF Init, MasterInv, IsMaster, MasterLabels, Ready, Transferring
  <1>6. LabelInv
    BY DEF Init, LabelInv, Transferring
  <1> QED
    BY <1>1, <1>2, <1>4, <1>5, <1>6 DEF Shape

-----------------------------------------------------------------------------
(* One thread moves at a time.                                              *)

\* What the other threads have is not changed by a step of t.
Others(t) ==
  \A u \in Thread \ {t} :
    /\ pc'[u] = pc[u] /\ key'[u] = key[u] /\ result'[u] = result[u]
    /\ newSize'[u] = newSize[u] /\ i'[u] = i[u] /\ n'[u] = n[u]
    /\ caller'[u] = caller[u] /\ pos'[u] = pos[u] /\ moving'[u] = moving[u]

\* A step of t leaves the program counters and the locals of the others alone.
LEMMA StepOthers ==
  ASSUME LocalsOK, NEW t \in Thread, Step(t) \/ \E k \in Key : Call(t, k)
  PROVE  Others(t)
  <1> USE DEF LocalsOK, Goto, locals
  <1>1. CASE Probe(t)
    BY <1>1 DEF Others, Probe, Enter, Gate, Retreat, Start, Look, LookOn, Await, Claim,
       Fill, Count, LoadFactor, ForgetProbe, Exit
  <1>2. CASE Master(t)
    BY <1>2 DEF Others, Master, Elect, Fallback, Prepare, Drain, Open, Sweep, Settle,
       Swap, Reopen
  <1>3. CASE Helper(t)
    BY <1>3 DEF Others, Helper, TransferRead, TransferTake, TransferPlace,
       TransferCopyValue, TransferEnd, HelperEnter, HelperCheck, HelperPick,
       HelperLeave, HelperSpin
  <1>4. CASE \E k \in Key : Call(t, k)
    BY <1>4 DEF Others, Call
  <1> QED
    BY <1>1, <1>2, <1>3, <1>4 DEF Step

-----------------------------------------------------------------------------
(* Type correctness.                                                        *)

\* A remainder is less than its divisor.
LEMMA ModRange ==
  ASSUME NEW a \in Nat, NEW c \in Nat \ {0}
  PROVE  a % c \in Nat /\ a % c < c
  OBVIOUS

\* A fresh table is a table.
LEMMA TableType == \A c \in Nat : Table(c) \in [0 .. c - 1 -> Bucket]
  BY DEF Table, Empty, Bucket

\* tab with another address, or another value, in bucket b.
IsSet(new, tab, c, b, r) ==
  /\ new \in [0 .. c - 1 -> Bucket]
  /\ new[b] = r
  /\ \A d \in 0 .. c - 1 : d # b => new[d] = tab[d]

\* Writing an address changes one bucket and keeps its value.
LEMMA SetAddr ==
  ASSUME NEW c \in Nat, NEW tab \in [0 .. c - 1 -> Bucket], NEW b \in 0 .. c - 1,
         NEW a \in Key \cup {Null}
  PROVE  IsSet([tab EXCEPT ![b].addr = a], tab, c, b, [addr |-> a, value |-> tab[b].value])
  <1> DEFINE r == [tab[b] EXCEPT !.addr = a]
  <1>1. tab[b] \in Bucket
    OBVIOUS
  <1>2. r \in Bucket /\ r = [addr |-> a, value |-> tab[b].value]
    BY <1>1 DEF Bucket
  <1> HIDE DEF r
  <1>3. IsSet([tab EXCEPT ![b] = r], tab, c, b, r)
    BY <1>2 DEF IsSet
  <1> QED
    BY <1>2, <1>3 DEF r

\* Writing a value changes one bucket and keeps its address.
LEMMA SetValue ==
  ASSUME NEW c \in Nat, NEW tab \in [0 .. c - 1 -> Bucket], NEW b \in 0 .. c - 1,
         NEW v \in Thread \cup {Null}
  PROVE  IsSet([tab EXCEPT ![b].value = v], tab, c, b, [addr |-> tab[b].addr, value |-> v])
  <1> DEFINE r == [tab[b] EXCEPT !.value = v]
  <1>1. tab[b] \in Bucket
    OBVIOUS
  <1>2. r \in Bucket /\ r = [addr |-> tab[b].addr, value |-> v]
    BY <1>1 DEF Bucket
  <1> HIDE DEF r
  <1>3. IsSet([tab EXCEPT ![b] = r], tab, c, b, r)
    BY <1>2 DEF IsSet
  <1> QED
    BY <1>2, <1>3 DEF r

\* What the five actions that write to a bucket do to the tables.
LEMMA ClaimSets ==
  ASSUME Shape, NEW t \in Thread, Claim(t), table[i[t]].addr = Null
  PROVE  /\ i[t] \in 0 .. capacity - 1 /\ key[t] \in Key
         /\ IsSet(table', table, capacity, i[t], [addr |-> key[t], value |-> table[i[t]].value])
  <1>1. i[t] \in 0 .. capacity - 1 /\ key[t] \in Key /\ capacity \in Nat
    BY DEF Claim, Goto, Shape, SharedOK, LocalsOK, LabelInv
  <1>2. table \in [0 .. capacity - 1 -> Bucket] /\ table' = [table EXCEPT ![i[t]].addr = key[t]]
    BY DEF Claim, Shape, SharedOK
  <1> QED
    BY ONLY <1>1, <1>2, SetAddr

\* The value of the bucket that was claimed.
LEMMA FillSets ==
  ASSUME Shape, NEW t \in Thread, Fill(t)
  PROVE  /\ i[t] \in 0 .. capacity - 1
         /\ IsSet(table', table, capacity, i[t], [addr |-> table[i[t]].addr, value |-> t])
  <1>1. i[t] \in 0 .. capacity - 1 /\ capacity \in Nat
    BY DEF Fill, Goto, Shape, SharedOK, LocalsOK, LabelInv
  <1>2. table \in [0 .. capacity - 1 -> Bucket] /\ table' = [table EXCEPT ![i[t]].value = t]
    BY DEF Fill, Shape, SharedOK
  <1> QED
    BY ONLY <1>1, <1>2, t \in Thread, SetValue

\* The address of the bucket that is transferred.
LEMMA TakeSets ==
  ASSUME Shape, NEW t \in Thread, TransferTake(t), table[pos[t]].addr = moving[t]
  PROVE  /\ pos[t] \in 0 .. capacity - 1
         /\ IsSet(table', table, capacity, pos[t], [addr |-> Null, value |-> table[pos[t]].value])
  <1>1. pos[t] \in 0 .. capacity - 1 /\ capacity \in Nat
    BY DEF TransferTake, Goto, Transferring, Shape, SharedOK, LocalsOK, LabelInv
  <1>2. table \in [0 .. capacity - 1 -> Bucket] /\ table' = [table EXCEPT ![pos[t]].addr = Null]
    BY DEF TransferTake, Shape, SharedOK
  <1> QED
    BY ONLY <1>1, <1>2, SetAddr

\* The address of a free bucket of the new table.
LEMMA PlaceSets ==
  ASSUME Shape, NEW t \in Thread, TransferPlace(t), newTable[i[t]].addr = Null
  PROVE  /\ i[t] \in 0 .. newCapacity - 1 /\ moving[t] \in Key
         /\ IsSet(newTable', newTable, newCapacity, i[t],
                  [addr |-> moving[t], value |-> newTable[i[t]].value])
  <1>1. i[t] \in 0 .. newCapacity - 1 /\ moving[t] \in Key /\ newCapacity \in Nat
    BY DEF TransferPlace, Shape, SharedOK, LocalsOK, LabelInv
  <1>2. newTable \in [0 .. newCapacity - 1 -> Bucket] /\ newTable' = [newTable EXCEPT ![i[t]].addr = moving[t]]
    BY DEF TransferPlace, Shape, SharedOK
  <1> QED
    BY ONLY <1>1, <1>2, SetAddr

\* The value of that bucket.
LEMMA CopySets ==
  ASSUME Shape, NEW t \in Thread, TransferCopyValue(t)
  PROVE  /\ i[t] \in 0 .. newCapacity - 1 /\ pos[t] \in 0 .. capacity - 1
         /\ IsSet(newTable', newTable, newCapacity, i[t],
                  [addr |-> newTable[i[t]].addr, value |-> table[pos[t]].value])
  <1>1. i[t] \in 0 .. newCapacity - 1 /\ pos[t] \in 0 .. capacity - 1 /\ newCapacity \in Nat
    BY DEF TransferCopyValue, Transferring, Shape, SharedOK, LocalsOK, LabelInv
  <1>2. newTable \in [0 .. newCapacity - 1 -> Bucket] /\ newTable' = [newTable EXCEPT ![i[t]].value = table[pos[t]].value]
    BY DEF TransferCopyValue, Shape, SharedOK
  <1>3. table[pos[t]].value \in Thread \cup {Null}
    BY <1>1 DEF Bucket, Shape, SharedOK
  <1> QED
    BY ONLY <1>1, <1>2, <1>3, SetValue

\* The end of a transfer keeps the types of what it changes.
LEMMA TransferEndTypes ==
  ASSUME SharedOK, LocalsOK, NEW t \in Thread, NEW from, TransferEnd(t, from)
  PROVE  /\ pc' \in [Thread -> Labels] /\ pos' \in [Thread -> Nat] /\ i' \in [Thread -> Nat]
         /\ moving' \in [Thread -> Key \cup {Null}] /\ resizePos' \in Nat
  <1>0. {"sweep", "help"} \subseteq Labels
    BY DEF Labels, MasterLabels, HelperLabels
  <1>1. pc' \in [Thread -> Labels]
    BY <1>0 DEF LocalsOK, TransferEnd, Goto
  <1>2. pos \in [Thread -> Nat] /\ resizePos \in Nat
    BY DEF SharedOK, LocalsOK
  <1>3. pos' \in [Thread -> Nat] /\ resizePos' \in Nat
    BY <1>2 DEF TransferEnd
  <1>4. i' \in [Thread -> Nat] /\ moving' \in [Thread -> Key \cup {Null}]
    BY DEF LocalsOK, TransferEnd
  <1> QED
    BY <1>1, <1>3, <1>4

\* The types after a step of yarn_map_probe.
LEMMA ProbeTypes ==
  ASSUME Shape, NEW t \in Thread, Probe(t) \/ \E k \in Key : Call(t, k)
  PROVE  SharedOK' /\ LocalsOK'
  <1> USE DEF Shape, SharedOK, LocalsOK, Goto, shared, locals, Labels, UserLabels,
        HelperLabels, MasterLabels, Ready, Probing
  <1>0. \A k \in Key : Hash[k] % capacity \in Nat
    BY HashAssumption, ModRange
  <1>1. CASE Enter(t)
    BY <1>1 DEF Enter
  <1>2. CASE Gate(t)
    BY <1>2 DEF Gate
  <1>3. CASE Retreat(t)
    BY <1>3 DEF Retreat
  <1>4. CASE Start(t)
    <2>1. key[t] \in Key
      BY <1>4 DEF Start, LabelInv
    <2> QED
      BY <1>0, <1>4, <2>1 DEF Start
  <1>5. CASE Look(t)
    BY <1>5 DEF Look
  <1>6. CASE LookOn(t)
    <2>1. (i[t] + 1) % capacity \in Nat
      BY ModRange
    <2> QED
      BY <1>6, <2>1 DEF LookOn
  <1>7. CASE Await(t)
    <2>1. i[t] \in 0 .. capacity - 1
      BY <1>7 DEF Await, LabelInv
    <2> QED
      BY <1>7, <2>1 DEF Await, Bucket
  <1>8. CASE Claim(t)
    <2>1. table' \in [0 .. capacity - 1 -> Bucket]
      BY <1>8, ClaimSets DEF Claim, IsSet
    <2> QED
      BY <1>8, <2>1 DEF Claim
  <1>9. CASE Fill(t)
    <2>1. table' \in [0 .. capacity - 1 -> Bucket]
      BY <1>9, FillSets DEF IsSet
    <2> QED
      BY <1>9, <2>1 DEF Fill
  <1>10. CASE Count(t)
    BY <1>10 DEF Count
  <1>11. CASE LoadFactor(t)
    BY <1>11 DEF LoadFactor, ForgetProbe
  <1>12. CASE Exit(t)
    BY <1>12 DEF Exit, After
  <1>13. CASE \E k \in Key : Call(t, k)
    BY <1>13 DEF Call
  <1> QED
    BY <1>1, <1>2, <1>3, <1>4, <1>5, <1>6, <1>7, <1>8, <1>9, <1>10, <1>11, <1>12, <1>13
       DEF Probe

\* The types after a step of resize_master.
LEMMA MasterTypes ==
  ASSUME Shape, NEW t \in Thread, Master(t)
  PROVE  SharedOK' /\ LocalsOK'
  <1> USE DEF Shape, SharedOK, LocalsOK, Goto, shared, locals, Labels, UserLabels,
        HelperLabels, MasterLabels, Ready, Probing, Transferring
  <1>1. CASE Elect(t)
    BY <1>1 DEF Elect
  <1>2. CASE Fallback(t)
    BY <1>2 DEF Fallback
  <1>3. CASE Prepare(t)
    <2>1. Table(2 * capacity) \in [0 .. 2 * capacity - 1 -> Bucket] /\ 2 * capacity \in Nat
      BY TableType
    <2> QED
      BY <1>3, <2>1 DEF Prepare
  <1>4. CASE Drain(t)
    BY <1>4 DEF Drain
  <1>5. CASE Open(t)
    BY <1>5 DEF Open
  <1>6. CASE Sweep(t)
    <2>1. CASE pos[t] < capacity
      BY <1>6, <2>1 DEF Sweep
    <2>2. CASE ~(pos[t] < capacity)
      <3>1. {"idle", "sweep"} \subseteq {"idle", "reenter", "return", "sweep"}
        OBVIOUS
      <3>2. caller' = [caller EXCEPT ![t] = "idle"] /\ pos' = [pos EXCEPT ![t] = 0] /\ resizeState' = "waiting"
        BY <1>6, <2>2 DEF Sweep
      <3>3. pc' = [pc EXCEPT ![t] = "settle"]
        BY <1>6, <2>2 DEF Sweep
      <3>4. UNCHANGED <<table, capacity, size, newTable, newCapacity, resizePos, key, result, newSize, i, n, moving>>
        BY <1>6 DEF Sweep
      <3> QED
        BY <3>2, <3>3, <3>4
    <2> QED
      BY <2>1, <2>2
  <1>7. CASE Settle(t)
    BY <1>7 DEF Settle
  <1>8. CASE Swap(t)
    <2>1. newCapacity = 2 * capacity /\ newCapacity \in Nat \ {0}
      BY <1>8 DEF Swap, MasterInv
    <2>2. << >> \in [0 .. 0 - 1 -> Bucket]
      OBVIOUS
    <2> QED
      BY <1>8, <2>1, <2>2 DEF Swap
  <1>9. CASE Reopen(t)
    BY <1>9 DEF Reopen
  <1> QED
    BY <1>1, <1>2, <1>3, <1>4, <1>5, <1>6, <1>7, <1>8, <1>9 DEF Master

\* The types after a step of resize_helper or transfer_item: no bucket beyond the table.
LEMMA HelperTypes ==
  ASSUME Shape, ~RoundsUp, NEW t \in Thread, Helper(t)
  PROVE  SharedOK' /\ LocalsOK'
  <1> USE DEF Shape, SharedOK, LocalsOK, Goto, shared, locals, Labels, UserLabels,
        HelperLabels, MasterLabels, Ready, Probing, Transferring
  <1>1. CASE TransferRead(t)
    <2>1. pos[t] \in 0 .. capacity - 1
      BY <1>1 DEF TransferRead, LabelInv
    <2>2. CASE table[pos[t]].addr = Null
      BY <1>1, <2>2, TransferEndTypes, Zenon DEF TransferRead
    <2>3. CASE table[pos[t]].addr # Null
      BY <1>1, <2>1, <2>3 DEF TransferRead, Bucket
    <2> QED
      BY <2>2, <2>3
  <1>2. CASE TransferTake(t)
    <2>1. pos[t] \in 0 .. capacity - 1 /\ moving[t] \in Key /\ newCapacity \in Nat \ {0}
      BY <1>2 DEF TransferTake, LabelInv
    <2>2. CASE table[pos[t]].addr = moving[t]
      <3>1. Hash[moving[t]] % newCapacity \in Nat
        BY <2>1, HashAssumption, ModRange
      <3>2. table' \in [0 .. capacity - 1 -> Bucket]
        BY <1>2, <2>2, TakeSets DEF IsSet
      <3> QED
        BY <1>2, <2>1, <2>2, <3>1, <3>2 DEF TransferTake
    <2>3. CASE table[pos[t]].addr # moving[t]
      BY <1>2, <2>3, TransferEndTypes, Zenon DEF TransferTake
    <2> QED
      BY <2>2, <2>3
  <1>3. CASE TransferPlace(t)
    <2>1. i[t] \in 0 .. newCapacity - 1 /\ moving[t] \in Key /\ newCapacity \in Nat \ {0}
      BY <1>3 DEF TransferPlace, LabelInv
    <2>2. CASE newTable[i[t]].addr = Null
      <3>1. newTable' \in [0 .. newCapacity - 1 -> Bucket]
        BY <1>3, <2>2, PlaceSets DEF IsSet
      <3> QED
        BY <1>3, <2>2, <3>1 DEF TransferPlace
    <2>3. CASE newTable[i[t]].addr # Null
      <3>1. (i[t] + 1) % newCapacity \in Nat
        BY <2>1, ModRange
      <3> QED
        BY <1>3, <2>3, <3>1 DEF TransferPlace
    <2> QED
      BY <2>2, <2>3
  <1>4. CASE TransferCopyValue(t)
    <2>2. newTable' \in [0 .. newCapacity - 1 -> Bucket]
      BY <1>4, CopySets DEF IsSet
    <2>3. TransferEnd(t, "copy")
      BY <1>4 DEF TransferCopyValue
    <2>4. /\ pc' \in [Thread -> Labels] /\ pos' \in [Thread -> Nat] /\ i' \in [Thread -> Nat]
          /\ moving' \in [Thread -> Key \cup {Null}] /\ resizePos' \in Nat
      BY <2>3, TransferEndTypes, Zenon
    <2>5. UNCHANGED <<table, capacity, size, newCapacity, resizeState, key, result, newSize, n, caller>>
      BY <1>4 DEF TransferCopyValue
    <2> HIDE DEF Labels
    <2> QED
      BY <2>2, <2>4, <2>5
  <1>5. CASE HelperEnter(t)
    BY <1>5 DEF HelperEnter
  <1>6. CASE HelperCheck(t)
    BY <1>6 DEF HelperCheck
  <1>7. CASE HelperPick(t)
    <2> DEFINE minPos == resizePos + HelperThreshold
    <2>1. minPos \in Nat
      BY CapacityAssumption
    <2>2. UNCHANGED <<shared, key, result, newSize, i, n, caller, moving>>
      BY <1>7 DEF HelperPick
    <2>3. pc' = [pc EXCEPT ![t] = "transfer"] \/ pc' = [pc EXCEPT ![t] = "help_leave"]
      BY <1>7 DEF HelperPick
    <2>4. pos' = pos \/ \E p \in Nat : pos' = [pos EXCEPT ![t] = p]
      <3> HIDE DEF minPos
      <3>1. minPos .. capacity - 1 \subseteq Nat
        BY <2>1
      <3> QED
        BY <1>7, <3>1 DEF HelperPick, minPos
    <2>5. {"transfer", "help_leave"} \subseteq Labels
      OBVIOUS
    <2> HIDE DEF Labels
    <2>6. pc' \in [Thread -> Labels]
      BY <2>3, <2>5
    <2>7. pos \in [Thread -> Nat]
      OBVIOUS
    <2>8. pos' \in [Thread -> Nat]
      BY ONLY <2>4, <2>7, t \in Thread
    <2> QED
      BY <2>2, <2>6, <2>8
  <1>8. CASE HelperLeave(t)
    BY <1>8 DEF HelperLeave, HelperReturn, After
  <1>9. CASE HelperSpin(t)
    BY <1>9 DEF HelperSpin, HelperReturn, After
  <1> QED
    BY <1>1, <1>2, <1>3, <1>4, <1>5, <1>6, <1>7, <1>8, <1>9 DEF Helper

-----------------------------------------------------------------------------
(* The counters.                                                            *)

\* A set that one thread may have joined or left is larger or smaller by that thread.
LEMMA CountStep ==
  ASSUME IsFiniteSet(Thread), NEW t \in Thread, NEW S \in SUBSET Thread, NEW T \in SUBSET Thread,
         \A u \in Thread \ {t} : u \in T <=> u \in S
  PROVE  /\ Cardinality(S) \in Nat /\ Cardinality(T) \in Nat
         /\ t \in S /\ t \notin T => Cardinality(T) = Cardinality(S) - 1
         /\ t \notin S /\ t \in T => Cardinality(T) = Cardinality(S) + 1
         /\ (t \in S <=> t \in T) => Cardinality(T) = Cardinality(S)
  <1>1. IsFiniteSet(S) /\ IsFiniteSet(T)
    BY FS_Subset
  <1>2. Cardinality(S) \in Nat /\ Cardinality(T) \in Nat
    BY <1>1, FS_CardinalityType
  <1>3. CASE t \in S /\ t \notin T
    <2>1. T = S \ {t}
      BY <1>3
    <2> QED
      BY <1>1, <1>2, <1>3, <2>1, FS_RemoveElement
  <1>4. CASE t \notin S /\ t \in T
    <2>1. T = S \cup {t}
      BY <1>4
    <2> QED
      BY <1>1, <1>2, <1>4, <2>1, FS_AddElement
  <1>5. CASE t \in S <=> t \in T
    <2>1. T = S
      BY <1>5
    <2> QED
      BY <1>2, <1>5, <2>1
  <1> QED
    BY <1>2, <1>3, <1>4, <1>5

\* A counter goes up when the thread enters, down when it leaves.
Counts(new, old, before, after) ==
  /\ before /\ ~after => new = old - 1
  /\ ~before /\ after => new = old + 1
  /\ (before <=> after) => new = old

\* Every step moves the two counters as the thread comes and goes.
LEMMA StepCounts ==
  ASSUME Shape, NEW t \in Thread, Step(t) \/ \E k \in Key : Call(t, k)
  PROVE  /\ Counts(userCount', userCount, IsUser(t), IsUser(t)')
         /\ Counts(helperCount', helperCount, IsHelper(t), IsHelper(t)')
  <1>0. pc \in [Thread -> Labels] /\ caller \in [Thread -> {"idle", "reenter", "return", "sweep"}]
    BY DEF Shape, LocalsOK
  <1>1. /\ pc[t] = "sweep" => caller[t] = "sweep"
        /\ caller[t] = "sweep" => pc[t] \in Transferring \cup {"sweep"}
    BY DEF Shape, LabelInv
  <1> USE <1>0, <1>1 DEF Counts, IsUser, IsHelper, IsMaster, Transferring, MasterLabels,
        HelperLabels, UserLabels, Ready, Probing, Goto, shared, locals, After,
        HelperReturn
  <1>2. CASE Probe(t)
    BY <1>2 DEF Probe, Enter, Gate, Retreat, Start, Look, LookOn, Await, Claim, Fill,
       Count, LoadFactor, Exit
  <1>3. CASE Master(t)
    BY <1>3 DEF Master, Elect, Fallback, Prepare, Drain, Open, Sweep, Settle, Swap,
       Reopen
  <1>4. CASE Helper(t)
    BY <1>4 DEF Helper, TransferRead, TransferTake, TransferPlace, TransferCopyValue,
       TransferEnd, HelperEnter, HelperCheck, HelperPick, HelperLeave, HelperSpin
  <1>5. CASE \E k \in Key : Call(t, k)
    BY <1>5 DEF Call
  <1> QED
    BY <1>2, <1>3, <1>4, <1>5 DEF Step

\* user_count and helper_count count the threads they are meant to count.
LEMMA StepCountInv ==
  ASSUME IsFiniteSet(Thread), Shape, NEW t \in Thread, Step(t) \/ \E k \in Key : Call(t, k)
  PROVE  CountInv'
  <1>1. Others(t)
    BY StepOthers DEF Shape
  <1>2. /\ \A u \in Thread \ {t} : u \in Users' <=> u \in Users
        /\ \A u \in Thread \ {t} : u \in Helpers' <=> u \in Helpers
    BY <1>1 DEF Others, Users, Helpers, IsUser, IsHelper, IsMaster
  <1>3. /\ t \in Users <=> IsUser(t)
        /\ t \in Users' <=> IsUser(t)'
        /\ t \in Helpers <=> IsHelper(t)
        /\ t \in Helpers' <=> IsHelper(t)'
    BY DEF Users, Helpers
  <1>4. Users \in SUBSET Thread /\ Users' \in SUBSET Thread
        /\ Helpers \in SUBSET Thread /\ Helpers' \in SUBSET Thread
    BY DEF Users, Helpers
  <1>5. /\ Counts(userCount', userCount, IsUser(t), IsUser(t)')
        /\ Counts(helperCount', helperCount, IsHelper(t), IsHelper(t)')
    BY StepCounts
  <1>6. userCount = Cardinality(Users) /\ helperCount = Cardinality(Helpers)
    BY DEF Shape, CountInv
  <1>7. userCount' = Cardinality(Users')
    BY <1>2, <1>3, <1>4, <1>5, <1>6, CountStep DEF Counts
  <1>8. helperCount' = Cardinality(Helpers')
    BY <1>2, <1>3, <1>4, <1>5, <1>6, CountStep DEF Counts
  <1> QED
    BY <1>7, <1>8 DEF CountInv

(* The last user that is left, and the wait for the helpers.                *)
LEMMA LastUser ==
  ASSUME IsFiniteSet(Thread), Shape, NEW t \in Thread, IsUser(t), userCount = 1
  PROVE  \A u \in Thread : IsUser(u) => u = t
  <1>1. IsFiniteSet(Users) /\ t \in Users /\ Cardinality(Users) = 1
    BY FS_Subset DEF Users, Shape, CountInv
  <1>2. IsFiniteSet(Users \ {t}) /\ Cardinality(Users \ {t}) = 0
    BY <1>1, FS_RemoveElement
  <1>3. Users \ {t} = {}
    BY <1>2, FS_EmptySet
  <1> QED
    BY <1>3 DEF Users

\* A count of zero means that nobody helps.
LEMMA NoHelper ==
  ASSUME IsFiniteSet(Thread), Shape, helperCount = 0
  PROVE  \A u \in Thread : ~IsHelper(u)
  <1>1. IsFiniteSet(Helpers) /\ Cardinality(Helpers) = 0
    BY FS_Subset DEF Helpers, Shape, CountInv
  <1>2. Helpers = {}
    BY <1>1, FS_EmptySet
  <1> QED
    BY <1>2 DEF Helpers

-----------------------------------------------------------------------------
(* The master and the labels.                                               *)

\* Where only a master goes, and what makes a resize go on.
LEMMA ProbeMasters ==
  ASSUME Shape, NEW t \in Thread, Probe(t) \/ \E k \in Key : Call(t, k)
  PROVE  MasterInv'
  <1>1. Others(t)
    BY StepOthers DEF Shape, Step
  <1>2. UNCHANGED <<resizeState, capacity, newCapacity>>
    BY DEF Probe, Enter, Gate, Retreat, Start, Look, LookOn, Await, Claim, Fill, Count,
       LoadFactor, Exit, Call, shared
  <1>3. pc'[t] \in Labels \ (MasterLabels \cup Transferring)
    BY DEF Probe, Enter, Gate, Retreat, Start, Look, LookOn, Await, Claim, Fill, Count,
       LoadFactor, Exit, Call, Goto, After, Shape, LocalsOK, Labels, UserLabels,
       Probing, MasterLabels, Ready, Transferring
  <1>4. \A u \in Thread : IsMaster(u)' => u # t /\ IsMaster(u)
    BY <1>1, <1>3 DEF IsMaster, Others
  <1>5. \A u \in Thread : pc'[u] \in MasterLabels => pc'[u] = pc[u]
    BY <1>1, <1>3 DEF Others
  <1> QED
    BY <1>2, <1>4, <1>5 DEF Shape, MasterInv, MasterLabels, Ready

\* One master, after a step of resize_master.
LEMMA MasterMasters ==
  ASSUME Shape, NEW t \in Thread, Master(t)
  PROVE  MasterInv'
  <1>1. Others(t)
    BY StepOthers DEF Shape, Step
  <1> USE <1>1 DEF Others, Shape, LocalsOK, SharedOK, MasterInv, IsMaster, MasterLabels,
        Ready, Transferring, Goto, shared, locals
  <1>2. CASE Elect(t)
    <2>1. CASE resizeState = "nothing"
      BY <1>2, <2>1 DEF Elect
    <2>2. CASE resizeState # "nothing"
      <3>1. /\ pc[t] = "master" /\ pc'[t] = "fallback"
            /\ UNCHANGED <<resizeState, capacity, newCapacity>>
        BY <1>2, <2>2 DEF Elect
      <3>2. \A u \in Thread : IsMaster(u)' => u # t /\ IsMaster(u)
        BY <3>1
      <3>3. \A u \in Thread : pc'[u] \in MasterLabels => pc'[u] = pc[u]
        BY <3>1
      <3>4. MasterInv
        OBVIOUS
      <3> QED
        BY ONLY <3>1, <3>2, <3>3, <3>4 DEF MasterInv, MasterLabels, Ready
    <2> QED
      BY <2>1, <2>2
  <1>3. CASE Fallback(t)
    BY <1>3 DEF Fallback
  <1>4. CASE Prepare(t)
    BY <1>4 DEF Prepare
  <1>5. CASE Drain(t)
    BY <1>5 DEF Drain
  <1>6. CASE Open(t)
    BY <1>6 DEF Open
  <1>7. CASE Sweep(t)
    <2>1. CASE pos[t] < capacity
      BY <1>7, <2>1 DEF Sweep, LabelInv
    <2>2. CASE ~(pos[t] < capacity)
      <3>1. /\ pc[t] = "sweep" /\ pc'[t] = "settle" /\ resizeState' = "waiting"
            /\ UNCHANGED <<capacity, newCapacity>> /\ newCapacity = 2 * capacity
        BY <1>7, <2>2 DEF Sweep
      <3>2. \A u \in Thread : u # t => ~IsMaster(u) /\ ~IsMaster(u)'
        BY <3>1
      <3>3. pc' \in [Thread -> Labels]
        BY <1>7, MasterTypes DEF Master
      <3> QED
        BY ONLY <3>1, <3>2, <3>3 DEF MasterInv, IsMaster, MasterLabels, Ready,
           Transferring
    <2> QED
      BY <2>1, <2>2
  <1>8. CASE Settle(t)
    BY <1>8 DEF Settle
  <1>9. CASE Swap(t)
    BY <1>9 DEF Swap
  <1>10. CASE Reopen(t)
    BY <1>10 DEF Reopen
  <1> QED
    BY <1>2, <1>3, <1>4, <1>5, <1>6, <1>7, <1>8, <1>9, <1>10 DEF Master

\* One master, after a step of resize_helper or transfer_item.
LEMMA HelperMasters ==
  ASSUME Shape, NEW t \in Thread, Helper(t)
  PROVE  MasterInv'
  <1>1. Others(t)
    BY StepOthers DEF Shape, Step
  <1>2. UNCHANGED <<resizeState, capacity, newCapacity>>
    BY DEF Helper, TransferRead, TransferTake, TransferPlace, TransferCopyValue,
       TransferEnd, HelperEnter, HelperCheck, HelperPick, HelperLeave, HelperSpin,
       shared
  <1>3. /\ pc'[t] \in MasterLabels => pc'[t] = "sweep" /\ pc[t] \in Transferring /\ caller[t] = "sweep"
        /\ caller'[t] = caller[t]
        /\ pc'[t] \in Transferring => pc[t] \in Transferring \/ caller[t] # "sweep"
    BY DEF Helper, TransferRead, TransferTake, TransferPlace, TransferCopyValue,
       TransferEnd, HelperEnter, HelperCheck, HelperPick, HelperLeave, HelperReturn,
       After, HelperSpin, Goto, locals, Shape, LocalsOK, LabelInv, Labels, UserLabels,
       Probing, MasterLabels, Ready, Transferring
  <1>4. \A u \in Thread : IsMaster(u)' => IsMaster(u)
    BY <1>1, <1>3 DEF IsMaster, Others
  <1>5. \A u \in Thread : pc'[u] \in MasterLabels \ {"sweep"} => pc'[u] = pc[u]
    BY <1>1, <1>3 DEF Others
  <1>6. \A u \in Thread : pc'[u] = "sweep" =>
          pc[u] = "sweep" \/ (u = t /\ pc[t] \in Transferring /\ caller[t] = "sweep")
    BY <1>1, <1>3 DEF Others, MasterLabels
  <1>7. pc[t] \in Transferring /\ caller[t] = "sweep" => resizeState = "resizing" /\ newCapacity = 2 * capacity
    BY DEF Shape, LabelInv, IsMaster
  <1> QED
    BY <1>2, <1>4, <1>5, <1>6, <1>7 DEF Shape, MasterInv, MasterLabels, Ready

\* What the labels tell, after a step of yarn_map_probe.
LEMMA ProbeLabels ==
  ASSUME Shape, NEW t \in Thread, Probe(t) \/ \E k \in Key : Call(t, k), SharedOK', LocalsOK'
  PROVE  LabelInv'
  <1>1. Others(t)
    BY StepOthers DEF Shape, Step
  <1>2. UNCHANGED <<resizeState, capacity, newCapacity>>
    BY DEF Probe, Enter, Gate, Retreat, Start, Look, LookOn, Await, Claim, Fill, Count,
       LoadFactor, Exit, Call, shared
  <1>3. pc'[t] \in Labels \ (MasterLabels \cup Transferring \cup {"help_pick"})
    BY DEF Probe, Enter, Gate, Retreat, Start, Look, LookOn, Await, Claim, Fill, Count,
       LoadFactor, Exit, Call, Goto, After, Shape, LocalsOK, Labels, UserLabels,
       Probing, MasterLabels, Ready, Transferring
  <1>4. caller'[t] # "sweep"
    BY DEF Probe, Enter, Gate, Retreat, Start, Look, LookOn, Await, Claim, Fill, Count,
       LoadFactor, Exit, Call, Goto, locals, Shape, LocalsOK, LabelInv, Transferring
  <1>5. key'[t] \in Key \/ pc'[t] = "idle"
    BY DEF Probe, Enter, Gate, Retreat, Start, Look, LookOn, Await, Claim, Fill, Count,
       LoadFactor, Exit, Call, Goto, locals, Shape, LocalsOK, LabelInv
  <1>6. pc'[t] \in {"look", "await", "claim", "fill"} => i'[t] < capacity
    <2> USE DEF Goto, locals, Shape, LocalsOK, SharedOK, LabelInv
    <2>1. CASE Start(t)
      <3>1. key[t] \in Key
        BY <2>1 DEF Start
      <3>2. Hash[key[t]] % capacity < capacity
        BY <3>1, HashAssumption, ModRange
      <3> QED
        BY <2>1, <3>2 DEF Start
    <2>2. CASE LookOn(t)
      <3>1. (i[t] + 1) % capacity < capacity
        <4>1. i \in [Thread -> Nat] /\ capacity \in Nat \ {0}
          BY ONLY Shape DEF Shape, SharedOK, LocalsOK
        <4>2. i[t] + 1 \in Nat
          BY ONLY <4>1, t \in Thread
        <4> QED
          BY ONLY <4>1, <4>2, ModRange
      <3> QED
        BY <2>2, <3>1 DEF LookOn
    <2>3. CASE ~Start(t) /\ ~LookOn(t)
      BY <2>3 DEF Probe, Enter, Gate, Retreat, Look, Await, Claim, Fill, Count,
         LoadFactor, Exit, Call, After
    <2> QED
      BY <2>1, <2>2, <2>3
  <1>7. \A u \in Thread \ {t} : IsMaster(u)' <=> IsMaster(u)
    BY <1>1 DEF Others, IsMaster
  <1>8. \A u \in Thread : pc'[u] = "swap" => pc[u] = "swap"
    BY <1>1, <1>3 DEF Others, MasterLabels
  <1> QED
    BY <1>1, <1>2, <1>3, <1>4, <1>5, <1>6, <1>7, <1>8 DEF Shape, LabelInv, Others,
       MasterLabels, Transferring

\* A thread at a label of the master is the only one there.
LEMMA MasterOnly ==
  ASSUME Shape, NEW t \in Thread, Master(t), LocalsOK'
  PROVE  \A u \in Thread \ {t} :
           /\ IsMaster(u)' <=> IsMaster(u)
           /\ IsMaster(t) => ~IsMaster(u)
  <1>1. Others(t)
    BY StepOthers DEF Shape, Step
  <1>2. \A u \in Thread \ {t} : IsMaster(u)' <=> IsMaster(u)
    BY <1>1 DEF Others, IsMaster
  <1> QED
    BY <1>2 DEF Shape, MasterInv

\* What the labels tell, after a step of resize_master.
LEMMA MasterLabelInv ==
  ASSUME IsFiniteSet(Thread), Shape, NEW t \in Thread, Master(t), SharedOK', LocalsOK'
  PROVE  LabelInv'
  <1>1. Others(t)
    BY StepOthers DEF Shape, Step
  <1>2. \A u \in Thread \ {t} : /\ IsMaster(u)' <=> IsMaster(u)
                                /\ IsMaster(t) => ~IsMaster(u)
    BY MasterOnly
  <1>3. LabelInv /\ MasterInv /\ SharedOK
    BY DEF Shape
  <1>4. \A u \in Thread \ {t} : pc'[u] = pc[u] /\ key'[u] = key[u] /\ i'[u] = i[u]
          /\ caller'[u] = caller[u] /\ pos'[u] = pos[u] /\ moving'[u] = moving[u]
    BY <1>1 DEF Others
  <1>5. pc \in [Thread -> Labels] /\ caller \in [Thread -> {"idle", "reenter", "return", "sweep"}] /\ pos \in [Thread -> Nat]
    BY DEF Shape, LocalsOK
  <1> USE <1>2, <1>3, <1>4, <1>5 DEF LabelInv, SharedOK, Transferring, Goto, shared,
        locals
  <1>6. CASE Elect(t)
    BY <1>6 DEF Elect
  <1>7. CASE Fallback(t)
    BY <1>7 DEF Fallback
  <1>8. CASE Prepare(t)
    BY <1>8 DEF Prepare, MasterInv, Ready
  <1>9. CASE Drain(t)
    BY <1>9 DEF Drain
  <1>10. CASE Open(t)
    BY <1>10 DEF Open, MasterInv, Ready
  <1>11. CASE Sweep(t)
    <2>0. /\ IsMaster(t) /\ resizeState = "resizing" /\ newCapacity = 2 * capacity
          /\ \A u \in Thread : pc[u] # "swap"
      BY <1>11 DEF Sweep, MasterInv, IsMaster, MasterLabels
    <2>1. CASE pos[t] < capacity
      BY <1>11, <2>0, <2>1 DEF Sweep, IsMaster
    <2>2. CASE ~(pos[t] < capacity)
      BY <1>11, <2>0, <2>2 DEF Sweep
    <2> QED
      BY <2>1, <2>2
  <1>12. CASE Settle(t)
    <2>1. \A u \in Thread : ~IsHelper(u)
      BY <1>12, NoHelper DEF Settle
    <2>2. IsMaster(t)
      BY <1>12 DEF Settle, IsMaster, MasterLabels
    <2>3. \A u \in Thread \ {t} : pc[u] \notin Transferring \cup {"help_pick"}
      BY <2>1, <2>2 DEF IsHelper, IsMaster, HelperLabels
    <2> QED
      BY <1>12, <2>3 DEF Settle
  <1>13. CASE Swap(t)
    <2>1. \A u \in Thread : pc[u] \notin Transferring \cup {"help_pick"}
      BY <1>13 DEF Swap
    <2>2. capacity <= newCapacity /\ capacity' = newCapacity /\ i \in [Thread -> Nat] /\ i' = i
      BY <1>13 DEF Swap, MasterInv, Shape, LocalsOK
    <2>3. \A m \in Nat : m < capacity => m < capacity'
      BY ONLY <1>3, <2>2 DEF SharedOK
    <2>4. pc'[t] = "reopen" /\ pc[t] = "swap" /\ UNCHANGED <<key, i, caller, pos, moving>>
      BY <1>13 DEF Swap
    <2> QED
      BY <2>1, <2>2, <2>3, <2>4
  <1>14. CASE Reopen(t)
    <2>1. \A u \in Thread : pc[u] \notin Transferring \cup {"help_pick"}
      BY <1>14 DEF Reopen, MasterInv
    <2> QED
      BY <1>14, <2>1 DEF Reopen
  <1> QED
    BY <1>6, <1>7, <1>8, <1>9, <1>10, <1>11, <1>12, <1>13, <1>14 DEF Master

\* What the labels tell, after a step of resize_helper or transfer_item.
LEMMA HelperLabelInv ==
  ASSUME Shape, ~RoundsUp, NEW t \in Thread, Helper(t), SharedOK', LocalsOK'
  PROVE  LabelInv'
  <1>1. Others(t)
    BY StepOthers DEF Shape, Step
  <1>2. UNCHANGED <<resizeState, capacity, newCapacity>>
    BY DEF Helper, TransferRead, TransferTake, TransferPlace, TransferCopyValue,
       TransferEnd, HelperEnter, HelperCheck, HelperPick, HelperLeave, HelperSpin,
       shared
  <1>3. LabelInv /\ MasterInv /\ SharedOK /\ LocalsOK
    BY DEF Shape
  <1>4. \A u \in Thread \ {t} : pc'[u] = pc[u] /\ key'[u] = key[u] /\ i'[u] = i[u]
          /\ caller'[u] = caller[u] /\ pos'[u] = pos[u] /\ moving'[u] = moving[u]
          /\ (IsMaster(u)' <=> IsMaster(u))
    BY <1>1 DEF Others, IsMaster
  <1>5. pc[t] # "idle" /\ key'[t] = key[t] /\ caller'[t] = caller[t] /\ key[t] \in Key
    BY <1>3 DEF LabelInv, Helper, TransferRead, TransferTake, TransferPlace,
       TransferCopyValue, TransferEnd, HelperEnter, HelperCheck, HelperPick,
       HelperLeave, HelperSpin, locals, Goto
  <1>6. /\ pc'[t] = "sweep" => caller[t] = "sweep"
        /\ caller[t] = "sweep" => pc'[t] \in Transferring \cup {"sweep"}
        /\ pc'[t] \notin {"look", "await", "claim", "fill", "swap"}
    BY <1>3 DEF LocalsOK, LabelInv, Helper, TransferRead, TransferTake, TransferPlace,
       TransferCopyValue, TransferEnd, HelperEnter, HelperCheck, HelperPick,
       HelperLeave, HelperReturn, After, HelperSpin, Goto, locals, Transferring
  <1>7. pc'[t] \in Transferring \cup {"help_pick"} =>
          /\ resizeState \in {"resizing", "waiting"} /\ newCapacity = 2 * capacity
          /\ IsMaster(t)' => resizeState = "resizing"
          /\ \A u \in Thread : pc[u] # "swap"
    <2> SUFFICES ASSUME pc'[t] \in Transferring \cup {"help_pick"}
                 PROVE  /\ resizeState \in {"resizing", "waiting"} /\ newCapacity = 2 * capacity
                        /\ IsMaster(t)' => resizeState = "resizing"
                        /\ \A u \in Thread : pc[u] # "swap"
      OBVIOUS
    <2>1. CASE pc[t] = "sweep"
      BY <2>1 DEF Helper, TransferRead, TransferTake, TransferPlace, TransferCopyValue,
         HelperEnter, HelperCheck, HelperPick, HelperLeave, HelperSpin, Goto
    <2>2. CASE pc[t] \in Transferring \cup {"help_pick"}
      <3>1. IsMaster(t)' => IsMaster(t)
        BY <1>3, <1>5, <2>2 DEF IsMaster, LabelInv, Transferring, MasterLabels, Ready,
           Helper, TransferRead, TransferTake, TransferPlace, TransferCopyValue,
           TransferEnd, HelperEnter, HelperCheck, HelperPick, HelperLeave, HelperSpin,
           Goto, LocalsOK
      <3> QED
        BY <1>3, <2>2, <3>1 DEF LabelInv
    <2>3. CASE pc[t] \notin Transferring \cup {"help_pick", "sweep"}
      <3>1. pc[t] = "help" /\ pc'[t] = "help_pick" /\ resizeState = "resizing"
        BY <1>3, <2>3 DEF Transferring, LocalsOK, Helper, TransferRead, TransferTake,
           TransferPlace, TransferCopyValue, HelperEnter, HelperCheck, HelperPick,
           HelperLeave, HelperReturn, After, HelperSpin, Goto
      <3>2. ~IsMaster(t)'
        BY <3>1 DEF IsMaster, MasterLabels, Ready, Transferring
      <3> QED
        BY <1>3, <3>1, <3>2 DEF MasterInv
    <2> QED
      BY <2>1, <2>2, <2>3
  <1>8. pc'[t] \in Transferring => pos'[t] < capacity
    <2>1. CASE HelperPick(t)
      <3> DEFINE minPos == resizePos + HelperThreshold
      <3>1. minPos \in Nat
        BY <1>3, CapacityAssumption DEF SharedOK
      <3>2. pc'[t] = "transfer" => \E p \in minPos .. capacity - 1 : pos' = [pos EXCEPT ![t] = p]
        BY <1>3, <2>1 DEF HelperPick, Goto, LocalsOK
      <3> HIDE DEF minPos
      <3>3. \A p \in minPos .. capacity - 1 : p < capacity
        BY <1>3, <3>1 DEF SharedOK
      <3>4. pc'[t] \in Transferring => pc'[t] = "transfer"
        BY <1>3, <2>1 DEF HelperPick, Goto, LocalsOK, Transferring
      <3> QED
        BY <1>3, <3>2, <3>3, <3>4 DEF LocalsOK
    <2>2. CASE ~HelperPick(t)
      BY <1>3, <2>2 DEF LocalsOK, LabelInv, Helper, TransferRead, TransferTake,
         TransferPlace, TransferCopyValue, TransferEnd, HelperEnter, HelperCheck,
         HelperLeave, HelperReturn, After, HelperSpin, Goto, locals, Transferring
    <2> QED
      BY <2>1, <2>2
  <1>9. pc'[t] \in {"take", "place", "copy"} => moving'[t] \in Key
    <2>1. CASE TransferRead(t)
      <3>1. pos[t] \in 0 .. capacity - 1
        BY <1>3, <2>1 DEF TransferRead, LabelInv, LocalsOK, SharedOK, Transferring
      <3>2. table[pos[t]].addr \in Key \cup {Null}
        BY <1>3, <3>1 DEF SharedOK, Bucket
      <3> QED
        BY <1>3, <2>1, <3>2 DEF TransferRead, TransferEnd, Goto, LocalsOK
    <2>2. CASE ~TransferRead(t)
      BY <1>3, <2>2 DEF LocalsOK, LabelInv, Helper, TransferTake, TransferPlace,
         TransferCopyValue, TransferEnd, HelperEnter, HelperCheck, HelperPick,
         HelperLeave, HelperReturn, After, HelperSpin, Goto, locals, Transferring
    <2> QED
      BY <2>1, <2>2
  <1>10. pc'[t] \in {"place", "copy"} => i'[t] < newCapacity
    <2>1. CASE TransferTake(t)
      <3>1. moving[t] \in Key /\ newCapacity \in Nat \ {0}
        BY <1>3, <2>1 DEF TransferTake, LabelInv, LocalsOK, SharedOK, Transferring
      <3>2. Hash[moving[t]] % newCapacity < newCapacity
        BY <3>1, HashAssumption, ModRange
      <3> QED
        BY <1>3, <2>1, <3>2 DEF TransferTake, TransferEnd, Goto, LocalsOK
    <2>2. CASE TransferPlace(t)
      <3>0. pc[t] = "place" /\ i[t] \in Nat /\ newCapacity \in Nat
        BY <1>3, <2>2 DEF TransferPlace, LocalsOK, SharedOK
      <3>1. i[t] < newCapacity
        BY <1>3, <3>0 DEF LabelInv
      <3>2. (i[t] + 1) % newCapacity < newCapacity
        <4>1. newCapacity \in Nat \ {0} /\ i[t] + 1 \in Nat
          BY ONLY <3>0, <3>1
        <4> QED
          BY ONLY <4>1, ModRange
      <3>3. i' = i \/ i' = [i EXCEPT ![t] = (i[t] + 1) % newCapacity]
        BY <2>2 DEF TransferPlace
      <3>4. i \in [Thread -> Nat]
        BY <1>3 DEF LocalsOK
      <3> QED
        BY ONLY <3>1, <3>2, <3>3, <3>4, t \in Thread
    <2>3. CASE ~TransferTake(t) /\ ~TransferPlace(t)
      BY <1>3, <2>3 DEF LocalsOK, LabelInv, Helper, TransferRead, TransferCopyValue,
         TransferEnd, HelperEnter, HelperCheck, HelperPick, HelperLeave, HelperReturn,
         After, HelperSpin, Goto, locals, Transferring
    <2> QED
      BY <2>1, <2>2, <2>3
  <1> QED
    BY <1>2, <1>3, <1>4, <1>5, <1>6, <1>7, <1>8, <1>9, <1>10 DEF LabelInv, Transferring

\* The shape is inductive.
LEMMA StepShape ==
  IsFiniteSet(Thread) /\ ~RoundsUp /\ Shape /\ [Next]_vars => Shape'
  <1> SUFFICES ASSUME IsFiniteSet(Thread), ~RoundsUp, Shape, [Next]_vars PROVE Shape'
    OBVIOUS
  <1>1. ASSUME NEW t \in Thread, Step(t) \/ \E k \in Key : Call(t, k)
        PROVE  Shape'
    <2>1. SharedOK' /\ LocalsOK'
      <3>1. CASE Probe(t) \/ \E k \in Key : Call(t, k)
        BY <3>1, ProbeTypes
      <3>2. CASE Master(t) \/ Helper(t)
        BY <3>2, MasterTypes, HelperTypes
      <3> QED
        BY <1>1, <3>1, <3>2 DEF Step
    <2>2. CountInv'
      BY <1>1, StepCountInv
    <2>3. MasterInv'
      BY <1>1, ProbeMasters, MasterMasters, HelperMasters DEF Step
    <2>4. LabelInv'
      BY <1>1, <2>1, ProbeLabels, MasterLabelInv, HelperLabelInv DEF Step
    <2> QED
      BY <2>1, <2>2, <2>3, <2>4 DEF Shape
  <1>2. CASE UNCHANGED vars
    <2>1. Users' = Users /\ Helpers' = Helpers
      BY <1>2 DEF vars, shared, locals, Users, Helpers, IsUser, IsHelper, IsMaster
    <2> QED
      BY <1>2, <2>1 DEF vars, shared, locals, Shape, SharedOK, LocalsOK, CountInv,
         MasterInv, LabelInv, IsMaster
  <1> QED
    BY <1>1, <1>2 DEF Next

\* A key is added by the thread that asks for it, and no other step touches the ghost.
LEMMA StepDict ==
  Shape /\ DictOK /\ [Next]_vars => DictOK'
  <1> SUFFICES ASSUME Shape, DictOK, [Next]_vars PROVE DictOK'
    OBVIOUS
  <1>1. ASSUME NEW t \in Thread, Claim(t) PROVE DictOK'
    <2>1. key[t] \in Key
      BY <1>1 DEF Shape, LabelInv, Claim
    <2> QED
      BY <1>1, <2>1 DEF Claim, DictOK
  <1>2. ASSUME NEW t \in Thread, Probe(t), ~Claim(t) PROVE DictOK'
    BY <1>2 DEF Probe, Enter, Gate, Retreat, Start, Look, LookOn, Await, Fill, Count,
       LoadFactor, Exit, DictOK
  <1>3. ASSUME NEW t \in Thread, Master(t) PROVE DictOK'
    BY <1>3 DEF Master, Elect, Fallback, Prepare, Drain, Open, Sweep, Settle, Swap, Reopen,
       DictOK
  <1>4. ASSUME NEW t \in Thread, Helper(t) PROVE DictOK'
    BY <1>4 DEF Helper, TransferRead, TransferTake, TransferPlace, TransferCopyValue,
       HelperEnter, HelperCheck, HelperPick, HelperLeave, HelperSpin, DictOK
  <1>5. ASSUME NEW t \in Thread, NEW k \in Key, Call(t, k) PROVE DictOK'
    BY <1>5 DEF Call, DictOK
  <1>6. UNCHANGED vars => DictOK'
    BY DEF vars, DictOK
  <1> QED
    BY <1>1, <1>2, <1>3, <1>4, <1>5, <1>6 DEF Next, Step

(* Every variable keeps its type and each table its size, user_count is the *)
(* number of the threads between its increment and its decrement, and       *)
(* helper_count that of the helpers: through any number of resizes, for a   *)
(* finite set of threads and a random bucket that is never beyond the table *)
(* (RoundsUp is false).                                                     *)
THEOREM MapTypes ==
  IsFiniteSet(Thread) /\ ~RoundsUp => (Spec => []TypeOK)
  <1> SUFFICES ASSUME IsFiniteSet(Thread), ~RoundsUp PROVE Spec => []TypeOK
    OBVIOUS
  <1>1. Init => Shape /\ DictOK
    BY InitShape DEF Init, DictOK
  <1>2. Shape /\ DictOK /\ [Next]_vars => Shape' /\ DictOK'
    BY StepShape, StepDict
  <1>3. Shape /\ DictOK => TypeOK
    BY DEF Shape, TypeOK
  <1> QED
    BY <1>1, <1>2, <1>3, PTL DEF Spec

(* A helper never picks a bucket beyond the table, not even one that fell   *)
(* behind the master.                                                       *)
THEOREM HelpersStayInside ==
  IsFiniteSet(Thread) /\ ~RoundsUp => (Spec => []TransferInTable)
  <1> SUFFICES ASSUME IsFiniteSet(Thread), ~RoundsUp PROVE Spec => []TransferInTable
    OBVIOUS
  <1>1. Shape /\ [Next]_vars => Shape'
    BY StepShape
  <1>2. Shape => TransferInTable
    BY DEF Shape, LabelInv, Transferring, TransferInTable
  <1> QED
    BY InitShape, <1>1, <1>2, PTL DEF Spec

-----------------------------------------------------------------------------
(* A table that grows once.  With a second resize a helper may enter the    *)
(* table without looking at resize_state; the rest of the proofs is about   *)
(* a table that holds all keys after one resize.                            *)

GrowsOnce == IsFiniteSet(Key) /\ 100 * Cardinality(Key) <= MaxLoad * (2 * Capacity)

Bounds == IsFiniteSet(Thread) /\ ~RoundsUp /\ GrowsOnce

\* Between the end of one resize and the wait for the users of the next.
Stable == {"nothing", "preparing"}
Closed == resizeState \notin Stable \/ \E t \in Thread : pc[t] = "open"

(* Once they are gone the users do not come back: those that enter anyway   *)
(* leave again.                                                             *)
ClosedInv ==
  Closed => \A t \in Thread : IsUser(t) => IsMaster(t) \/ pc[t] \in {"gate", "retreat"}

\* The labels of a thread that has seen the resize, and that knows it is over.
Seen == HelperLabels \cup Transferring
        \cup {"fallback", "retreat", "helper", "help_resizing", "help_waiting", "reenter"}
Opened == {"help", "help_pick", "help_leave", "help_resizing", "help_waiting"}
Over == {"help_quit", "reenter"}

(* There is one resize, and nobody gets to the next one.                    *)
OnceInv ==
  /\ capacity \in {Capacity, 2 * Capacity}
  /\ capacity = 2 * Capacity =>
       /\ newCapacity = 0
       /\ \A t \in Thread : pc[t] \notin {"master", "fallback"} \cup Transferring
                                         \cup (MasterLabels \ {"reopen"})
  /\ \A t \in Thread :
       /\ pc[t] = "reopen" => capacity = 2 * Capacity
       /\ pc[t] \in Seen => resizeState # "nothing" \/ capacity = 2 * Capacity
       /\ pc[t] \in Opened => resizeState # "preparing"
       /\ pc[t] = "help_waiting" => resizeState # "resizing"
       /\ pc[t] \in Over => resizeState = "nothing"

\* The counters of the items never exceed the number of keys.
LightInv == \A t \in Thread : newSize[t] <= Cardinality(Key)

\* The load factor of the larger table is never reached.
LEMMA NoSecondMaster ==
  ASSUME Bounds, Shape, LightInv, NEW t \in Thread, LoadFactor(t), capacity = 2 * Capacity
  PROVE  pc'[t] = "exit"
  <1>1. Cardinality(Key) \in Nat /\ newSize[t] \in Nat /\ newSize[t] <= Cardinality(Key)
    BY FS_CardinalityType DEF Bounds, GrowsOnce, Shape, LocalsOK, LightInv
  <1>2. 100 * Cardinality(Key) <= MaxLoad * capacity
    BY DEF Bounds, GrowsOnce
  <1>3. MaxLoad * capacity \in Nat
    BY CapacityAssumption DEF Shape, SharedOK
  <1>4. ~(100 * newSize[t] > MaxLoad * capacity)
    <2> DEFINE m == MaxLoad * capacity
    <2>1. m \in Nat /\ 100 * Cardinality(Key) <= m
      BY <1>2, <1>3
    <2> HIDE DEF m
    <2>2. ~(100 * newSize[t] > m)
      BY <1>1, <2>1
    <2> QED
      BY <2>2 DEF m
  <1> QED
    BY <1>4 DEF LoadFactor, Goto, Shape, LocalsOK

\* One resize, after a step of yarn_map_probe.
LEMMA ProbeOnce ==
  ASSUME Bounds, Shape, OnceInv, LightInv, NEW t \in Thread, Probe(t) \/ \E k \in Key : Call(t, k)
  PROVE  OnceInv'
  <1>1. Others(t)
    BY StepOthers DEF Shape, Step
  <1>2. UNCHANGED <<resizeState, capacity, newCapacity>>
    BY DEF Probe, Enter, Gate, Retreat, Start, Look, LookOn, Await, Claim, Fill, Count,
       LoadFactor, Exit, Call, shared
  <1>3. pc \in [Thread -> Labels]
    BY DEF Shape, LocalsOK
  <1>4. pc'[t] \notin MasterLabels \cup Transferring \cup Opened \cup Over \cup {"fallback"}
    BY <1>3 DEF Probe, Enter, Gate, Retreat, Start, Look, LookOn, Await, Claim, Fill,
       Count, LoadFactor, Exit, Call, Goto, After, MasterLabels, Ready, Transferring,
       Opened, Over
  <1>5. pc'[t] \in Seen => resizeState # "nothing" \/ capacity = 2 * Capacity
    BY <1>3 DEF OnceInv, Seen, HelperLabels, Transferring, Probe, Enter, Gate, Retreat,
       Start, Look, LookOn, Await, Claim, Fill, Count, LoadFactor, Exit, Call, Goto,
       After
  <1>6. pc'[t] = "master" => capacity # 2 * Capacity
    <2>1. CASE LoadFactor(t)
      BY <2>1, NoSecondMaster
    <2>2. CASE ~LoadFactor(t)
      BY <1>3, <2>2 DEF Probe, Enter, Gate, Retreat, Start, Look, LookOn, Await, Claim,
         Fill, Count, Exit, Call, Goto, After
    <2> QED
      BY <2>1, <2>2
  <1>7. \A u \in Thread \ {t} : pc'[u] = pc[u]
    BY <1>1 DEF Others
  <1>8. pc'[t] # "reopen" /\ pc'[t] # "help_waiting"
    BY <1>4 DEF MasterLabels, Opened
  <1> QED
    BY <1>2, <1>4, <1>5, <1>6, <1>7, <1>8 DEF OnceInv

\* One resize, after a step of resize_master.
LEMMA MasterOnce ==
  ASSUME Bounds, Shape, OnceInv, ClosedInv, NEW t \in Thread, Master(t)
  PROVE  OnceInv'
  <1>1. Others(t)
    BY StepOthers DEF Shape, Step
  <1>2. \A u \in Thread \ {t} : pc'[u] = pc[u]
    BY <1>1 DEF Others
  <1>3. pc \in [Thread -> Labels] /\ capacity \in Nat \ {0} /\ MasterInv /\ LabelInv
    BY DEF Shape, LocalsOK, SharedOK
  <1> USE <1>2, <1>3 DEF OnceInv, Goto, shared
  <1>4. CASE Elect(t)
    <2>1. capacity # 2 * Capacity
      BY <1>4 DEF Elect
    <2>2. CASE resizeState = "nothing"
      BY <1>4, <2>1, <2>2 DEF Elect, Seen, Opened, Over, HelperLabels, Transferring
    <2>3. CASE resizeState # "nothing"
      BY <1>4, <2>1, <2>3 DEF Elect, Opened, Over
    <2> QED
      BY <2>2, <2>3
  <1>5. CASE Fallback(t)
    BY <1>5 DEF Fallback, Seen, Opened, Over, MasterLabels, Ready, Transferring
  <1>6. CASE Prepare(t)
    <2>1. capacity # 2 * Capacity
      BY <1>6 DEF Prepare, MasterLabels, Ready
    <2> QED
      BY <1>6, <2>1 DEF Prepare, Seen, Opened, Over, HelperLabels, Transferring
  <1>7. CASE Drain(t)
    BY <1>7 DEF Drain, Seen, Opened, Over, HelperLabels, Transferring, MasterLabels,
       Ready
  <1>8. CASE Open(t)
    <2>1. resizeState = "preparing" /\ capacity # 2 * Capacity
      BY <1>8 DEF Open, MasterInv, MasterLabels, Ready
    <2> QED
      BY <1>8, <2>1 DEF Open, Seen, Opened, Over, HelperLabels, Transferring
  <1>9. CASE Sweep(t)
    <2>1. resizeState = "resizing" /\ capacity # 2 * Capacity
      BY <1>9 DEF Sweep, MasterInv, MasterLabels, Ready
    <2>2. CASE pos[t] < capacity
      BY <1>9, <2>1, <2>2 DEF Sweep, Seen, Opened, Over, HelperLabels, Transferring
    <2>3. CASE ~(pos[t] < capacity)
      BY <1>9, <2>1, <2>3 DEF Sweep, Seen, Opened, Over, HelperLabels, Transferring
    <2> QED
      BY <2>2, <2>3
  <1>10. CASE Settle(t)
    BY <1>10 DEF Settle, Seen, Opened, Over, HelperLabels, Transferring, MasterLabels,
       Ready
  <1>11. CASE Swap(t)
    <2>1. /\ resizeState = "waiting" /\ capacity = Capacity /\ capacity' = 2 * Capacity /\ newCapacity' = 0
          /\ resizeState' = "waiting"
      BY <1>11 DEF Swap, MasterInv, MasterLabels
    <2>2. \A u \in Thread \ {t} : ~IsMaster(u)
      BY <1>11 DEF Swap, MasterInv, IsMaster, MasterLabels
    <2>3. \A u \in Thread \ {t} : pc[u] \notin {"master", "fallback"} \cup Transferring \cup MasterLabels
      BY <1>11, <2>1, <2>2 DEF Swap, ClosedInv, Closed, Stable, LabelInv, IsUser,
         IsMaster, UserLabels
    <2>4. pc'[t] = "reopen"
      BY <1>11 DEF Swap
    <2> QED
      BY <2>1, <2>3, <2>4 DEF Seen, Opened, Over, HelperLabels, Transferring,
         MasterLabels, Ready
  <1>12. CASE Reopen(t)
    <2>1. resizeState = "waiting" /\ resizeState' = "nothing" /\ capacity = 2 * Capacity /\ pc'[t] = "exit"
      BY <1>12 DEF Reopen, MasterInv
    <2> QED
      BY <1>12, <2>1 DEF Reopen, Seen, Opened, Over, HelperLabels, Transferring,
         MasterLabels, Ready
  <1> QED
    BY <1>4, <1>5, <1>6, <1>7, <1>8, <1>9, <1>10, <1>11, <1>12 DEF Master

\* One resize, after a step of resize_helper or transfer_item.
LEMMA HelperOnce ==
  ASSUME Bounds, Shape, OnceInv, NEW t \in Thread, Helper(t)
  PROVE  OnceInv'
  <1>1. Others(t)
    BY StepOthers DEF Shape, Step
  <1>2. UNCHANGED <<resizeState, capacity, newCapacity>>
    BY DEF Helper, TransferRead, TransferTake, TransferPlace, TransferCopyValue,
       TransferEnd, HelperEnter, HelperCheck, HelperPick, HelperLeave, HelperSpin,
       shared
  <1>3. pc \in [Thread -> Labels] /\ MasterInv /\ LabelInv /\ capacity \in Nat \ {0}
        /\ resizeState \in {"nothing", "preparing", "resizing", "waiting"}
    BY DEF Shape, LocalsOK, SharedOK
  <1>4. pc[t] \in Seen
    BY DEF Helper, TransferRead, TransferTake, TransferPlace, TransferCopyValue,
       HelperEnter, HelperCheck, HelperPick, HelperLeave, HelperSpin, Goto, Seen,
       HelperLabels, Transferring
  <1>5. pc'[t] \notin {"master", "fallback", "reopen"} \cup (MasterLabels \ {"sweep"})
    BY <1>3 DEF Helper, TransferRead, TransferTake, TransferPlace, TransferCopyValue,
       TransferEnd, HelperEnter, HelperCheck, HelperPick, HelperLeave, HelperReturn,
       After, HelperSpin, Goto, MasterLabels, Ready
  <1>6. pc'[t] \in Transferring \cup {"sweep"} => pc[t] \in Transferring \cup {"help_pick"}
    BY <1>3 DEF Helper, TransferRead, TransferTake, TransferPlace, TransferCopyValue,
       TransferEnd, HelperEnter, HelperCheck, HelperPick, HelperLeave, HelperReturn,
       After, HelperSpin, Goto, Transferring
  <1>7. pc[t] \in Transferring \cup {"help_pick"} => newCapacity = 2 * capacity /\ resizeState \in {"resizing", "waiting"}
    BY <1>3 DEF LabelInv
  <1>8. pc[t] \in Transferring \cup {"help_pick"} => capacity # 2 * Capacity
    BY <1>3, <1>7 DEF OnceInv
  <1>9. pc'[t] \in Opened => resizeState # "preparing"
    BY <1>3, <1>7 DEF OnceInv, Opened, Transferring, Helper, TransferRead, TransferTake,
       TransferPlace, TransferCopyValue, TransferEnd, HelperEnter, HelperCheck,
       HelperPick, HelperLeave, HelperReturn, After, HelperSpin, Goto
  <1>10. pc'[t] = "help_waiting" => resizeState # "resizing"
    BY <1>3 DEF OnceInv, Transferring, Helper, TransferRead, TransferTake,
       TransferPlace, TransferCopyValue, TransferEnd, HelperEnter, HelperCheck,
       HelperPick, HelperLeave, HelperReturn, After, HelperSpin, Goto
  <1>11. pc'[t] \in Over => resizeState = "nothing"
    BY <1>3 DEF OnceInv, Opened, Over, Transferring, Helper, TransferRead, TransferTake,
       TransferPlace, TransferCopyValue, TransferEnd, HelperEnter, HelperCheck,
       HelperPick, HelperLeave, HelperReturn, After, HelperSpin, Goto
  <1>12. \A u \in Thread \ {t} : pc'[u] = pc[u]
    BY <1>1 DEF Others
  <1> QED
    BY <1>2, <1>4, <1>5, <1>6, <1>8, <1>9, <1>10, <1>11, <1>12 DEF OnceInv

\* Users stay out of a table that is being emptied: drain lets the master pass when it is alone.
LEMMA StepClosed ==
  ASSUME Bounds, Shape, OnceInv, ClosedInv, NEW t \in Thread, Step(t) \/ \E k \in Key : Call(t, k)
  PROVE  ClosedInv'
  <1>1. Others(t)
    BY StepOthers DEF Shape
  <1>2. pc \in [Thread -> Labels] /\ MasterInv /\ LabelInv
        /\ resizeState \in {"nothing", "preparing", "resizing", "waiting"}
    BY DEF Shape, LocalsOK, SharedOK
  <1>3. \A u \in Thread \ {t} : pc'[u] = pc[u] /\ (IsMaster(u)' <=> IsMaster(u)) /\ (IsUser(u)' <=> IsUser(u))
    BY <1>1 DEF Others, IsUser, IsMaster
  <1>4. SUFFICES ASSUME Closed'
                 PROVE  /\ \A u \in Thread \ {t} : IsUser(u) => IsMaster(u) \/ pc[u] \in {"gate", "retreat"}
                        /\ IsUser(t)' => IsMaster(t)' \/ pc'[t] \in {"gate", "retreat"}
    BY <1>3 DEF ClosedInv
  <1>5. CASE ~Closed
    <2>1. Drain(t)
      <3>1. resizeState \in Stable /\ \A u \in Thread : pc[u] # "open"
        BY <1>5 DEF Closed
      <3>2. resizeState' \notin Stable \/ pc'[t] = "open"
        BY <1>3, <1>4, <3>1 DEF Closed
      <3>3. ~Probe(t) /\ ~(\E k \in Key : Call(t, k))
        BY <1>2, <3>1, <3>2 DEF Probe, Enter, Gate, Retreat, Start, Look, LookOn, Await,
           Claim, Fill, Count, LoadFactor, Exit, Call, Goto, After, shared
      <3>4. ~Helper(t)
        BY <1>2, <3>1, <3>2 DEF Helper, TransferRead, TransferTake, TransferPlace,
           TransferCopyValue, TransferEnd, HelperEnter, HelperCheck, HelperPick,
           HelperLeave, HelperReturn, After, HelperSpin, Goto, shared
      <3> QED
        BY <1>2, <3>1, <3>2, <3>3, <3>4 DEF Step, Master, Elect, Fallback, Prepare,
           Drain, Open, Sweep, Settle, Swap, Reopen, Goto, shared, Stable, MasterInv
    <2>2. IsUser(t) /\ userCount = 1 /\ pc'[t] = "open"
      BY <1>2, <2>1 DEF Drain, Goto, IsUser, IsMaster, MasterLabels, Ready
    <2>3. \A u \in Thread : IsUser(u) => u = t
      BY <2>2, LastUser DEF Bounds
    <2>4. IsMaster(t)'
      BY <2>2 DEF IsMaster, MasterLabels, Ready
    <2> QED
      BY <2>3, <2>4
  <1>6. CASE Closed
    <2>1. \A u \in Thread : IsUser(u) => IsMaster(u) \/ pc[u] \in {"gate", "retreat"}
      BY <1>6 DEF ClosedInv
    <2>2. resizeState # "nothing"
      BY <1>2, <1>6 DEF Closed, Stable, MasterInv, Ready
    <2>3. pc[t] \notin Probing \cup {"reenter", "load", "exit", "master", "fallback"}
      BY <1>2, <2>1, <2>2 DEF OnceInv, Over, IsUser, IsMaster, UserLabels, Probing,
         MasterLabels, Ready, Transferring
    <2>4. CASE Probe(t) \/ \E k \in Key : Call(t, k)
      <3>1. pc'[t] \in {"enter", "gate", "retreat", "helper"}
        BY <1>2, <2>2, <2>3, <2>4 DEF Probing, Probe, Enter, Gate, Retreat, Start, Look,
           LookOn, Await, Claim, Fill, Count, LoadFactor, Exit, Call, Goto
      <3> QED
        BY <2>1, <3>1 DEF IsUser, IsMaster, UserLabels, Probing, MasterLabels, Ready,
           Transferring
    <2>5. CASE Master(t)
      <3>1. CASE Reopen(t)
        <4>1. pc[t] = "reopen" /\ pc'[t] = "exit" /\ resizeState' = "nothing"
          BY <1>2, <3>1 DEF Reopen, Goto
        <4>2. \A u \in Thread : pc'[u] # "open"
          BY <1>2, <1>3, <4>1 DEF MasterInv, IsMaster, MasterLabels, Ready
        <4> QED
          BY <1>4, <4>1, <4>2 DEF Closed, Stable
      <3>2. CASE ~Reopen(t)
        <4>1. pc'[t] \in MasterLabels \cup Transferring /\ (pc'[t] \in Transferring => caller'[t] = "sweep")
          BY <1>2, <2>3, <2>5, <3>2 DEF LabelInv, Master, Elect, Fallback, Prepare,
             Drain, Open, Sweep, Settle, Swap, Goto, MasterLabels, Ready, Transferring
        <4> QED
          BY <2>1, <4>1 DEF IsMaster
      <3> QED
        BY <3>1, <3>2
    <2>6. CASE Helper(t)
      <3>1. IsUser(t)' => IsMaster(t)'
        BY <1>2, <2>2, <2>6 DEF LabelInv, Helper, TransferRead, TransferTake,
           TransferPlace, TransferCopyValue, TransferEnd, HelperEnter, HelperCheck,
           HelperPick, HelperLeave, HelperReturn, After, HelperSpin, Goto, IsUser,
           IsMaster, UserLabels, Probing
      <3> QED
        BY <2>1, <3>1
    <2> QED
      BY <2>1, <2>4, <2>5, <2>6 DEF Step
  <1> QED
    BY <1>5, <1>6

-----------------------------------------------------------------------------
(* How far a bucket is from the first one of its key.                       *)

Dist(k, b, c) == (b - (Hash[k] % c)) % c

\* The remainder of a number within one turn of zero.
LEMMA ModSmall ==
  ASSUME NEW c \in Nat \ {0}, NEW x \in Int
  PROVE  /\ 0 <= x /\ x < c => x % c = x
         /\ -c <= x /\ x < 0 => x % c = x + c
         /\ x = c => x % c = 0
  <1>1. ASSUME 0 <= x, x < c PROVE x % c = x
    BY <1>1
  <1>2. ASSUME -c <= x, x < 0 PROVE x % c = x + c
    BY <1>2
  <1>3. ASSUME x = c PROVE x % c = 0
    BY <1>3
  <1> QED
    BY <1>1, <1>2, <1>3

\* How far a bucket is, without the modulo.
LEMMA DistIs ==
  ASSUME NEW k \in Key, NEW c \in Nat \ {0}, NEW b \in 0 .. c - 1
  PROVE  /\ Hash[k] % c \in 0 .. c - 1
         /\ Dist(k, b, c) = IF b >= Hash[k] % c THEN b - (Hash[k] % c) ELSE b - (Hash[k] % c) + c
         /\ Dist(k, b, c) \in 0 .. c - 1
  <1> DEFINE h == Hash[k] % c
  <1>1. h \in 0 .. c - 1
    <2>1. Hash[k] \in Nat
      BY HashAssumption
    <2>2. h \in Nat /\ h < c
      BY <2>1, ModRange
    <2> HIDE DEF h
    <2> QED
      BY <2>2
  <1> HIDE DEF h
  <1>2. b - h \in Int /\ -c <= b - h /\ b - h < c
    BY <1>1
  <1>3. (b - h) % c = IF b >= h THEN b - h ELSE b - h + c
    BY <1>1, <1>2, ModSmall
  <1>4. (b - h) % c \in 0 .. c - 1
    BY <1>1, <1>3
  <1> QED
    BY <1>1, <1>3, <1>4 DEF Dist, h

\* The first bucket of a key, the next bucket, and no two buckets alike.
LEMMA DistFirst ==
  ASSUME NEW k \in Key, NEW c \in Nat \ {0}
  PROVE  Hash[k] % c \in 0 .. c - 1 /\ Dist(k, Hash[k] % c, c) = 0
  <1>1. 0 \in 0 .. c - 1
    OBVIOUS
  <1>2. Hash[k] % c \in 0 .. c - 1
    BY <1>1, DistIs
  <1> DEFINE h == Hash[k] % c
  <1>3. Dist(k, h, c) = IF h >= h THEN h - h ELSE h - h + c
    BY <1>2, DistIs
  <1>4. h >= h /\ h - h = 0
    <2> HIDE DEF h
    <2> QED
      BY <1>2 DEF h
  <1> QED
    BY <1>2, <1>3, <1>4

\* Two buckets that are equally far are the same.
LEMMA DistSame ==
  ASSUME NEW k \in Key, NEW c \in Nat \ {0}, NEW b \in 0 .. c - 1, NEW d \in 0 .. c - 1,
         Dist(k, b, c) = Dist(k, d, c)
  PROVE  b = d
  <1> DEFINE h == Hash[k] % c
  <1>1. /\ h \in 0 .. c - 1
        /\ Dist(k, b, c) = IF b >= h THEN b - h ELSE b - h + c
        /\ Dist(k, d, c) = IF d >= h THEN d - h ELSE d - h + c
    BY DistIs
  <1> HIDE DEF h
  <1>2. \A p, q \in 0 .. c - 1 :
          (IF p >= h THEN p - h ELSE p - h + c) = (IF q >= h THEN q - h ELSE q - h + c) => p = q
    BY <1>1
  <1> QED
    BY <1>1, <1>2

\* The next bucket is one further, and the first one again after a whole turn.
LEMMA DistNext ==
  ASSUME NEW k \in Key, NEW c \in Nat \ {0}, NEW b \in 0 .. c - 1
  PROVE  /\ (b + 1) % c \in 0 .. c - 1
         /\ Dist(k, b, c) + 1 < c => Dist(k, (b + 1) % c, c) = Dist(k, b, c) + 1
         /\ Dist(k, b, c) + 1 = c => Dist(k, (b + 1) % c, c) = 0
  <1> DEFINE h == Hash[k] % c
             d == (b + 1) % c
  <1>1. d = IF b + 1 < c THEN b + 1 ELSE 0
    BY ModSmall
  <1>2. d \in 0 .. c - 1
    BY <1>1
  <1> HIDE DEF d
  <1>3. /\ h \in 0 .. c - 1
        /\ Dist(k, b, c) = IF b >= h THEN b - h ELSE b - h + c
        /\ Dist(k, d, c) = IF d >= h THEN d - h ELSE d - h + c
    BY <1>2, DistIs
  <1> HIDE DEF h
  <1>4. /\ Dist(k, b, c) + 1 < c => Dist(k, d, c) = Dist(k, b, c) + 1
        /\ Dist(k, b, c) + 1 = c => Dist(k, d, c) = 0
    BY <1>1, <1>2, <1>3
  <1> QED
    BY <1>2, <1>4 DEF d

-----------------------------------------------------------------------------
(* The items.                                                               *)

\* The table is not being emptied.
Fresh == newCapacity = 0 \/ resizeState = "preparing"

\* Thread t fills, or copies the value to, bucket b.
Fills(t, b) == pc[t] = "fill" /\ i[t] = b
Copies(t, b) == pc[t] = "copy" /\ i[t] = b

(* A bucket of the table holds an item that was added, with its value or    *)
(* with none while the thread that added it has not filled it yet.          *)
OldInv ==
  \A b \in 0 .. capacity - 1 :
    /\ table[b].addr = Null /\ Fresh => table[b].value = Null
    /\ table[b].addr # Null =>
         /\ table[b].addr \in DOMAIN dict
         /\ \/ table[b].value = dict[table[b].addr]
            \/ table[b].value = Null /\ \E t \in Thread : Fills(t, b)

(* The same for the new table, which is empty until the users are gone.     *)
NewInv ==
  \A b \in 0 .. newCapacity - 1 :
    /\ newTable[b].addr = Null => newTable[b].value = Null
    /\ newTable[b].addr # Null =>
         /\ resizeState \notin Stable
         /\ newTable[b].addr \in DOMAIN dict
         /\ \/ newTable[b].value = dict[newTable[b].addr]
            \/ newTable[b].value = Null /\ \E t \in Thread : Copies(t, b)

InTable(k, b) == b \in 0 .. capacity - 1 /\ table[b].addr = k
InNew(k, b) == b \in 0 .. newCapacity - 1 /\ newTable[b].addr = k
InHand(k, t) == t \in Thread /\ pc[t] = "place" /\ moving[t] = k

(* A key is in one place,                                                   *)
UniqueInv ==
  \A k \in Key :
    /\ \A b, d : InTable(k, b) /\ InTable(k, d) => b = d
    /\ \A b, d : InNew(k, b) /\ InNew(k, d) => b = d
    /\ \A t, u : InHand(k, t) /\ InHand(k, u) => t = u
    /\ \A b, d : ~(InTable(k, b) /\ InNew(k, d))
    /\ \A b, t : ~(InTable(k, b) /\ InHand(k, t))
    /\ \A b, t : ~(InNew(k, b) /\ InHand(k, t))

(* and one that was added is somewhere.                                     *)
SomewhereInv ==
  \A k \in DOMAIN dict :
    \/ \E b : InTable(k, b)
    \/ \E b : InNew(k, b)
    \/ \E t : InHand(k, t)

\* No bucket of tab is free before bucket b on the way of a probe for k.
NoGap(tab, c, k, b) ==
  \A d \in 0 .. c - 1 : Dist(k, d, c) < Dist(k, b, c) => tab[d].addr # Null

(* Items are where a probe finds them, and will be.                         *)
PathInv ==
  /\ Fresh => \A k \in Key, b \in 0 .. capacity - 1 :
       table[b].addr = k => NoGap(table, capacity, k, b)
  /\ \A k \in Key, b \in 0 .. newCapacity - 1 :
       newTable[b].addr = k => NoGap(newTable, newCapacity, k, b)
  /\ \A t \in Thread : pc[t] = "place" => NoGap(newTable, newCapacity, moving[t], i[t])

(* The item in the hands of a thread; the buckets the master has swept.     *)
MoveInv ==
  \A t \in Thread :
    /\ pc[t] = "take" => table[pos[t]].addr \in {moving[t], Null}
    /\ pc[t] \in {"place", "copy"} =>
         /\ moving[t] \in DOMAIN dict
         /\ table[pos[t]].addr = Null /\ table[pos[t]].value = dict[moving[t]]
    /\ pc[t] = "copy" => newTable[i[t]].addr = moving[t]
    /\ caller[t] = "sweep" => \A b \in 0 .. capacity - 1 : b < pos[t] => table[b].addr = Null
    /\ pc[t] \in {"settle", "swap"} => \A b \in 0 .. capacity - 1 : table[b].addr = Null

(* What a thread knows of the buckets it has looked at.                     *)
ProbeInv ==
  \A t \in Thread :
    /\ pc[t] \in {"look", "claim"} =>
         /\ n[t] <= capacity
         /\ n[t] < capacity => Dist(key[t], i[t], capacity) = n[t]
         /\ \A d \in 0 .. capacity - 1 :
              Dist(key[t], d, capacity) < n[t] => table[d].addr \notin {Null, key[t]}
    /\ pc[t] = "claim" => n[t] < capacity
    /\ pc[t] \in {"await", "fill"} => key[t] \in DOMAIN dict /\ table[i[t]].addr = key[t]
    /\ pc[t] = "fill" => dict[key[t]] = t /\ table[i[t]].value = Null
    /\ result[t] # Null /\ pc[t] # "idle" => key[t] \in DOMAIN dict /\ dict[key[t]] = result[t]

Adding == {t \in Thread : pc[t] \in {"fill", "count"}}

(* The items that are counted and those about to be.                        *)
SizeInv ==
  /\ DOMAIN dict \subseteq Key /\ \A k \in DOMAIN dict : dict[k] \in Thread
  /\ size + Cardinality(Adding) = Cardinality(DOMAIN dict)
  /\ LightInv

Safe ==
  /\ Shape /\ OnceInv /\ ClosedInv
  /\ OldInv /\ NewInv /\ UniqueInv /\ SomewhereInv /\ PathInv /\ MoveInv
  /\ ProbeInv /\ SizeInv

-----------------------------------------------------------------------------
(* Who may touch the table.                                                 *)

\* While a thread probes nobody moves an item.
LEMMA UserWhenStable ==
  ASSUME Shape, ClosedInv, NEW t \in Thread, pc[t] \in Probing
  PROVE  Fresh /\ resizeState \in Stable /\ \A u \in Thread :
           /\ pc[u] \notin Transferring \cup {"sweep", "settle", "swap"}
           /\ caller[u] # "sweep"
  <1>1. IsUser(t) /\ ~IsMaster(t) /\ pc[t] \notin {"gate", "retreat"}
    BY DEF IsUser, IsMaster, UserLabels, Probing, MasterLabels, Ready, Transferring
  <1>2. resizeState \in Stable
    BY <1>1 DEF ClosedInv, Closed
  <1>3. Fresh
    BY <1>2 DEF Shape, MasterInv, Fresh, Stable
  <1> QED
    BY <1>2, <1>3 DEF Shape, LabelInv, MasterInv, Stable

\* While a thread moves items nobody probes.
LEMMA MoverWhenNotFresh ==
  ASSUME Shape, ClosedInv, NEW t \in Thread, pc[t] \in Transferring \cup {"sweep", "settle", "swap"}
  PROVE  ~Fresh /\ resizeState \notin Stable /\ \A u \in Thread : pc[u] \notin Probing
  <1>1. resizeState \notin Stable
    BY DEF Shape, LabelInv, MasterInv, Stable
  <1>2. ~Fresh
    BY DEF Fresh, Shape, SharedOK, MasterInv, LabelInv
  <1> QED
    BY <1>1, <1>2, UserWhenStable

(* A key that a probe finds no bucket for was not added.                    *)
LEMMA ClaimIsNew ==
  ASSUME Safe, NEW t \in Thread, pc[t] = "claim", table[i[t]].addr = Null
  PROVE  key[t] \in Key /\ key[t] \notin DOMAIN dict
  <1>1. key[t] \in Key /\ i[t] \in 0 .. capacity - 1 /\ capacity \in Nat \ {0}
    BY DEF Safe, Shape, LabelInv, LocalsOK, SharedOK
  <1>2. Fresh /\ resizeState \in Stable /\ \A u \in Thread : pc[u] # "place"
    BY UserWhenStable DEF Safe, Probing, Transferring
  <1>3. SUFFICES ASSUME key[t] \in DOMAIN dict PROVE FALSE
    BY <1>1
  <1>4. PICK b : InTable(key[t], b)
    <2>1. \A b : ~InNew(key[t], b)
      BY <1>1, <1>2, NullAssumption DEF Safe, NewInv, InNew
    <2>2. \A u : ~InHand(key[t], u)
      BY <1>2 DEF InHand
    <2> QED
      BY <1>3, <2>1, <2>2 DEF Safe, SomewhereInv
  <1>5. b \in 0 .. capacity - 1 /\ table[b].addr = key[t]
    BY <1>4 DEF InTable
  <1>6. NoGap(table, capacity, key[t], b)
    BY <1>1, <1>2, <1>5 DEF Safe, PathInv
  <1>7. /\ Dist(key[t], i[t], capacity) = n[t]
        /\ Dist(key[t], b, capacity) < n[t] => table[b].addr \notin {Null, key[t]}
    BY <1>5 DEF Safe, ProbeInv
  <1>8. Dist(key[t], b, capacity) \in Int /\ Dist(key[t], i[t], capacity) \in Int
    BY <1>1, <1>5, DistIs
  <1>9. CASE Dist(key[t], b, capacity) < n[t]
    BY <1>5, <1>7, <1>9
  <1>10. CASE Dist(key[t], b, capacity) = n[t]
    <2>1. b = i[t]
      BY <1>1, <1>5, <1>7, <1>10, DistSame
    <2> QED
      BY <1>1, <1>5, <2>1, NullAssumption
  <1>11. CASE n[t] < Dist(key[t], b, capacity)
    BY <1>1, <1>6, <1>7, <1>11 DEF NoGap
  <1> QED
    BY <1>7, <1>8, <1>9, <1>10, <1>11

(* During a resize every item of the table has its value.                   *)
LEMMA ValueIsThere ==
  ASSUME Safe, NEW t \in Thread, pc[t] \in Transferring, NEW b \in 0 .. capacity - 1, table[b].addr # Null
  PROVE  table[b].addr \in DOMAIN dict /\ table[b].value = dict[table[b].addr]
  <1>1. \A u \in Thread : ~Fills(u, b)
    BY MoverWhenNotFresh DEF Safe, Fills, Probing
  <1> QED
    BY <1>1 DEF Safe, OldInv

-----------------------------------------------------------------------------
(* The steps that leave the items where they are.                           *)

BucketInv == OldInv /\ NewInv /\ UniqueInv /\ SomewhereInv /\ PathInv

\* A step that writes to no table leaves every item where it is.
LEMMA Still ==
  ASSUME BucketInv, NEW t \in Thread, Others(t),
         UNCHANGED <<table, newTable, capacity, newCapacity, dict>>,
         pc[t] \notin {"fill", "place", "copy"}, pc'[t] \notin {"fill", "place", "copy"},
         newCapacity = 0 \/ ((Fresh' => Fresh) /\ (resizeState \notin Stable => resizeState' \notin Stable)),
         newCapacity \in Nat
  PROVE  BucketInv'
  <1>1. /\ \A u \in Thread : \A b : Fills(u, b)' <=> Fills(u, b)
        /\ \A u \in Thread : \A b : Copies(u, b)' <=> Copies(u, b)
        /\ \A k, u : InHand(k, u)' <=> InHand(k, u)
        /\ \A u \in Thread : pc'[u] = "place" => pc[u] = "place" /\ moving'[u] = moving[u] /\ i'[u] = i[u]
    BY DEF Others, Fills, Copies, InHand
  <1>2. /\ \A k, b : InTable(k, b)' <=> InTable(k, b)
        /\ \A k, b : InNew(k, b)' <=> InNew(k, b)
    BY DEF InTable, InNew
  <1>3. Fresh' => Fresh
    BY DEF Fresh
  <1>4. OldInv'
    BY <1>1, <1>3 DEF BucketInv, OldInv
  <1>5. NewInv'
    <2>1. CASE newCapacity = 0
      <3>1. 0 .. newCapacity' - 1 = {}
        BY <2>1
      <3> QED
        BY <3>1 DEF NewInv
    <2>2. CASE newCapacity # 0
      BY <1>1, <2>2 DEF BucketInv, NewInv
    <2> QED
      BY <2>1, <2>2
  <1>6. UniqueInv'
    BY <1>1, <1>2 DEF BucketInv, UniqueInv
  <1>7. SomewhereInv'
    BY <1>1, <1>2 DEF BucketInv, SomewhereInv
  <1>8. PathInv'
    BY <1>1, <1>3 DEF BucketInv, PathInv, NoGap
  <1> QED
    BY <1>4, <1>5, <1>6, <1>7, <1>8 DEF BucketInv

\* The steps of a probe but for those that add an item.
LEMMA ProbeStill ==
  ASSUME Safe, NEW t \in Thread, Probe(t) \/ \E k \in Key : Call(t, k), ~Fill(t),
         Claim(t) => table[i[t]].addr # Null
  PROVE  /\ UNCHANGED <<table, newTable, capacity, newCapacity, resizeState, dict>>
         /\ pc[t] \notin {"fill", "place", "copy"} /\ pc'[t] \notin {"fill", "place", "copy"}
  <1>1. pc \in [Thread -> Labels]
    BY DEF Safe, Shape, LocalsOK
  <1> QED
    BY <1>1 DEF Probe, Enter, Gate, Retreat, Start, Look, LookOn, Await, Claim, Fill,
       Count, LoadFactor, Exit, Call, Goto, After, shared

\* The steps of the master but for those that change a table.
LEMMA MasterStill ==
  ASSUME Safe, NEW t \in Thread, Master(t), ~Prepare(t), ~Swap(t)
  PROVE  /\ UNCHANGED <<table, newTable, capacity, newCapacity, dict>>
         /\ pc[t] \notin {"fill", "place", "copy"} /\ pc'[t] \notin {"fill", "place", "copy"}
         /\ newCapacity = 0 \/ ((Fresh' => Fresh) /\ (resizeState \notin Stable => resizeState' \notin Stable))
  <1>1. pc \in [Thread -> Labels] /\ MasterInv /\ SharedOK
    BY DEF Safe, Shape, LocalsOK
  <1>2. UNCHANGED <<table, newTable, capacity, newCapacity, dict>>
    BY DEF Master, Elect, Fallback, Prepare, Drain, Open, Sweep, Settle, Swap, Reopen,
       shared
  <1>3. pc[t] \notin {"fill", "place", "copy"} /\ pc'[t] \notin {"fill", "place", "copy"}
    BY <1>1 DEF Master, Elect, Fallback, Prepare, Drain, Open, Sweep, Settle, Swap,
       Reopen, Goto
  <1>4. newCapacity = 0 \/ ((Fresh' => Fresh) /\ (resizeState \notin Stable => resizeState' \notin Stable))
    BY <1>1, <1>2 DEF MasterInv, Fresh, Stable, Ready, Master, Elect, Fallback, Prepare,
       Drain, Open, Sweep, Settle, Swap, Reopen, Goto, shared
  <1> QED
    BY <1>2, <1>3, <1>4

\* The steps of a transfer or a helper but for those that move an item.
LEMMA HelperStill ==
  ASSUME Safe, NEW t \in Thread, Helper(t), ~TransferPlace(t), ~TransferCopyValue(t),
         TransferTake(t) => table[pos[t]].addr # moving[t]
  PROVE  /\ UNCHANGED <<table, newTable, capacity, newCapacity, resizeState, dict>>
         /\ pc[t] \notin {"fill", "place", "copy"} /\ pc'[t] \notin {"fill", "place", "copy"}
  <1>1. pc \in [Thread -> Labels]
    BY DEF Safe, Shape, LocalsOK
  <1> QED
    BY <1>1 DEF Helper, TransferRead, TransferTake, TransferPlace, TransferCopyValue,
       TransferEnd, HelperEnter, HelperCheck, HelperPick, HelperLeave, HelperReturn,
       After, HelperSpin, Goto, shared

-----------------------------------------------------------------------------
(* The steps that add an item.                                              *)

\* What a claim does to the items.
LEMMA ClaimDict ==
  ASSUME Safe, NEW t \in Thread, Claim(t), table[i[t]].addr = Null
  PROVE  /\ key[t] \in Key /\ key[t] \notin DOMAIN dict /\ i[t] \in 0 .. capacity - 1
         /\ DOMAIN dict' = DOMAIN dict \cup {key[t]}
         /\ dict'[key[t]] = t
         /\ \A k \in DOMAIN dict : dict'[k] = dict[k]
         /\ table' \in [0 .. capacity - 1 -> Bucket]
         /\ table'[i[t]].addr = key[t] /\ table'[i[t]].value = table[i[t]].value
         /\ \A d \in 0 .. capacity - 1 : d # i[t] => table'[d] = table[d]
         /\ pc[t] = "claim" /\ pc'[t] = "fill"
         /\ UNCHANGED <<i, newTable, capacity, newCapacity, resizeState, moving, key, n, result>>
  <1>1. pc[t] = "claim"
    BY DEF Claim
  <1>2. key[t] \in Key /\ key[t] \notin DOMAIN dict
    BY <1>1, ClaimIsNew
  <1>4. dict' = [k \in DOMAIN dict \cup {key[t]} |-> IF k = key[t] THEN t ELSE dict[k]]
    BY DEF Claim
  <1>5. /\ i[t] \in 0 .. capacity - 1
        /\ IsSet(table', table, capacity, i[t], [addr |-> key[t], value |-> table[i[t]].value])
    BY ClaimSets DEF Safe
  <1>6. pc'[t] = "fill" /\ UNCHANGED <<i, newTable, capacity, newCapacity, resizeState, moving, key, n, result>>
    BY DEF Claim, Goto, locals, Safe, Shape, LocalsOK
  <1> QED
    BY <1>1, <1>2, <1>4, <1>5, <1>6 DEF IsSet

\* A claim puts a key that is nowhere where its probe ends.
LEMMA ClaimBuckets ==
  ASSUME Safe, NEW t \in Thread, Claim(t), table[i[t]].addr = Null
  PROVE  BucketInv'
  <1> DEFINE b0 == i[t]
  <1>1. /\ key[t] \in Key /\ key[t] \notin DOMAIN dict /\ b0 \in 0 .. capacity - 1
        /\ DOMAIN dict' = DOMAIN dict \cup {key[t]}
        /\ dict'[key[t]] = t
        /\ \A k \in DOMAIN dict : dict'[k] = dict[k]
        /\ table' \in [0 .. capacity - 1 -> Bucket]
        /\ table'[b0].addr = key[t] /\ table'[b0].value = table[b0].value
        /\ \A d \in 0 .. capacity - 1 : d # b0 => table'[d] = table[d]
        /\ pc[t] = "claim" /\ pc'[t] = "fill"
        /\ UNCHANGED <<i, newTable, capacity, newCapacity, resizeState, moving, key, n, result>>
    BY ClaimDict
  <1>2. Fresh /\ Fresh' /\ resizeState \in Stable
    BY <1>1, UserWhenStable DEF Safe, Probing, Fresh
  <1>3. Others(t)
    BY StepOthers DEF Step, Probe, Safe, Shape
  <1>4. /\ \A u \in Thread \ {t} : pc'[u] = pc[u] /\ i'[u] = i[u] /\ moving'[u] = moving[u]
        /\ key[t] # Null
    BY <1>1, <1>3, NullAssumption DEF Others
  <1>5. OldInv'
    <2> SUFFICES ASSUME NEW b \in 0 .. capacity - 1
                 PROVE  /\ table'[b].addr = Null => table'[b].value = Null
                        /\ table'[b].addr # Null =>
                             /\ table'[b].addr \in DOMAIN dict'
                             /\ \/ table'[b].value = dict'[table'[b].addr]
                                \/ table'[b].value = Null /\ \E u \in Thread : Fills(u, b)'
      BY <1>1 DEF OldInv
    <2>1. CASE b = b0
      <3>1. table[b0].value = Null
        BY <1>1, <1>2 DEF Safe, OldInv
      <3>2. Fills(t, b)'
        BY <1>1, <2>1 DEF Fills
      <3> QED
        BY <1>1, <1>4, <2>1, <3>1, <3>2
    <2>2. CASE b # b0
      <3>1. table'[b] = table[b]
        BY <1>1, <2>2
      <3>2. \A u \in Thread : Fills(u, b) => Fills(u, b)'
        BY <1>1, <1>4 DEF Fills
      <3> QED
        BY <1>1, <1>2, <3>1, <3>2 DEF Safe, OldInv
    <2> QED
      BY <2>1, <2>2
  <1>6. NewInv'
    <2>1. \A b \in 0 .. newCapacity - 1 : newTable[b].addr = Null /\ newTable[b].value = Null
      BY <1>2 DEF Safe, NewInv
    <2> QED
      BY <1>1, <2>1 DEF NewInv
  <1>7. /\ \A b : ~InTable(key[t], b) /\ ~InNew(key[t], b)
        /\ \A u : ~InHand(key[t], u)
    BY <1>1, <1>4 DEF Safe, OldInv, NewInv, MoveInv, InTable, InNew, InHand
  <1>8. /\ \A k \in Key : \A b : InTable(k, b)' <=> InTable(k, b) \/ (k = key[t] /\ b = b0)
        /\ \A k, b : InNew(k, b)' <=> InNew(k, b)
        /\ \A k, u : InHand(k, u)' <=> InHand(k, u)
    <2>1. ASSUME NEW k \in Key, NEW b
          PROVE  InTable(k, b)' <=> InTable(k, b) \/ (k = key[t] /\ b = b0)
      BY <1>1, NullAssumption DEF InTable
    <2>2. \A u \in Thread : pc'[u] = "place" <=> pc[u] = "place"
      BY <1>1, <1>4
    <2>3. \A k, u : InHand(k, u)' <=> InHand(k, u)
      BY <1>1, <2>2 DEF InHand
    <2> QED
      BY <1>1, <2>1, <2>3 DEF InNew
  <1>9. UniqueInv'
    BY <1>7, <1>8 DEF Safe, UniqueInv
  <1>10. SomewhereInv'
    BY <1>1, <1>8 DEF Safe, SomewhereInv, SizeInv
  <1>11. PathInv'
    <2>1. \A d \in 0 .. capacity - 1 : table[d].addr # Null => table'[d].addr # Null
      BY <1>1, <1>4
    <2>2. NoGap(table', capacity, key[t], b0)
      <3>1. \A d \in 0 .. capacity - 1 :
              Dist(key[t], d, capacity) < Dist(key[t], b0, capacity) => table[d].addr # Null
        BY <1>1 DEF Safe, ProbeInv
      <3> QED
        BY <2>1, <3>1 DEF NoGap
    <2>3. \A k \in Key, b \in 0 .. capacity - 1 : table'[b].addr = k => NoGap(table', capacity, k, b)
      BY <1>1, <1>2, <2>1, <2>2 DEF Safe, PathInv, NoGap
    <2>4. \A u \in Thread : pc'[u] = "place" => pc[u] = "place" /\ moving'[u] = moving[u] /\ i'[u] = i[u]
      BY <1>1, <1>4
    <2> QED
      BY <1>1, <2>3, <2>4 DEF Safe, PathInv, NoGap
  <1> QED
    BY <1>5, <1>6, <1>9, <1>10, <1>11 DEF BucketInv

\* The value goes to the bucket the thread has claimed.
LEMMA FillBuckets ==
  ASSUME Safe, NEW t \in Thread, Fill(t)
  PROVE  BucketInv'
  <1> DEFINE b0 == i[t]
  <1>1. /\ b0 \in 0 .. capacity - 1
        /\ table' \in [0 .. capacity - 1 -> Bucket]
        /\ table'[b0].addr = table[b0].addr /\ table'[b0].value = t
        /\ \A d \in 0 .. capacity - 1 : d # b0 => table'[d] = table[d]
    <2>1. b0 \in 0 .. capacity - 1 /\ IsSet(table', table, capacity, b0, [addr |-> table[b0].addr, value |-> t])
      BY FillSets DEF Safe
    <2> QED
      BY <2>1 DEF IsSet
  <1>2. /\ pc[t] = "fill" /\ pc'[t] = "count"
        /\ UNCHANGED <<i, newTable, capacity, newCapacity, resizeState, moving, dict>>
    BY DEF Fill, Goto, Safe, Shape, LocalsOK
  <1>3. key[t] \in DOMAIN dict /\ table[b0].addr = key[t] /\ dict[key[t]] = t /\ key[t] \in Key
    BY <1>2 DEF Safe, ProbeInv, SizeInv
  <1>4. Others(t)
    BY StepOthers DEF Step, Probe, Safe, Shape
  <1>5. /\ \A u \in Thread \ {t} : pc'[u] = pc[u] /\ i'[u] = i[u] /\ moving'[u] = moving[u]
        /\ Fresh /\ Fresh'
    BY <1>2, <1>4, UserWhenStable DEF Others, Safe, Probing, Fresh
  <1>6. OldInv'
    <2> SUFFICES ASSUME NEW b \in 0 .. capacity - 1
                 PROVE  /\ table'[b].addr = Null => table'[b].value = Null
                        /\ table'[b].addr # Null =>
                             /\ table'[b].addr \in DOMAIN dict
                             /\ \/ table'[b].value = dict[table'[b].addr]
                                \/ table'[b].value = Null /\ \E u \in Thread : Fills(u, b)'
      BY <1>2 DEF OldInv
    <2>1. CASE b = b0
      BY <1>1, <1>3, <2>1, NullAssumption
    <2>2. CASE b # b0
      <3>1. table'[b] = table[b]
        BY <1>1, <2>2
      <3>2. \A u \in Thread : Fills(u, b) => Fills(u, b)'
        BY <1>2, <1>5, <2>2 DEF Fills
      <3> QED
        BY <1>5, <3>1, <3>2 DEF Safe, OldInv
    <2> QED
      BY <2>1, <2>2
  <1>7. /\ \A u \in Thread : \A b : Copies(u, b)' <=> Copies(u, b)
        /\ \A k, u : InHand(k, u)' <=> InHand(k, u)
        /\ \A u \in Thread : pc'[u] = "place" => pc[u] = "place"
    BY <1>2, <1>5 DEF Copies, InHand
  <1>8. /\ \A k, b : InTable(k, b)' <=> InTable(k, b)
        /\ \A k, b : InNew(k, b)' <=> InNew(k, b)
    BY <1>1, <1>2 DEF InTable, InNew
  <1>9. NewInv'
    BY <1>2, <1>7 DEF Safe, NewInv
  <1>10. UniqueInv'
    BY <1>7, <1>8 DEF Safe, UniqueInv
  <1>11. SomewhereInv'
    BY <1>2, <1>7, <1>8 DEF Safe, SomewhereInv
  <1>12. PathInv'
    <2>1. \A d \in 0 .. capacity - 1 : table'[d].addr = table[d].addr
      BY <1>1
    <2> QED
      BY <1>2, <1>5, <1>7, <2>1 DEF Safe, PathInv, NoGap
  <1> QED
    BY <1>6, <1>9, <1>10, <1>11, <1>12 DEF BucketInv

-----------------------------------------------------------------------------
(* The steps that move an item.                                             *)

\* The item leaves the table for the hands of one thread.
LEMMA TakeBuckets ==
  ASSUME Safe, NEW t \in Thread, TransferTake(t), table[pos[t]].addr = moving[t]
  PROVE  BucketInv'
  <1> DEFINE b0 == pos[t]
             k0 == moving[t]
  <1>1. /\ b0 \in 0 .. capacity - 1
        /\ table' \in [0 .. capacity - 1 -> Bucket]
        /\ table'[b0].addr = Null
        /\ \A d \in 0 .. capacity - 1 : d # b0 => table'[d] = table[d]
    <2>1. b0 \in 0 .. capacity - 1 /\ IsSet(table', table, capacity, b0, [addr |-> Null, value |-> table[b0].value])
      BY TakeSets DEF Safe
    <2> QED
      BY <2>1 DEF IsSet
  <1>2. /\ pc[t] = "take" /\ pc'[t] = "place"
        /\ UNCHANGED <<newTable, capacity, newCapacity, resizeState, moving, dict>>
        /\ i'[t] = Hash[k0] % newCapacity
    BY DEF TransferTake, Goto, Safe, Shape, LocalsOK
  <1>3. table[b0].addr = k0 /\ k0 \in Key /\ newCapacity \in Nat \ {0} /\ k0 # Null
    <2>1. k0 \in Key /\ newCapacity = 2 * capacity /\ capacity \in Nat \ {0}
      BY <1>2 DEF Safe, Shape, LabelInv, SharedOK, Transferring
    <2> QED
      BY <2>1, NullAssumption
  <1>4. Others(t)
    BY StepOthers DEF Step, Helper, Safe, Shape
  <1>5. /\ \A u \in Thread \ {t} : pc'[u] = pc[u] /\ i'[u] = i[u] /\ moving'[u] = moving[u]
        /\ ~Fresh /\ ~Fresh' /\ \A u \in Thread : pc[u] \notin Probing
    BY <1>2, <1>4, MoverWhenNotFresh DEF Others, Safe, Transferring, Fresh
  <1>6. OldInv'
    <2> SUFFICES ASSUME NEW b \in 0 .. capacity - 1, table'[b].addr # Null
                 PROVE  table'[b].addr \in DOMAIN dict /\ table'[b].value = dict[table'[b].addr]
      BY <1>2, <1>5 DEF OldInv
    <2>1. table'[b] = table[b]
      BY <1>1
    <2> QED
      BY <1>2, <2>1, ValueIsThere DEF Transferring
  <1>7. /\ \A u \in Thread : \A b : Copies(u, b)' <=> Copies(u, b)
        /\ \A k, u : InHand(k, u)' <=> InHand(k, u) \/ (k = k0 /\ u = t)
        /\ ~InHand(k0, t)
    BY <1>2, <1>5 DEF Copies, InHand
  <1>8. /\ \A k \in Key : \A b : InTable(k, b)' <=> InTable(k, b) /\ b # b0
        /\ \A k, b : InNew(k, b)' <=> InNew(k, b)
        /\ \A k \in Key : InTable(k, b0) <=> k = k0
    <2>1. ASSUME NEW k \in Key, NEW b
          PROVE  InTable(k, b)' <=> InTable(k, b) /\ b # b0
      BY <1>1, <1>2, NullAssumption DEF InTable
    <2> QED
      BY <1>1, <1>2, <1>3, <2>1 DEF InTable, InNew
  <1>9. NewInv'
    BY <1>2, <1>7 DEF Safe, NewInv
  <1>10. UniqueInv'
    BY <1>3, <1>7, <1>8 DEF Safe, UniqueInv
  <1>11. SomewhereInv'
    BY <1>2, <1>7, <1>8 DEF Safe, SomewhereInv, SizeInv
  <1>12. PathInv'
    <2>1. NoGap(newTable, newCapacity, k0, i'[t])
      <3>1. Dist(k0, i'[t], newCapacity) = 0
        BY <1>2, <1>3, DistFirst
      <3>2. ASSUME NEW d \in 0 .. newCapacity - 1
            PROVE  ~(Dist(k0, d, newCapacity) < 0)
        <4>1. Dist(k0, d, newCapacity) \in 0 .. newCapacity - 1
          BY <1>3, DistIs
        <4> QED
          BY <1>3, <4>1
      <3> QED
        BY <3>1, <3>2 DEF NoGap
    <2> QED
      BY <1>2, <1>5, <2>1 DEF Safe, PathInv, NoGap
  <1> QED
    BY <1>6, <1>9, <1>10, <1>11, <1>12 DEF BucketInv

\* The item leaves the hands for a bucket without a gap in front of it.
LEMMA PlaceBuckets ==
  ASSUME Safe, NEW t \in Thread, TransferPlace(t), newTable[i[t]].addr = Null
  PROVE  BucketInv'
  <1> DEFINE b0 == i[t]
             k0 == moving[t]
  <1>1. /\ b0 \in 0 .. newCapacity - 1 /\ k0 \in Key
        /\ newTable' \in [0 .. newCapacity - 1 -> Bucket]
        /\ newTable'[b0].addr = k0 /\ newTable'[b0].value = newTable[b0].value
        /\ \A d \in 0 .. newCapacity - 1 : d # b0 => newTable'[d] = newTable[d]
    <2>1. /\ b0 \in 0 .. newCapacity - 1 /\ k0 \in Key
          /\ IsSet(newTable', newTable, newCapacity, b0, [addr |-> k0, value |-> newTable[b0].value])
      BY PlaceSets DEF Safe
    <2> QED
      BY <2>1 DEF IsSet
  <1>2. /\ pc[t] = "place" /\ pc'[t] = "copy"
        /\ UNCHANGED <<i, table, capacity, newCapacity, resizeState, moving, dict>>
    BY DEF TransferPlace, Goto, Safe, Shape, LocalsOK
  <1>3. k0 \in DOMAIN dict /\ k0 # Null
    BY <1>1, <1>2, NullAssumption DEF Safe, MoveInv
  <1>4. Others(t)
    BY StepOthers DEF Step, Helper, Safe, Shape
  <1>5. /\ \A u \in Thread \ {t} : pc'[u] = pc[u] /\ i'[u] = i[u] /\ moving'[u] = moving[u]
        /\ resizeState \notin Stable /\ (Fresh' <=> Fresh)
    BY <1>2, <1>4, MoverWhenNotFresh DEF Others, Safe, Transferring, Fresh
  <1>6. OldInv'
    <2>1. \A u \in Thread : \A b : Fills(u, b)' <=> Fills(u, b)
      BY <1>2, <1>5 DEF Fills
    <2> QED
      BY <1>2, <1>5, <2>1 DEF Safe, OldInv
  <1>7. NewInv'
    <2> SUFFICES ASSUME NEW b \in 0 .. newCapacity - 1
                 PROVE  /\ newTable'[b].addr = Null => newTable'[b].value = Null
                        /\ newTable'[b].addr # Null =>
                             /\ newTable'[b].addr \in DOMAIN dict
                             /\ \/ newTable'[b].value = dict[newTable'[b].addr]
                                \/ newTable'[b].value = Null /\ \E u \in Thread : Copies(u, b)'
      BY <1>2, <1>5 DEF NewInv
    <2>1. CASE b = b0
      <3>1. newTable[b0].value = Null
        BY <1>1 DEF Safe, NewInv
      <3>2. Copies(t, b)'
        BY <1>2, <2>1 DEF Copies
      <3> QED
        BY <1>1, <1>3, <2>1, <3>1, <3>2
    <2>2. CASE b # b0
      <3>1. newTable'[b] = newTable[b]
        BY <1>1, <2>2
      <3>2. \A u \in Thread : Copies(u, b) => Copies(u, b)'
        BY <1>2, <1>5 DEF Copies
      <3> QED
        BY <3>1, <3>2 DEF Safe, NewInv
    <2> QED
      BY <2>1, <2>2
  <1>8. /\ \A k, u : InHand(k, u)' <=> InHand(k, u) /\ u # t
        /\ \A k : InHand(k, t) <=> k = k0
    BY <1>2, <1>5 DEF InHand
  <1>9. /\ \A k, b : InTable(k, b)' <=> InTable(k, b)
        /\ \A k \in Key : \A b : InNew(k, b)' <=> InNew(k, b) \/ (k = k0 /\ b = b0)
    <2>1. ASSUME NEW k \in Key, NEW b
          PROVE  InNew(k, b)' <=> InNew(k, b) \/ (k = k0 /\ b = b0)
      BY <1>1, <1>2, NullAssumption DEF InNew
    <2> QED
      BY <1>2, <2>1 DEF InTable
  <1>10. UniqueInv'
    BY <1>1, <1>8, <1>9 DEF Safe, UniqueInv
  <1>11. SomewhereInv'
    BY <1>1, <1>2, <1>8, <1>9 DEF Safe, SomewhereInv, SizeInv
  <1>12. PathInv'
    <2>1. \A d \in 0 .. newCapacity - 1 : newTable[d].addr # Null => newTable'[d].addr # Null
      BY <1>1, <1>3
    <2>2. NoGap(newTable', newCapacity, k0, b0)
      BY <1>2, <2>1 DEF Safe, PathInv, NoGap
    <2>3. \A k \in Key, b \in 0 .. newCapacity - 1 : newTable'[b].addr = k => NoGap(newTable', newCapacity, k, b)
      BY <1>1, <2>1, <2>2 DEF Safe, PathInv, NoGap
    <2>4. \A u \in Thread : pc'[u] = "place" => pc[u] = "place" /\ moving'[u] = moving[u] /\ i'[u] = i[u]
      BY <1>2, <1>5
    <2> QED
      BY <1>2, <1>5, <2>1, <2>3, <2>4 DEF Safe, PathInv, NoGap
  <1> QED
    BY <1>6, <1>7, <1>10, <1>11, <1>12 DEF BucketInv

\* A bucket that is taken is one more without a gap.
LEMMA PlaceNextBuckets ==
  ASSUME Safe, NEW t \in Thread, TransferPlace(t), newTable[i[t]].addr # Null
  PROVE  BucketInv'
  <1> DEFINE k0 == moving[t]
             d0 == (i[t] + 1) % newCapacity
  <1>1. /\ pc[t] = "place" /\ pc' = pc /\ i'[t] = d0
        /\ UNCHANGED <<table, newTable, capacity, newCapacity, resizeState, moving, dict>>
    BY DEF TransferPlace, Goto, Safe, Shape, LocalsOK
  <1>2. i[t] \in 0 .. newCapacity - 1 /\ k0 \in Key /\ newCapacity \in Nat \ {0}
    <2>1. i[t] < newCapacity /\ i[t] \in Nat /\ newCapacity \in Nat /\ k0 \in Key
      BY <1>1 DEF Safe, Shape, LabelInv, LocalsOK, SharedOK, Transferring
    <2> QED
      BY <2>1
  <1>3. Others(t)
    BY StepOthers DEF Step, Helper, Safe, Shape
  <1>4. /\ \A u \in Thread \ {t} : i'[u] = i[u]
        /\ (Fresh' <=> Fresh)
    BY <1>1, <1>3 DEF Others, Fresh
  <1>5. /\ \A u \in Thread : \A b : Fills(u, b)' <=> Fills(u, b)
        /\ \A u \in Thread : \A b : Copies(u, b)' <=> Copies(u, b)
        /\ \A k, u : InHand(k, u)' <=> InHand(k, u)
    BY <1>1, <1>4 DEF Fills, Copies, InHand
  <1>6. /\ \A k, b : InTable(k, b)' <=> InTable(k, b)
        /\ \A k, b : InNew(k, b)' <=> InNew(k, b)
    BY <1>1 DEF InTable, InNew
  <1>7. OldInv' /\ NewInv' /\ UniqueInv' /\ SomewhereInv'
    BY <1>1, <1>4, <1>5, <1>6 DEF Safe, OldInv, NewInv, UniqueInv, SomewhereInv
  <1>8. NoGap(newTable, newCapacity, k0, d0)
    <2>1. NoGap(newTable, newCapacity, k0, i[t])
      BY <1>1 DEF Safe, PathInv
    <2>2. /\ Dist(k0, i[t], newCapacity) \in 0 .. newCapacity - 1
          /\ \A d \in 0 .. newCapacity - 1 : Dist(k0, d, newCapacity) \in 0 .. newCapacity - 1
      BY <1>2, DistIs
    <2>3. /\ Dist(k0, i[t], newCapacity) + 1 < newCapacity => Dist(k0, d0, newCapacity) = Dist(k0, i[t], newCapacity) + 1
          /\ Dist(k0, i[t], newCapacity) + 1 = newCapacity => Dist(k0, d0, newCapacity) = 0
      BY <1>2, DistNext
    <2> SUFFICES ASSUME NEW d \in 0 .. newCapacity - 1,
                        Dist(k0, d, newCapacity) < Dist(k0, d0, newCapacity)
                 PROVE  newTable[d].addr # Null
      BY DEF NoGap
    <2>4. Dist(k0, d, newCapacity) <= Dist(k0, i[t], newCapacity)
      <3> HIDE DEF d0, k0
      <3> QED
        BY <1>2, <2>2, <2>3
    <2>5. CASE Dist(k0, d, newCapacity) = Dist(k0, i[t], newCapacity)
      <3>1. d = i[t]
        BY <1>2, <2>5, DistSame
      <3> QED
        BY <3>1
    <2>6. CASE Dist(k0, d, newCapacity) < Dist(k0, i[t], newCapacity)
      BY <2>1, <2>6 DEF NoGap
    <2> QED
      BY <2>2, <2>4, <2>5, <2>6
  <1>9. PathInv'
    BY <1>1, <1>4, <1>8 DEF Safe, PathInv, NoGap
  <1> QED
    BY <1>7, <1>9 DEF BucketInv

\* The value follows the item.
LEMMA CopyBuckets ==
  ASSUME Safe, NEW t \in Thread, TransferCopyValue(t)
  PROVE  BucketInv'
  <1> DEFINE b0 == i[t]
             k0 == moving[t]
  <1>1. /\ b0 \in 0 .. newCapacity - 1
        /\ newTable' \in [0 .. newCapacity - 1 -> Bucket]
        /\ newTable'[b0].addr = newTable[b0].addr /\ newTable'[b0].value = table[pos[t]].value
        /\ \A d \in 0 .. newCapacity - 1 : d # b0 => newTable'[d] = newTable[d]
    <2>1. /\ b0 \in 0 .. newCapacity - 1
          /\ IsSet(newTable', newTable, newCapacity, b0, [addr |-> newTable[b0].addr, value |-> table[pos[t]].value])
      BY CopySets DEF Safe
    <2> QED
      BY <2>1 DEF IsSet
  <1>2. /\ pc[t] = "copy" /\ pc'[t] \in {"sweep", "help"}
        /\ UNCHANGED <<table, capacity, newCapacity, resizeState, dict>>
    BY DEF TransferCopyValue, TransferEnd, Goto, Safe, Shape, LocalsOK
  <1>3. /\ k0 \in DOMAIN dict /\ table[pos[t]].value = dict[k0] /\ newTable[b0].addr = k0
        /\ k0 \in Key
    BY <1>2 DEF Safe, MoveInv, SizeInv
  <1>4. Others(t)
    BY StepOthers DEF Step, Helper, Safe, Shape
  <1>5. /\ \A u \in Thread \ {t} : pc'[u] = pc[u] /\ i'[u] = i[u] /\ moving'[u] = moving[u]
        /\ resizeState \notin Stable /\ (Fresh' <=> Fresh)
    BY <1>2, <1>4, MoverWhenNotFresh DEF Others, Safe, Transferring, Fresh
  <1>6. OldInv'
    <2>1. \A u \in Thread : \A b : Fills(u, b)' <=> Fills(u, b)
      BY <1>2, <1>5 DEF Fills
    <2> QED
      BY <1>2, <1>5, <2>1 DEF Safe, OldInv
  <1>7. NewInv'
    <2> SUFFICES ASSUME NEW b \in 0 .. newCapacity - 1
                 PROVE  /\ newTable'[b].addr = Null => newTable'[b].value = Null
                        /\ newTable'[b].addr # Null =>
                             /\ newTable'[b].addr \in DOMAIN dict
                             /\ \/ newTable'[b].value = dict[newTable'[b].addr]
                                \/ newTable'[b].value = Null /\ \E u \in Thread : Copies(u, b)'
      BY <1>2, <1>5 DEF NewInv
    <2>1. CASE b = b0
      BY <1>1, <1>3, <2>1, NullAssumption
    <2>2. CASE b # b0
      <3>1. newTable'[b] = newTable[b]
        BY <1>1, <2>2
      <3>2. \A u \in Thread : Copies(u, b) => Copies(u, b)'
        BY <1>2, <1>5, <2>2 DEF Copies
      <3> QED
        BY <3>1, <3>2 DEF Safe, NewInv
    <2> QED
      BY <2>1, <2>2
  <1>8. /\ \A k, u : InHand(k, u)' <=> InHand(k, u)
        /\ \A u \in Thread : pc'[u] = "place" => u # t /\ pc[u] = "place"
    BY <1>2, <1>5 DEF InHand
  <1>9. /\ \A k, b : InTable(k, b)' <=> InTable(k, b)
        /\ \A k, b : InNew(k, b)' <=> InNew(k, b)
    BY <1>1, <1>2 DEF InTable, InNew
  <1>10. UniqueInv' /\ SomewhereInv'
    BY <1>2, <1>8, <1>9 DEF Safe, UniqueInv, SomewhereInv
  <1>11. PathInv'
    <2>1. \A d \in 0 .. newCapacity - 1 : newTable'[d].addr = newTable[d].addr
      BY <1>1
    <2> QED
      BY <1>2, <1>5, <1>8, <2>1 DEF Safe, PathInv, NoGap
  <1> QED
    BY <1>6, <1>7, <1>10, <1>11 DEF BucketInv

-----------------------------------------------------------------------------
(* The steps that exchange the tables.                                      *)

\* The new table starts empty.
LEMMA PrepareBuckets ==
  ASSUME Safe, NEW t \in Thread, Prepare(t)
  PROVE  BucketInv'
  <1>1. /\ pc[t] = "prepare" /\ pc'[t] = "drain" /\ resizeState = "preparing" /\ newCapacity = 0
        /\ newTable' = Table(2 * capacity) /\ newCapacity' = 2 * capacity
        /\ UNCHANGED <<table, capacity, resizeState, i, moving, dict>>
    BY DEF Prepare, Goto, locals, Safe, Shape, LocalsOK, MasterInv, Ready
  <1>2. \A b \in 0 .. newCapacity' - 1 : newTable'[b].addr = Null /\ newTable'[b].value = Null
    BY <1>1 DEF Table, Empty
  <1>3. Others(t)
    BY StepOthers DEF Step, Master, Safe, Shape
  <1>4. /\ \A u \in Thread \ {t} : pc'[u] = pc[u]
        /\ Fresh /\ Fresh' /\ \A u \in Thread : pc[u] \notin Transferring
    BY <1>1, <1>3 DEF Others, Fresh, Safe, Shape, LabelInv
  <1>5. /\ \A u \in Thread : \A b : Fills(u, b)' <=> Fills(u, b)
        /\ \A k, u : ~InHand(k, u) /\ ~InHand(k, u)'
        /\ \A u \in Thread : pc'[u] # "place"
    BY <1>1, <1>4 DEF Fills, InHand, Transferring
  <1>6. /\ \A k, b : InTable(k, b)' <=> InTable(k, b)
        /\ \A k \in Key : \A b : ~InNew(k, b) /\ ~InNew(k, b)'
    <2>1. 0 .. newCapacity - 1 = {}
      BY <1>1
    <2> QED
      BY <1>1, <1>2, <2>1, NullAssumption DEF InTable, InNew
  <1>7. OldInv'
    BY <1>1, <1>4, <1>5 DEF Safe, OldInv
  <1>8. NewInv'
    BY <1>2 DEF NewInv
  <1>9. UniqueInv' /\ SomewhereInv'
    BY <1>1, <1>5, <1>6 DEF Safe, UniqueInv, SomewhereInv, SizeInv
  <1>10. PathInv'
    BY <1>1, <1>2, <1>4, <1>5, NullAssumption DEF Safe, PathInv, NoGap
  <1> QED
    BY <1>7, <1>8, <1>9, <1>10 DEF BucketInv

\* The new table holds all items when it takes the place of the old one.
LEMMA SwapBuckets ==
  ASSUME Safe, NEW t \in Thread, Swap(t)
  PROVE  BucketInv'
  <1>1. /\ pc[t] = "swap" /\ pc'[t] = "reopen" /\ resizeState = "waiting" /\ newCapacity = 2 * capacity
        /\ newCapacity' = 0 /\ table' = newTable /\ capacity' = newCapacity
        /\ UNCHANGED <<resizeState, i, moving, dict>>
    BY DEF Swap, Goto, locals, Safe, Shape, LocalsOK, MasterInv
  <1>2. \A b \in 0 .. capacity - 1 : table[b].addr = Null
    BY <1>1 DEF Safe, MoveInv
  <1>3. Others(t)
    BY StepOthers DEF Step, Master, Safe, Shape
  <1>4. /\ \A u \in Thread \ {t} : pc'[u] = pc[u]
        /\ \A u \in Thread : pc[u] \notin Transferring /\ pc'[u] \notin Transferring
    BY <1>1, <1>3 DEF Others, Safe, Shape, LabelInv, Transferring
  <1>5. 0 .. newCapacity' - 1 = {}
    BY <1>1
  <1>6. /\ \A k, u : ~InHand(k, u) /\ ~InHand(k, u)'
        /\ \A u \in Thread : \A b : ~Copies(u, b)
        /\ \A u \in Thread : pc'[u] # "place"
    BY <1>4 DEF InHand, Copies, Transferring
  <1>7. /\ \A k \in Key : \A b : ~InTable(k, b) /\ (InTable(k, b)' <=> InNew(k, b))
        /\ \A k, b : ~InNew(k, b)'
    BY <1>1, <1>2, <1>5, NullAssumption DEF InTable, InNew
  <1>8. OldInv'
    BY <1>1, <1>6 DEF Safe, NewInv, OldInv
  <1>9. NewInv'
    BY <1>5 DEF NewInv
  <1>10. UniqueInv' /\ SomewhereInv'
    BY <1>1, <1>6, <1>7 DEF Safe, UniqueInv, SomewhereInv, SizeInv
  <1>11. PathInv'
    BY <1>1, <1>5, <1>6 DEF Safe, PathInv, NoGap
  <1> QED
    BY <1>8, <1>9, <1>10, <1>11 DEF BucketInv

(* Every step keeps the items where they can be found.                      *)
LEMMA StepBuckets ==
  ASSUME Safe, NEW t \in Thread, Step(t) \/ \E k \in Key : Call(t, k)
  PROVE  BucketInv'
  <1>1. Others(t) /\ newCapacity \in Nat /\ BucketInv
    BY StepOthers DEF Safe, Shape, SharedOK, BucketInv
  <1>2. CASE Probe(t) \/ \E k \in Key : Call(t, k)
    <2>1. CASE Fill(t)
      BY <2>1, FillBuckets
    <2>2. CASE Claim(t) /\ table[i[t]].addr = Null
      BY <2>2, ClaimBuckets
    <2>3. CASE ~Fill(t) /\ (Claim(t) => table[i[t]].addr # Null)
      <3>1. /\ UNCHANGED <<table, newTable, capacity, newCapacity, resizeState, dict>>
            /\ pc[t] \notin {"fill", "place", "copy"} /\ pc'[t] \notin {"fill", "place", "copy"}
        BY <1>2, <2>3, ProbeStill
      <3>2. (Fresh' => Fresh) /\ resizeState' = resizeState
        BY <3>1 DEF Fresh
      <3> QED
        BY <1>1, <3>1, <3>2, Still
    <2> QED
      BY <2>1, <2>2, <2>3
  <1>3. CASE Master(t)
    <2>1. CASE Prepare(t)
      BY <2>1, PrepareBuckets
    <2>2. CASE Swap(t)
      BY <2>2, SwapBuckets
    <2>3. CASE ~Prepare(t) /\ ~Swap(t)
      BY <1>1, <1>3, <2>3, MasterStill, Still
    <2> QED
      BY <2>1, <2>2, <2>3
  <1>4. CASE Helper(t)
    <2>1. CASE TransferPlace(t)
      BY <2>1, PlaceBuckets, PlaceNextBuckets
    <2>2. CASE TransferCopyValue(t)
      BY <2>2, CopyBuckets
    <2>3. CASE TransferTake(t) /\ table[pos[t]].addr = moving[t]
      BY <2>3, TakeBuckets
    <2>4. CASE ~TransferPlace(t) /\ ~TransferCopyValue(t) /\ (TransferTake(t) => table[pos[t]].addr # moving[t])
      <3>1. /\ UNCHANGED <<table, newTable, capacity, newCapacity, resizeState, dict>>
            /\ pc[t] \notin {"fill", "place", "copy"} /\ pc'[t] \notin {"fill", "place", "copy"}
        BY <1>4, <2>4, HelperStill
      <3>2. (Fresh' => Fresh) /\ resizeState' = resizeState
        BY <3>1 DEF Fresh
      <3> QED
        BY <1>1, <3>1, <3>2, Still
    <2> QED
      BY <2>1, <2>2, <2>3, <2>4
  <1> QED
    BY <1>2, <1>3, <1>4 DEF Step

-----------------------------------------------------------------------------
(* What is known of the item that is moved, and of the swept buckets.       *)

\* A step that changes no table.
LEMMA MoveStill ==
  ASSUME Safe, NEW t \in Thread, Others(t),
         UNCHANGED <<table, newTable, capacity, dict>>,
         pc'[t] \notin {"place", "copy"},
         pc'[t] = "take" => table[pos'[t]].addr \in {moving'[t], Null},
         caller'[t] = "sweep" => \A b \in 0 .. capacity - 1 : b < pos'[t] => table[b].addr = Null,
         pc'[t] \in {"settle", "swap"} => \A b \in 0 .. capacity - 1 : table[b].addr = Null
  PROVE  MoveInv'
  <1>1. MoveInv
    BY DEF Safe
  <1> QED
    BY <1>1 DEF MoveInv, Others

\* Probes do not disturb a transfer.
LEMMA ProbeMove ==
  ASSUME Safe, NEW t \in Thread, Probe(t) \/ \E k \in Key : Call(t, k)
  PROVE  MoveInv'
  <1>1. Others(t)
    BY StepOthers DEF Step, Safe, Shape
  <1>2. pc \in [Thread -> Labels] /\ caller \in [Thread -> {"idle", "reenter", "return", "sweep"}] /\ MoveInv
    BY DEF Safe, Shape, LocalsOK
  <1>3. /\ pc'[t] \notin {"take", "place", "copy", "settle", "swap"}
        /\ caller'[t] \in {caller[t], "reenter"} /\ pos' = pos
    BY <1>2 DEF Probe, Enter, Gate, Retreat, Start, Look, LookOn, Await, Claim, Fill,
       Count, LoadFactor, ForgetProbe, Exit, Call, Goto, After, locals
  <1>4. CASE pc[t] \in {"claim", "fill"}
    <2>1. \A u \in Thread : pc[u] \notin Transferring \cup {"sweep", "settle", "swap"} /\ caller[u] # "sweep"
      BY <1>4, UserWhenStable DEF Safe, Probing
    <2>2. \A u \in Thread : pc'[u] \notin {"take", "place", "copy", "settle", "swap"} /\ caller'[u] # "sweep"
      BY <1>1, <1>3, <2>1 DEF Others, Transferring
    <2> QED
      BY <2>2 DEF MoveInv
  <1>5. CASE pc[t] \notin {"claim", "fill"}
    <2>1. UNCHANGED <<table, newTable, capacity, dict>>
      BY <1>5 DEF Probe, Enter, Gate, Retreat, Start, Look, LookOn, Await, Claim, Fill,
         Count, LoadFactor, Exit, Call, Goto, shared
    <2>2. caller'[t] = "sweep" => \A b \in 0 .. capacity - 1 : b < pos'[t] => table[b].addr = Null
      BY <1>2, <1>3 DEF MoveInv
    <2> QED
      BY <1>1, <1>3, <2>1, <2>2, MoveStill
  <1> QED
    BY <1>4, <1>5

\* The master has swept what it has passed.
LEMMA MasterMove ==
  ASSUME Safe, NEW t \in Thread, Master(t)
  PROVE  MoveInv'
  <1>1. Others(t)
    BY StepOthers DEF Step, Safe, Shape
  <1>2. pc \in [Thread -> Labels] /\ caller \in [Thread -> {"idle", "reenter", "return", "sweep"}]
        /\ pos \in [Thread -> Nat] /\ capacity \in Nat /\ MoveInv
    BY DEF Safe, Shape, LocalsOK, SharedOK
  <1>3. CASE Prepare(t) \/ Swap(t)
    <2>1. /\ pc[t] \in {"prepare", "swap"} /\ pc'[t] \in {"drain", "reopen"} /\ caller' = caller
      BY <1>2, <1>3 DEF Prepare, Swap, Goto, locals
    <2>2. \A u \in Thread : pc[u] \notin Transferring \cup {"sweep"} /\ caller[u] # "sweep"
      BY <2>1 DEF Safe, Shape, LabelInv, MasterInv, IsMaster, MasterLabels, Ready
    <2>3. \A u \in Thread \ {t} : pc[u] \notin {"settle", "swap"}
      BY <2>1 DEF Safe, Shape, MasterInv, IsMaster, MasterLabels, Ready
    <2>4. \A u \in Thread : pc'[u] \notin {"take", "place", "copy", "settle", "swap"} /\ caller'[u] # "sweep"
      BY <1>1, <2>1, <2>2, <2>3 DEF Others, Transferring
    <2> QED
      BY <2>4 DEF MoveInv
  <1>4. CASE ~Prepare(t) /\ ~Swap(t)
    <2>1. UNCHANGED <<table, newTable, capacity, dict>>
      BY <1>4, MasterStill
    <2>2. pc'[t] \notin {"take", "place", "copy"}
      BY <1>2, <1>4 DEF Master, Elect, Fallback, Drain, Open, Sweep, Settle, Reopen,
         Goto
    <2>3. caller'[t] = "sweep" => \A b \in 0 .. capacity - 1 : b < pos'[t] => table[b].addr = Null
      <3>1. CASE Open(t)
        <4>1. pos'[t] = 0
          BY <1>2, <3>1 DEF Open
        <4> QED
          BY <4>1
      <3>2. CASE ~Open(t)
        <4>1. caller'[t] = "sweep" => caller[t] = "sweep" /\ pos'[t] = pos[t]
          BY <1>2, <1>4, <3>2 DEF Master, Elect, Fallback, Drain, Sweep, Settle, Reopen,
             Goto, locals
        <4> QED
          BY <1>2, <4>1 DEF MoveInv
      <3> QED
        BY <3>1, <3>2
    <2>4. pc'[t] \in {"settle", "swap"} => \A b \in 0 .. capacity - 1 : table[b].addr = Null
      <3>1. CASE Sweep(t)
        <4>1. pc'[t] \in {"settle", "swap"} => ~(pos[t] < capacity)
          BY <1>2, <3>1 DEF Sweep, Goto
        <4>2. caller[t] = "sweep" /\ pos[t] \in Nat
          BY <1>2, <3>1 DEF Sweep, Goto, Safe, Shape, LabelInv
        <4>3. \A b \in 0 .. capacity - 1 : b < pos[t] => table[b].addr = Null
          BY <1>2, <4>2 DEF MoveInv
        <4> QED
          BY <1>2, <4>1, <4>2, <4>3
      <3>2. CASE ~Sweep(t)
        <4>1. pc'[t] \in {"settle", "swap"} => pc[t] = "settle"
          BY <1>2, <1>4, <3>2 DEF Master, Elect, Fallback, Drain, Open, Settle, Reopen,
             Goto
        <4> QED
          BY <1>2, <4>1 DEF MoveInv
      <3> QED
        BY <3>1, <3>2
    <2> QED
      BY <1>1, <2>1, <2>2, <2>3, <2>4, MoveStill
  <1> QED
    BY <1>3, <1>4

\* The bucket that the master leaves is empty, and so are those before.
LEMMA SweptNext ==
  ASSUME Safe, NEW t \in Thread, NEW from, TransferEnd(t, from), pc[t] \in Transferring,
         table[pos[t]].addr = Null, UNCHANGED caller
  PROVE  /\ pc'[t] \in {"sweep", "help"}
         /\ caller'[t] = "sweep" => \A b \in 0 .. capacity - 1 : b < pos'[t] => table[b].addr = Null
  <1>1. pc \in [Thread -> Labels] /\ pos \in [Thread -> Nat] /\ capacity \in Nat /\ MoveInv
    BY DEF Safe, Shape, LocalsOK, SharedOK
  <1>2. CASE caller[t] = "sweep"
    <2>1. pc'[t] = "sweep" /\ pos'[t] = pos[t] + 1
      BY <1>1, <1>2 DEF TransferEnd, Goto
    <2>2. \A b \in 0 .. capacity - 1 : b < pos[t] => table[b].addr = Null
      BY <1>1, <1>2 DEF MoveInv
    <2>3. pos[t] \in Nat /\ \A b \in 0 .. capacity - 1 : b < pos[t] + 1 => b < pos[t] \/ b = pos[t]
      BY <1>1
    <2> QED
      BY <2>1, <2>2, <2>3
  <1>3. CASE caller[t] # "sweep"
    BY <1>1, <1>3 DEF TransferEnd, Goto
  <1> QED
    BY <1>2, <1>3

\* Only one thread takes an item, and it knows the value.
LEMMA TakeMove ==
  ASSUME Safe, NEW t \in Thread, TransferTake(t), table[pos[t]].addr = moving[t]
  PROVE  MoveInv'
  <1> DEFINE b0 == pos[t]
  <1>1. /\ b0 \in 0 .. capacity - 1
        /\ table' \in [0 .. capacity - 1 -> Bucket]
        /\ table'[b0].addr = Null /\ table'[b0].value = table[b0].value
        /\ \A d \in 0 .. capacity - 1 : d # b0 => table'[d] = table[d]
    <2>1. b0 \in 0 .. capacity - 1 /\ IsSet(table', table, capacity, b0, [addr |-> Null, value |-> table[b0].value])
      BY TakeSets DEF Safe
    <2> QED
      BY <2>1 DEF IsSet
  <1>2. /\ pc[t] = "take" /\ pc'[t] = "place"
        /\ UNCHANGED <<newTable, capacity, moving, dict, caller, pos>>
    BY DEF TransferTake, Goto, Safe, Shape, LocalsOK
  <1>3. moving[t] \in Key /\ moving[t] # Null
    BY <1>2, NullAssumption DEF Safe, Shape, LabelInv
  <1>4. moving[t] \in DOMAIN dict /\ table[b0].value = dict[moving[t]]
    BY <1>1, <1>2, <1>3, ValueIsThere DEF Transferring
  <1>5. Others(t) /\ MoveInv
    BY StepOthers DEF Step, Helper, Safe, Shape
  <1>6. \A d \in 0 .. capacity - 1 : table'[d].addr \in {table[d].addr, Null}
    BY <1>1
  <1> SUFFICES ASSUME NEW u \in Thread
               PROVE  /\ pc'[u] = "take" => table'[pos[u]].addr \in {moving[u], Null}
                      /\ pc'[u] \in {"place", "copy"} =>
                           /\ moving[u] \in DOMAIN dict
                           /\ table'[pos[u]].addr = Null /\ table'[pos[u]].value = dict[moving[u]]
                      /\ pc'[u] = "copy" => newTable[i'[u]].addr = moving[u]
                      /\ caller[u] = "sweep" => \A b \in 0 .. capacity - 1 : b < pos[u] => table'[b].addr = Null
                      /\ pc'[u] \in {"settle", "swap"} => \A b \in 0 .. capacity - 1 : table'[b].addr = Null
    BY <1>2 DEF MoveInv
  <1>7. caller[u] = "sweep" => \A b \in 0 .. capacity - 1 : b < pos[u] => table'[b].addr = Null
    BY <1>5, <1>6 DEF MoveInv
  <1>8. CASE u = t
    BY <1>1, <1>2, <1>4, <1>7, <1>8
  <1>9. CASE u # t
    <2>1. pc'[u] = pc[u] /\ i'[u] = i[u]
      BY <1>5, <1>9 DEF Others
    <2>2. CASE pc[u] \in {"take", "place", "copy"}
      <3>1. pos[u] \in 0 .. capacity - 1
        <4>1. pos[u] \in Nat /\ pos[u] < capacity /\ capacity \in Nat
          BY <2>2 DEF Safe, Shape, LabelInv, LocalsOK, SharedOK, Transferring
        <4> QED
          BY <4>1
      <3>2. pc[u] \in {"place", "copy"} => table'[pos[u]] = table[pos[u]]
        BY <1>1, <1>2, <1>3, <1>5, <3>1 DEF MoveInv
      <3>3. pc[u] = "take" => table'[pos[u]].addr \in {moving[u], Null}
        BY <1>5, <1>6, <3>1 DEF MoveInv
      <3>4. pc[u] \in {"place", "copy"} =>
              /\ moving[u] \in DOMAIN dict
              /\ table'[pos[u]].addr = Null /\ table'[pos[u]].value = dict[moving[u]]
        BY <1>5, <3>2 DEF MoveInv
      <3>5. pc[u] = "copy" => newTable[i[u]].addr = moving[u]
        BY <1>5 DEF MoveInv
      <3> QED
        BY <1>7, <2>1, <2>2, <3>3, <3>4, <3>5
    <2>3. CASE pc[u] \notin {"take", "place", "copy"}
      <3>1. pc[u] \in {"settle", "swap"} => \A b \in 0 .. capacity - 1 : table'[b].addr = Null
        BY <1>5, <1>6 DEF MoveInv
      <3> QED
        BY <1>7, <2>1, <2>3, <3>1
    <2> QED
      BY <2>2, <2>3
  <1> QED
    BY <1>8, <1>9

\* The bucket is the thread's until the value is copied.
LEMMA PlaceMove ==
  ASSUME Safe, NEW t \in Thread, TransferPlace(t)
  PROVE  MoveInv'
  <1>1. /\ pc[t] = "place" /\ UNCHANGED <<table, capacity, moving, dict, caller, pos>>
        /\ pc'[t] \in {"place", "copy"}
    BY DEF TransferPlace, Goto, Safe, Shape, LocalsOK
  <1>2. Others(t) /\ MoveInv
    BY StepOthers DEF Step, Helper, Safe, Shape
  <1>3. \A u \in Thread : pc'[u] = "copy" => newTable'[i'[u]].addr = moving[u]
    <2>1. CASE newTable[i[t]].addr = Null
      <3>1. /\ i[t] \in 0 .. newCapacity - 1 /\ moving[t] \in Key
            /\ IsSet(newTable', newTable, newCapacity, i[t], [addr |-> moving[t], value |-> newTable[i[t]].value])
        BY <2>1, PlaceSets DEF Safe
      <3>2. /\ newTable'[i[t]].addr = moving[t]
            /\ \A d \in 0 .. newCapacity - 1 : d # i[t] => newTable'[d] = newTable[d]
        BY <3>1 DEF IsSet
      <3>3. i' = i
        BY <2>1 DEF TransferPlace
      <3>4. ASSUME NEW u \in Thread \ {t}, pc'[u] = "copy"
            PROVE  newTable'[i'[u]].addr = moving[u]
        <4>1. pc[u] = "copy" /\ newTable[i[u]].addr = moving[u]
          BY <1>2, <3>4 DEF Others, MoveInv
        <4>2. moving[u] # Null /\ i[u] < newCapacity /\ i[u] \in Nat /\ newCapacity \in Nat
          BY <4>1, NullAssumption DEF Safe, Shape, LabelInv, LocalsOK, SharedOK
        <4>3. i[u] \in 0 .. newCapacity - 1 /\ i[u] # i[t]
          BY <2>1, <4>1, <4>2
        <4> QED
          BY <3>2, <3>3, <4>1, <4>3
      <3> QED
        BY <3>2, <3>3, <3>4
    <2>2. CASE newTable[i[t]].addr # Null
      BY <1>1, <1>2, <2>2 DEF TransferPlace, Others, MoveInv
    <2> QED
      BY <2>1, <2>2
  <1>4. \A u \in Thread : pc'[u] # pc[u] => u = t
    BY <1>2 DEF Others
  <1> SUFFICES ASSUME NEW u \in Thread
               PROVE  /\ pc'[u] = "take" => table[pos[u]].addr \in {moving[u], Null}
                      /\ pc'[u] \in {"place", "copy"} =>
                           /\ moving[u] \in DOMAIN dict
                           /\ table[pos[u]].addr = Null /\ table[pos[u]].value = dict[moving[u]]
                      /\ caller[u] = "sweep" => \A b \in 0 .. capacity - 1 : b < pos[u] => table[b].addr = Null
                      /\ pc'[u] \in {"settle", "swap"} => \A b \in 0 .. capacity - 1 : table[b].addr = Null
    BY <1>1, <1>3 DEF MoveInv
  <1>5. CASE pc'[u] = pc[u]
    BY <1>2, <1>5 DEF MoveInv
  <1>6. CASE pc'[u] # pc[u]
    BY <1>1, <1>2, <1>4, <1>6 DEF MoveInv
  <1> QED
    BY <1>5, <1>6

\* After the copy the thread forgets the item.
LEMMA CopyMove ==
  ASSUME Safe, NEW t \in Thread, TransferCopyValue(t)
  PROVE  MoveInv'
  <1>1. /\ i[t] \in 0 .. newCapacity - 1
        /\ newTable'[i[t]].addr = newTable[i[t]].addr
        /\ \A d \in 0 .. newCapacity - 1 : d # i[t] => newTable'[d] = newTable[d]
    <2>1. /\ i[t] \in 0 .. newCapacity - 1
          /\ IsSet(newTable', newTable, newCapacity, i[t], [addr |-> newTable[i[t]].addr, value |-> table[pos[t]].value])
      BY CopySets DEF Safe
    <2> QED
      BY <2>1 DEF IsSet
  <1>2. pc[t] = "copy" /\ UNCHANGED <<table, capacity, caller, dict>> /\ TransferEnd(t, "copy")
    BY DEF TransferCopyValue
  <1>3. Others(t) /\ MoveInv
    BY StepOthers DEF Step, Helper, Safe, Shape
  <1>4. /\ pc'[t] \in {"sweep", "help"}
        /\ caller'[t] = "sweep" => \A b \in 0 .. capacity - 1 : b < pos'[t] => table[b].addr = Null
    <2>1. table[pos[t]].addr = Null
      BY <1>2, <1>3 DEF MoveInv
    <2> QED
      BY <1>2, <2>1, SweptNext DEF Transferring
  <1>5. ASSUME NEW u \in Thread \ {t}, pc[u] = "copy"
        PROVE  newTable'[i[u]].addr = moving[u]
    <2>1. newTable[i[u]].addr = moving[u]
      BY <1>3, <1>5 DEF MoveInv
    <2>2. i[u] < newCapacity /\ i[u] \in Nat /\ newCapacity \in Nat
      BY <1>5 DEF Safe, Shape, LabelInv, LocalsOK, SharedOK
    <2>3. i[u] \in 0 .. newCapacity - 1
      BY <2>2
    <2> QED
      BY <1>1, <2>1, <2>3
  <1> SUFFICES ASSUME NEW u \in Thread
               PROVE  /\ pc'[u] = "take" => table[pos'[u]].addr \in {moving'[u], Null}
                      /\ pc'[u] \in {"place", "copy"} =>
                           /\ moving'[u] \in DOMAIN dict
                           /\ table[pos'[u]].addr = Null /\ table[pos'[u]].value = dict[moving'[u]]
                      /\ pc'[u] = "copy" => newTable'[i'[u]].addr = moving'[u]
                      /\ caller'[u] = "sweep" => \A b \in 0 .. capacity - 1 : b < pos'[u] => table[b].addr = Null
                      /\ pc'[u] \in {"settle", "swap"} => \A b \in 0 .. capacity - 1 : table[b].addr = Null
    BY <1>2 DEF MoveInv
  <1>6. CASE u = t
    BY <1>4, <1>6
  <1>7. CASE u # t
    BY <1>3, <1>5, <1>7 DEF MoveInv, Others
  <1> QED
    BY <1>6, <1>7

\* What is known of the moved items, after a step of resize_helper or transfer_item.
LEMMA HelperMove ==
  ASSUME Safe, NEW t \in Thread, Helper(t)
  PROVE  MoveInv'
  <1>1. Others(t)
    BY StepOthers DEF Step, Safe, Shape
  <1>2. /\ pc \in [Thread -> Labels] /\ caller \in [Thread -> {"idle", "reenter", "return", "sweep"}]
        /\ moving \in [Thread -> Key \cup {Null}] /\ MoveInv /\ LabelInv
    BY DEF Safe, Shape, LocalsOK
  <1>3. CASE TransferPlace(t)
    BY <1>3, PlaceMove
  <1>4. CASE TransferCopyValue(t)
    BY <1>4, CopyMove
  <1>5. CASE TransferTake(t) /\ table[pos[t]].addr = moving[t]
    BY <1>5, TakeMove
  <1>6. CASE ~TransferPlace(t) /\ ~TransferCopyValue(t) /\ (TransferTake(t) => table[pos[t]].addr # moving[t])
    <2>1. UNCHANGED <<table, newTable, capacity, dict>>
      BY <1>6, HelperStill
    <2>2. CASE TransferTake(t)
      <3>1. pc[t] = "take" /\ table[pos[t]].addr = Null /\ TransferEnd(t, "take") /\ UNCHANGED caller
        BY <1>2, <1>6, <2>2 DEF TransferTake, MoveInv
      <3> QED
        BY <1>1, <2>1, <3>1, SweptNext, MoveStill DEF Transferring
    <2>3. CASE TransferRead(t)
      <3>1. pc[t] = "transfer" /\ UNCHANGED caller
        BY <2>3 DEF TransferRead
      <3>2. CASE table[pos[t]].addr = Null
        <4>1. TransferEnd(t, "transfer")
          BY <2>3, <3>2 DEF TransferRead
        <4> QED
          BY <1>1, <2>1, <3>1, <3>2, <4>1, SweptNext, MoveStill DEF Transferring
      <3>3. CASE table[pos[t]].addr # Null
        <4>1. pc'[t] = "take" /\ moving'[t] = table[pos[t]].addr /\ pos' = pos
          BY <1>2, <2>3, <3>3 DEF TransferRead, Goto
        <4>2. caller'[t] = "sweep" => \A b \in 0 .. capacity - 1 : b < pos'[t] => table[b].addr = Null
          BY <1>2, <3>1, <4>1 DEF MoveInv
        <4> QED
          BY <1>1, <2>1, <4>1, <4>2, MoveStill
      <3> QED
        BY <3>2, <3>3
    <2>4. CASE ~TransferTake(t) /\ ~TransferRead(t)
      <3>1. /\ pc[t] \in HelperLabels \cup {"helper", "help_resizing", "help_waiting"}
            /\ pc'[t] \in HelperLabels \cup {"helper", "help_resizing", "help_waiting", "transfer", "enter", "idle", "reenter"}
            /\ caller' = caller
        BY <1>2, <1>6, <2>4 DEF Helper, HelperEnter, HelperCheck, HelperPick,
           HelperLeave, HelperReturn, After, HelperSpin, Goto, HelperLabels, locals
      <3>2. caller[t] # "sweep"
        BY <1>2, <3>1 DEF LabelInv, HelperLabels, Transferring
      <3>3. pc'[t] \notin {"take", "place", "copy", "settle", "swap"}
        BY <3>1 DEF HelperLabels
      <3> QED
        BY <1>1, <2>1, <3>1, <3>2, <3>3, MoveStill
    <2> QED
      BY <2>2, <2>3, <2>4
  <1> QED
    BY <1>3, <1>4, <1>5, <1>6

-----------------------------------------------------------------------------
(* What a probe has seen.                                                   *)

\* A step that changes no table.
LEMMA ProbeKept ==
  ASSUME Safe, NEW t \in Thread, Others(t), UNCHANGED <<table, capacity, dict>>,
         pc'[t] \in {"look", "claim"} =>
           /\ n'[t] <= capacity
           /\ n'[t] < capacity => Dist(key'[t], i'[t], capacity) = n'[t]
           /\ \A d \in 0 .. capacity - 1 :
                Dist(key'[t], d, capacity) < n'[t] => table[d].addr \notin {Null, key'[t]},
         pc'[t] = "claim" => n'[t] < capacity,
         pc'[t] = "await" => key'[t] \in DOMAIN dict /\ table[i'[t]].addr = key'[t],
         pc'[t] # "fill",
         result'[t] # Null /\ pc'[t] # "idle" => key'[t] \in DOMAIN dict /\ dict[key'[t]] = result'[t]
  PROVE  ProbeInv'
  <1>1. ProbeInv
    BY DEF Safe
  <1> SUFFICES ASSUME NEW u \in Thread
               PROVE  /\ pc'[u] \in {"look", "claim"} =>
                           /\ n'[u] <= capacity
                           /\ n'[u] < capacity => Dist(key'[u], i'[u], capacity) = n'[u]
                           /\ \A d \in 0 .. capacity - 1 :
                                Dist(key'[u], d, capacity) < n'[u] => table[d].addr \notin {Null, key'[u]}
                      /\ pc'[u] = "claim" => n'[u] < capacity
                      /\ pc'[u] \in {"await", "fill"} => key'[u] \in DOMAIN dict /\ table[i'[u]].addr = key'[u]
                      /\ pc'[u] = "fill" => dict[key'[u]] = u /\ table[i'[u]].value = Null
                      /\ result'[u] # Null /\ pc'[u] # "idle" => key'[u] \in DOMAIN dict /\ dict[key'[u]] = result'[u]
    BY DEF ProbeInv, Dist
  <1>2. CASE u = t
    BY <1>2
  <1>3. CASE u # t
    <2>1. /\ pc'[u] = pc[u] /\ key'[u] = key[u] /\ result'[u] = result[u] /\ i'[u] = i[u] /\ n'[u] = n[u]
      BY <1>3 DEF Others
    <2> QED
      BY <1>1, <2>1 DEF ProbeInv
  <1> QED
    BY <1>2, <1>3

\* A step of the master or of a helper.
LEMMA OtherProbe ==
  ASSUME Safe, NEW t \in Thread, Master(t) \/ Helper(t)
  PROVE  ProbeInv'
  <1>1. Others(t)
    BY StepOthers DEF Step, Safe, Shape
  <1>2. pc \in [Thread -> Labels] /\ ProbeInv
    BY DEF Safe, Shape, LocalsOK
  <1>3. pc'[t] \notin {"look", "claim", "await", "fill"} /\ pc[t] # "idle" /\ UNCHANGED <<key, result, dict>>
    <2>1. CASE Master(t)
      BY <1>2, <2>1 DEF Master, Elect, Fallback, Prepare, Drain, Open, Sweep, Settle,
         Swap, Reopen, Goto, locals
    <2>2. CASE Helper(t)
      BY <1>2, <2>2 DEF Helper, TransferRead, TransferTake, TransferPlace,
         TransferCopyValue, TransferEnd, HelperEnter, HelperCheck, HelperPick,
         HelperLeave, HelperReturn, After, HelperSpin, Goto, locals
    <2> QED
      BY <2>1, <2>2
  <1>4. result'[t] # Null /\ pc'[t] # "idle" => key'[t] \in DOMAIN dict /\ dict[key'[t]] = result'[t]
    BY <1>2, <1>3 DEF ProbeInv
  <1>5. CASE pc[t] \in Transferring \cup {"swap"}
    <2>1. \A u \in Thread : pc[u] \notin Probing
      BY <1>5, MoverWhenNotFresh DEF Safe
    <2>2. \A u \in Thread : pc'[u] \notin {"look", "claim", "await", "fill"}
      BY <1>1, <1>3, <2>1 DEF Others, Probing
    <2>3. \A u \in Thread : result'[u] # Null /\ pc'[u] # "idle" => key'[u] \in DOMAIN dict' /\ dict'[key'[u]] = result'[u]
      BY <1>1, <1>2, <1>3, <1>4 DEF Others, ProbeInv
    <2> QED
      BY <2>2, <2>3 DEF ProbeInv
  <1>6. CASE pc[t] \notin Transferring \cup {"swap"}
    <2>1. UNCHANGED <<table, capacity>>
      <3>1. CASE Master(t)
        BY <1>2, <1>6, <3>1 DEF Master, Elect, Fallback, Prepare, Drain, Open, Sweep,
           Settle, Swap, Reopen, Goto, shared
      <3>2. CASE Helper(t)
        BY <1>2, <1>6, <3>2 DEF Helper, TransferRead, TransferTake, TransferPlace,
           TransferCopyValue, HelperEnter, HelperCheck, HelperPick, HelperLeave,
           HelperSpin, Goto, shared, Transferring
      <3> QED
        BY <3>1, <3>2
    <2> QED
      BY <1>1, <1>3, <1>4, <2>1, ProbeKept
  <1> QED
    BY <1>5, <1>6

\* The steps that do not look at a bucket.
LEMMA QuietProbe ==
  ASSUME Safe, NEW t \in Thread, Probe(t) \/ \E k \in Key : Call(t, k),
         ~Start(t), ~Look(t), ~LookOn(t), ~Await(t), ~Claim(t), ~Fill(t)
  PROVE  ProbeInv'
  <1>1. Others(t)
    BY StepOthers DEF Step, Safe, Shape
  <1>2. /\ pc \in [Thread -> Labels] /\ result \in [Thread -> Thread \cup {Null}] /\ ProbeInv
    BY DEF Safe, Shape, LocalsOK
  <1>3. /\ pc'[t] \notin {"look", "claim", "await", "fill"}
        /\ UNCHANGED <<table, capacity, dict>>
        /\ result'[t] = Null \/ (pc[t] # "idle" /\ UNCHANGED <<key, result>>)
    BY <1>2 DEF Probe, Enter, Gate, Retreat, Count, LoadFactor, ForgetProbe, Exit, Call,
       Goto, After, shared, locals
  <1>4. result'[t] # Null /\ pc'[t] # "idle" => key'[t] \in DOMAIN dict /\ dict[key'[t]] = result'[t]
    BY <1>2, <1>3 DEF ProbeInv
  <1> QED
    BY <1>1, <1>3, <1>4, ProbeKept

\* A probe starts at the bucket of the hash, and has seen none yet.
LEMMA StartProbe ==
  ASSUME Safe, NEW t \in Thread, Start(t)
  PROVE  ProbeInv'
  <1>1. Others(t)
    BY StepOthers DEF Step, Probe, Safe, Shape
  <1>2. /\ pc[t] = "hash" /\ pc'[t] = "look" /\ i'[t] = Hash[key[t]] % capacity /\ n'[t] = 0
        /\ UNCHANGED <<table, capacity, dict, key, result>>
    BY DEF Start, Goto, shared, Safe, Shape, LocalsOK
  <1>3. key[t] \in Key /\ capacity \in Nat \ {0}
    BY <1>2 DEF Safe, Shape, LabelInv, SharedOK
  <1>4. Dist(key'[t], i'[t], capacity) = n'[t] /\ n'[t] <= capacity
    BY <1>2, <1>3, DistFirst
  <1>5. \A d \in 0 .. capacity - 1 : ~(Dist(key'[t], d, capacity) < n'[t])
    <2> TAKE d \in 0 .. capacity - 1
    <2>1. Dist(key[t], d, capacity) \in 0 .. capacity - 1
      BY <1>3, DistIs
    <2> QED
      BY <1>2, <1>3, <2>1
  <1>6. result'[t] # Null /\ pc'[t] # "idle" => key'[t] \in DOMAIN dict /\ dict[key'[t]] = result'[t]
    BY <1>2 DEF Safe, ProbeInv
  <1> QED
    BY <1>1, <1>2, <1>4, <1>5, <1>6, ProbeKept

\* A bucket that holds the key, or is free, is the one to use.
LEMMA LookProbe ==
  ASSUME Safe, NEW t \in Thread, Look(t) \/ Await(t) \/ (Claim(t) /\ table[i[t]].addr # Null)
  PROVE  ProbeInv'
  <1>1. Others(t)
    BY StepOthers DEF Step, Probe, Safe, Shape
  <1>2. /\ pc \in [Thread -> Labels] /\ result \in [Thread -> Thread \cup {Null}] /\ ProbeInv
    BY DEF Safe, Shape, LocalsOK
  <1>3. /\ pc[t] \in {"look", "await", "claim"} /\ UNCHANGED <<table, capacity, dict, key, i, n>>
    BY DEF Look, Await, Claim, shared, locals, Goto
  <1>4. key[t] \in Key /\ i[t] \in 0 .. capacity - 1 /\ key[t] # Null
    <2>1. key[t] \in Key /\ i[t] \in Nat /\ i[t] < capacity /\ capacity \in Nat
      BY <1>3 DEF Safe, Shape, LabelInv, SharedOK, LocalsOK
    <2> QED
      BY <2>1, NullAssumption
  <1>5. /\ pc'[t] \in {"look", "claim"} => pc[t] \in {"look", "claim"}
        /\ pc'[t] = "claim" => n[t] < capacity
        /\ pc'[t] = "await" => table[i[t]].addr = key[t]
        /\ pc'[t] # "fill"
    BY <1>2 DEF Look, Await, Claim, Goto
  <1>6. pc'[t] = "await" => key[t] \in DOMAIN dict
    BY <1>4, <1>5 DEF Safe, OldInv
  <1>7. result'[t] # Null => key[t] \in DOMAIN dict /\ dict[key[t]] = result'[t]
    <2>1. CASE Await(t)
      <3>1. pc[t] = "await" /\ result'[t] = table[i[t]].value /\ table[i[t]].value # Null
        BY <1>2, <2>1 DEF Await, Goto
      <3>2. key[t] \in DOMAIN dict /\ table[i[t]].addr = key[t]
        BY <1>2, <3>1 DEF ProbeInv
      <3> QED
        BY <1>4, <3>1, <3>2 DEF Safe, OldInv
    <2>2. CASE ~Await(t)
      <3>1. result' = result /\ pc[t] # "idle"
        BY <1>3, <2>2 DEF Look, Claim, locals
      <3> QED
        BY <1>2, <3>1 DEF ProbeInv
    <2> QED
      BY <2>1, <2>2
  <1>8. pc'[t] \in {"look", "claim"} =>
           /\ n[t] <= capacity
           /\ n[t] < capacity => Dist(key[t], i[t], capacity) = n[t]
           /\ \A d \in 0 .. capacity - 1 :
                Dist(key[t], d, capacity) < n[t] => table[d].addr \notin {Null, key[t]}
    BY <1>2, <1>5 DEF ProbeInv
  <1> QED
    BY <1>1, <1>3, <1>5, <1>6, <1>7, <1>8, ProbeKept

\* A bucket with another key is one more that was seen.
LEMMA LookOnProbe ==
  ASSUME Safe, NEW t \in Thread, LookOn(t)
  PROVE  ProbeInv'
  <1> DEFINE k == key[t]
             b == i[t]
             e == (i[t] + 1) % capacity
  <1>1. Others(t)
    BY StepOthers DEF Step, Probe, Safe, Shape
  <1>2. /\ pc[t] = "look" /\ pc'[t] = "look" /\ i'[t] = e /\ n'[t] = n[t] + 1
        /\ n[t] < capacity /\ table[b].addr \notin {k, Null}
        /\ UNCHANGED <<table, capacity, dict, key, result>>
    BY DEF LookOn, Goto, shared, Safe, Shape, LocalsOK
  <1>3. k \in Key /\ capacity \in Nat \ {0} /\ b \in 0 .. capacity - 1 /\ n[t] \in Nat
    <2>1. k \in Key /\ b \in Nat /\ b < capacity /\ capacity \in Nat \ {0} /\ n[t] \in Nat
      BY <1>2 DEF Safe, Shape, LabelInv, SharedOK, LocalsOK
    <2> QED
      BY <2>1
  <1>4. /\ Dist(k, b, capacity) = n[t]
        /\ \A d \in 0 .. capacity - 1 : Dist(k, d, capacity) < n[t] => table[d].addr \notin {Null, k}
    BY <1>2 DEF Safe, ProbeInv
  <1>5. n'[t] <= capacity /\ (n'[t] < capacity => Dist(k, e, capacity) = n'[t])
    BY <1>2, <1>3, <1>4, DistNext
  <1>6. ASSUME NEW d \in 0 .. capacity - 1, Dist(k, d, capacity) < n'[t]
        PROVE  table[d].addr \notin {Null, k}
    <2>1. Dist(k, d, capacity) \in 0 .. capacity - 1
      BY <1>3, DistIs
    <2>2. CASE Dist(k, d, capacity) < n[t]
      BY <1>4, <2>2
    <2>3. CASE Dist(k, d, capacity) = n[t]
      <3>1. b = d
        BY <1>3, <1>4, <2>3, DistSame
      <3> QED
        BY <1>2, <3>1
    <2>4. Dist(k, d, capacity) < n[t] \/ Dist(k, d, capacity) = n[t]
      <3> DEFINE x == Dist(k, d, capacity)
      <3>1. x \in Int /\ x < n[t] + 1 /\ n[t] \in Nat
        BY <1>2, <1>3, <1>6, <2>1
      <3> HIDE DEF x
      <3>2. x < n[t] \/ x = n[t]
        BY ONLY <3>1
      <3> QED
        BY <3>2 DEF x
    <2> QED
      BY <2>2, <2>3, <2>4
  <1>7. result'[t] # Null /\ pc'[t] # "idle" => key'[t] \in DOMAIN dict /\ dict[key'[t]] = result'[t]
    BY <1>2 DEF Safe, ProbeInv
  <1> QED
    BY <1>1, <1>2, <1>5, <1>6, <1>7, ProbeKept

\* A claim fills a bucket that no other probe has passed.
LEMMA ClaimProbe ==
  ASSUME Safe, NEW t \in Thread, Claim(t), table[i[t]].addr = Null
  PROVE  ProbeInv'
  <1> DEFINE b0 == i[t]
  <1>1. /\ key[t] \in Key /\ key[t] \notin DOMAIN dict /\ b0 \in 0 .. capacity - 1
        /\ DOMAIN dict' = DOMAIN dict \cup {key[t]}
        /\ dict'[key[t]] = t
        /\ \A k \in DOMAIN dict : dict'[k] = dict[k]
        /\ table' \in [0 .. capacity - 1 -> Bucket]
        /\ table'[b0].addr = key[t] /\ table'[b0].value = table[b0].value
        /\ \A d \in 0 .. capacity - 1 : d # b0 => table'[d] = table[d]
        /\ pc[t] = "claim" /\ pc'[t] = "fill"
        /\ UNCHANGED <<i, newTable, capacity, newCapacity, resizeState, moving, key, n, result>>
    BY ClaimDict
  <1>2. table[b0].value = Null
    <2>1. Fresh
      BY <1>1, UserWhenStable DEF Safe, Probing
    <2> QED
      BY <1>1, <2>1 DEF Safe, OldInv
  <1>3. Others(t) /\ ProbeInv
    BY StepOthers DEF Step, Probe, Safe, Shape
  <1>4. \A d \in 0 .. capacity - 1 : table[d].addr # Null => table'[d] = table[d]
    BY <1>1
  <1> SUFFICES ASSUME NEW u \in Thread
               PROVE  /\ pc'[u] \in {"look", "claim"} =>
                           /\ n[u] <= capacity
                           /\ n[u] < capacity => Dist(key[u], i[u], capacity) = n[u]
                           /\ \A d \in 0 .. capacity - 1 :
                                Dist(key[u], d, capacity) < n[u] => table'[d].addr \notin {Null, key[u]}
                      /\ pc'[u] = "claim" => n[u] < capacity
                      /\ pc'[u] \in {"await", "fill"} => key[u] \in DOMAIN dict' /\ table'[i[u]].addr = key[u]
                      /\ pc'[u] = "fill" => dict'[key[u]] = u /\ table'[i[u]].value = Null
                      /\ result[u] # Null /\ pc'[u] # "idle" => key[u] \in DOMAIN dict' /\ dict'[key[u]] = result[u]
    BY <1>1 DEF ProbeInv, Dist
  <1>5. CASE u = t
    <2>1. result[t] = Null
      BY <1>1, <1>3 DEF ProbeInv
    <2> QED
      BY <1>1, <1>2, <1>5, <2>1
  <1>6. CASE u # t
    <2>1. pc'[u] = pc[u]
      BY <1>3, <1>6 DEF Others
    <2>2. pc[u] \in {"look", "claim"} =>
            /\ n[u] <= capacity
            /\ n[u] < capacity => Dist(key[u], i[u], capacity) = n[u]
            /\ \A d \in 0 .. capacity - 1 :
                 Dist(key[u], d, capacity) < n[u] => table'[d].addr \notin {Null, key[u]}
      BY <1>3, <1>4 DEF ProbeInv
    <2>3. pc[u] \in {"await", "fill"} => i[u] \in 0 .. capacity - 1 /\ key[u] # Null
      <3>1. pc[u] \in {"await", "fill"} => key[u] \in Key /\ i[u] \in Nat /\ i[u] < capacity /\ capacity \in Nat
        BY DEF Safe, Shape, LabelInv, LocalsOK, SharedOK
      <3> QED
        BY <3>1, NullAssumption
    <2>4. pc[u] \in {"await", "fill"} => key[u] \in DOMAIN dict' /\ table'[i[u]].addr = key[u]
      BY <1>1, <1>3, <1>4, <2>3 DEF ProbeInv
    <2>5. pc[u] = "fill" => dict'[key[u]] = u /\ table'[i[u]].value = Null
      BY <1>1, <1>3, <1>4, <2>3 DEF ProbeInv
    <2>6. pc[u] = "claim" => n[u] < capacity
      BY <1>3 DEF ProbeInv
    <2>7. result[u] # Null /\ pc[u] # "idle" => key[u] \in DOMAIN dict' /\ dict'[key[u]] = result[u]
      BY <1>1, <1>3 DEF ProbeInv
    <2> QED
      BY <2>1, <2>2, <2>4, <2>5, <2>6, <2>7
  <1> QED
    BY <1>5, <1>6

\* The thread that fills a bucket returns its own value.
LEMMA FillProbe ==
  ASSUME Safe, NEW t \in Thread, Fill(t)
  PROVE  ProbeInv'
  <1> DEFINE b0 == i[t]
  <1>1. /\ b0 \in 0 .. capacity - 1
        /\ table'[b0].addr = table[b0].addr
        /\ \A d \in 0 .. capacity - 1 : d # b0 => table'[d] = table[d]
    <2>1. b0 \in 0 .. capacity - 1 /\ IsSet(table', table, capacity, b0, [addr |-> table[b0].addr, value |-> t])
      BY FillSets DEF Safe
    <2> QED
      BY <2>1 DEF IsSet
  <1>2. /\ pc[t] = "fill" /\ pc'[t] = "count" /\ result'[t] = t
        /\ UNCHANGED <<i, n, key, capacity, dict>>
    BY DEF Fill, Goto, Safe, Shape, LocalsOK
  <1>3. Others(t) /\ ProbeInv
    BY StepOthers DEF Step, Probe, Safe, Shape
  <1>4. key[t] \in DOMAIN dict /\ dict[key[t]] = t /\ table[b0].addr = key[t]
    BY <1>2, <1>3 DEF ProbeInv
  <1>5. \A d \in 0 .. capacity - 1 : table'[d].addr = table[d].addr
    BY <1>1
  <1> SUFFICES ASSUME NEW u \in Thread
               PROVE  /\ pc'[u] \in {"look", "claim"} =>
                           /\ n[u] <= capacity
                           /\ n[u] < capacity => Dist(key[u], i[u], capacity) = n[u]
                           /\ \A d \in 0 .. capacity - 1 :
                                Dist(key[u], d, capacity) < n[u] => table'[d].addr \notin {Null, key[u]}
                      /\ pc'[u] = "claim" => n[u] < capacity
                      /\ pc'[u] \in {"await", "fill"} => key[u] \in DOMAIN dict /\ table'[i[u]].addr = key[u]
                      /\ pc'[u] = "fill" => dict[key[u]] = u /\ table'[i[u]].value = Null
                      /\ result'[u] # Null /\ pc'[u] # "idle" => key[u] \in DOMAIN dict /\ dict[key[u]] = result'[u]
    BY <1>2 DEF ProbeInv, Dist
  <1>6. CASE u = t
    BY <1>2, <1>4, <1>6
  <1>7. CASE u # t
    <2>1. pc'[u] = pc[u] /\ result'[u] = result[u]
      BY <1>3, <1>7 DEF Others
    <2>2. pc[u] \in {"look", "claim"} =>
            /\ n[u] <= capacity
            /\ n[u] < capacity => Dist(key[u], i[u], capacity) = n[u]
            /\ \A d \in 0 .. capacity - 1 :
                 Dist(key[u], d, capacity) < n[u] => table'[d].addr \notin {Null, key[u]}
      BY <1>3, <1>5 DEF ProbeInv
    <2>3. pc[u] \in {"await", "fill"} => i[u] \in 0 .. capacity - 1
      <3>1. pc[u] \in {"await", "fill"} => i[u] \in Nat /\ i[u] < capacity /\ capacity \in Nat
        BY DEF Safe, Shape, LabelInv, LocalsOK, SharedOK
      <3> QED
        BY <3>1
    <2>4. pc[u] \in {"await", "fill"} => key[u] \in DOMAIN dict /\ table'[i[u]].addr = key[u]
      BY <1>3, <1>5, <2>3 DEF ProbeInv
    <2>5. pc[u] = "fill" => dict[key[u]] = u /\ table'[i[u]].value = Null
      <3> SUFFICES ASSUME pc[u] = "fill" PROVE dict[key[u]] = u /\ table'[i[u]].value = Null
        OBVIOUS
      <3>1. dict[key[u]] = u /\ table[i[u]].value = Null /\ table[i[u]].addr = key[u]
        BY <1>3 DEF ProbeInv
      <3>2. i[u] # b0
        BY <1>4, <1>7, <3>1
      <3> QED
        BY <1>1, <2>3, <3>1, <3>2
    <2>6. pc[u] = "claim" => n[u] < capacity
      BY <1>3 DEF ProbeInv
    <2>7. result[u] # Null /\ pc[u] # "idle" => key[u] \in DOMAIN dict /\ dict[key[u]] = result[u]
      BY <1>3 DEF ProbeInv
    <2> QED
      BY <2>1, <2>2, <2>4, <2>5, <2>6, <2>7
  <1> QED
    BY <1>6, <1>7

\* What the probes have seen is inductive.
LEMMA StepProbe ==
  ASSUME Safe, NEW t \in Thread, Step(t) \/ \E k \in Key : Call(t, k)
  PROVE  ProbeInv'
  <1>1. CASE Master(t) \/ Helper(t)
    BY <1>1, OtherProbe
  <1>2. CASE Probe(t) \/ \E k \in Key : Call(t, k)
    BY <1>2, QuietProbe, StartProbe, LookProbe, LookOnProbe, ClaimProbe, FillProbe
  <1> QED
    BY <1>1, <1>2 DEF Step

-----------------------------------------------------------------------------
(* The size.                                                                *)

\* What is counted fits, and so does one more while somebody is adding.
LEMMA SizeFits ==
  ASSUME Bounds, Safe
  PROVE  /\ Adding \in SUBSET Thread /\ Cardinality(Adding) \in Nat
         /\ IsFiniteSet(DOMAIN dict)
         /\ Cardinality(DOMAIN dict) \in Nat /\ Cardinality(Key) \in Nat
         /\ size + Cardinality(Adding) = Cardinality(DOMAIN dict)
         /\ size <= Cardinality(Key)
         /\ \A t \in Adding : size + 1 <= Cardinality(Key)
  <1>1. IsFiniteSet(Key) /\ IsFiniteSet(Thread) /\ DOMAIN dict \in SUBSET Key /\ size \in Nat
        /\ size + Cardinality(Adding) = Cardinality(DOMAIN dict)
    BY DEF Bounds, GrowsOnce, Safe, SizeInv, Shape, SharedOK
  <1>2. Adding \in SUBSET Thread
    BY DEF Adding
  <1>3. IsFiniteSet(Adding) /\ IsFiniteSet(DOMAIN dict) /\ Cardinality(DOMAIN dict) <= Cardinality(Key)
    BY <1>1, <1>2, FS_Subset
  <1>4. Cardinality(Adding) \in Nat /\ Cardinality(DOMAIN dict) \in Nat /\ Cardinality(Key) \in Nat
    BY <1>1, <1>3, FS_CardinalityType
  <1>5. \A t \in Adding : Cardinality(Adding) # 0
    BY <1>3, FS_EmptySet
  <1>6. size <= Cardinality(Key)
    BY <1>1, <1>3, <1>4
  <1>7. \A t \in Adding : size + 1 <= Cardinality(Key)
    BY <1>1, <1>3, <1>4, <1>5
  <1> QED
    BY <1>1, <1>2, <1>3, <1>4, <1>6, <1>7

\* A step that adds nothing and counts nothing.
LEMMA SizeStill ==
  ASSUME Safe, NEW t \in Thread, Others(t), UNCHANGED <<size, dict>>,
         pc[t] \in {"fill", "count"} <=> pc'[t] \in {"fill", "count"},
         newSize'[t] <= Cardinality(Key)
  PROVE  SizeInv'
  <1>1. Adding' = Adding
    BY DEF Others, Adding
  <1>2. LightInv'
    BY DEF Others, LightInv, Safe, SizeInv
  <1> QED
    BY <1>1, <1>2 DEF Safe, SizeInv

\* size and the threads that are adding make up the keys in the map.
LEMMA StepSize ==
  ASSUME Bounds, Safe, NEW t \in Thread, Step(t) \/ \E k \in Key : Call(t, k)
  PROVE  SizeInv'
  <1>1. Others(t) /\ LightInv
    BY StepOthers DEF Safe, Shape, SizeInv
  <1>2. pc \in [Thread -> Labels] /\ newSize \in [Thread -> Nat] /\ size \in Nat
    BY DEF Safe, Shape, LocalsOK, SharedOK
  <1>3. /\ Adding \in SUBSET Thread /\ Cardinality(Adding) \in Nat
        /\ IsFiniteSet(DOMAIN dict)
        /\ Cardinality(DOMAIN dict) \in Nat /\ Cardinality(Key) \in Nat
        /\ size + Cardinality(Adding) = Cardinality(DOMAIN dict)
        /\ size <= Cardinality(Key)
        /\ \A u \in Adding : size + 1 <= Cardinality(Key)
    BY SizeFits
  <1>4. Adding' \in SUBSET Thread /\ \A u \in Thread \ {t} : u \in Adding' <=> u \in Adding
    BY <1>1 DEF Others, Adding
  <1>5. CASE Claim(t) /\ table[i[t]].addr = Null
    <2>1. /\ key[t] \in Key /\ key[t] \notin DOMAIN dict
          /\ DOMAIN dict' = DOMAIN dict \cup {key[t]}
          /\ dict'[key[t]] = t
          /\ \A k \in DOMAIN dict : dict'[k] = dict[k]
          /\ pc[t] = "claim" /\ pc'[t] = "fill"
      BY <1>5, ClaimDict
    <2>2. UNCHANGED <<size, newSize>>
      BY <1>5 DEF Claim, locals
    <2>3. Cardinality(DOMAIN dict') = Cardinality(DOMAIN dict) + 1
      BY <1>3, <2>1, FS_AddElement
    <2>4. Cardinality(Adding') = Cardinality(Adding) + 1
      <3>1. t \notin Adding /\ t \in Adding'
        BY <2>1 DEF Adding
      <3> QED
        BY <1>3, <1>4, <3>1, CountStep DEF Bounds
    <2>5. size' + Cardinality(Adding') = Cardinality(DOMAIN dict')
      BY <1>2, <1>3, <2>2, <2>3, <2>4
    <2>6. DOMAIN dict' \subseteq Key /\ \A k \in DOMAIN dict' : dict'[k] \in Thread
      BY <2>1 DEF Safe, SizeInv
    <2>7. LightInv'
      BY <1>1, <2>2 DEF LightInv
    <2> QED
      BY <2>5, <2>6, <2>7 DEF SizeInv
  <1>6. CASE Count(t)
    <2>1. /\ pc[t] = "count" /\ pc'[t] = "load" /\ size' = size + 1 /\ newSize'[t] = size + 1
          /\ UNCHANGED dict
      BY <1>2, <1>6 DEF Count, Goto
    <2>2. t \in Adding /\ t \notin Adding'
      BY <2>1 DEF Adding
    <2>3. Cardinality(Adding') = Cardinality(Adding) - 1
      BY <1>3, <1>4, <2>2, CountStep DEF Bounds
    <2>4. size' + Cardinality(Adding') = Cardinality(DOMAIN dict)
      BY <1>2, <1>3, <2>1, <2>3
    <2>5. LightInv'
      BY <1>1, <1>3, <2>1, <2>2 DEF LightInv, Others
    <2> QED
      BY <2>1, <2>4, <2>5 DEF Safe, SizeInv
  <1>7. CASE ~Count(t) /\ (Claim(t) => table[i[t]].addr # Null)
    <2>1. UNCHANGED <<size, dict>>
      BY <1>1, <1>2, <1>7 DEF Step, Probe, Enter, Gate, Retreat, Start, Look, LookOn,
         Await, Claim, Fill, LoadFactor, Exit, Call, Master, Elect, Fallback, Prepare,
         Drain, Open, Sweep, Settle, Swap, Reopen, Helper, TransferRead, TransferTake,
         TransferPlace, TransferCopyValue, HelperEnter, HelperCheck, HelperPick,
         HelperLeave, HelperSpin, shared
    <2>2. pc[t] \in {"fill", "count"} <=> pc'[t] \in {"fill", "count"}
      <3>1. CASE Probe(t) \/ \E k \in Key : Call(t, k)
        BY <1>2, <1>7, <3>1 DEF Probe, Enter, Gate, Retreat, Start, Look, LookOn, Await,
           Claim, Fill, LoadFactor, Exit, Call, Goto, After
      <3>2. CASE Master(t)
        BY <1>2, <3>2 DEF Master, Elect, Fallback, Prepare, Drain, Open, Sweep, Settle,
           Swap, Reopen, Goto
      <3>3. CASE Helper(t)
        BY <1>2, <3>3 DEF Helper, TransferRead, TransferTake, TransferPlace,
           TransferCopyValue, TransferEnd, HelperEnter, HelperCheck, HelperPick,
           HelperLeave, HelperReturn, After, HelperSpin, Goto
      <3> QED
        BY <3>1, <3>2, <3>3 DEF Step
    <2>3. newSize'[t] \in {newSize[t], size, 0}
      BY <1>2, <1>7 DEF Step, Probe, Enter, Gate, Retreat, Start, Look, LookOn, Await,
         Claim, Fill, LoadFactor, ForgetProbe, Exit, Call, Master, Elect, Fallback,
         Prepare, Drain, Open, Sweep, Settle, Swap, Reopen, Helper, TransferRead,
         TransferTake, TransferPlace, TransferCopyValue, HelperEnter, HelperCheck,
         HelperPick, HelperLeave, HelperSpin, locals
    <2>4. newSize'[t] <= Cardinality(Key)
      BY <1>1, <1>3, <2>3 DEF LightInv
    <2> QED
      BY <1>1, <2>1, <2>2, <2>4, SizeStill
  <1> QED
    BY <1>5, <1>6, <1>7

-----------------------------------------------------------------------------
(* Put together.                                                            *)

\* The empty map is safe.
LEMMA InitSafe == Bounds /\ Init => Safe
  <1> SUFFICES ASSUME Bounds, Init PROVE Safe
    OBVIOUS
  <1>1. Shape /\ capacity \in Nat \ {0} /\ capacity = Capacity
    BY InitShape DEF Init, Shape, SharedOK
  <1>2. \A b \in 0 .. capacity - 1 : table[b].addr = Null /\ table[b].value = Null
    BY DEF Init, Table, Empty
  <1>3. 0 .. newCapacity - 1 = {}
    BY DEF Init
  <1>4. \A t \in Thread : pc[t] = "idle"
    BY DEF Init
  <1>5. DOMAIN dict = {} /\ size = 0
    BY DEF Init
  <1>6. OnceInv
    BY <1>1, <1>4 DEF Init, OnceInv, MasterLabels, Ready, Transferring, Seen,
       HelperLabels, Opened, Over
  <1>7. ClosedInv
    BY <1>4 DEF Init, ClosedInv, Closed, Stable
  <1>8. OldInv /\ NewInv
    BY <1>2, <1>3 DEF OldInv, NewInv
  <1>9. UniqueInv
    BY <1>2, <1>3, <1>4, NullAssumption DEF UniqueInv, InTable, InNew, InHand
  <1>10. SomewhereInv
    BY <1>5 DEF SomewhereInv
  <1>11. PathInv
    BY <1>2, <1>3, <1>4, NullAssumption DEF PathInv
  <1>12. MoveInv
    BY <1>4 DEF Init, MoveInv
  <1>13. ProbeInv
    BY <1>4 DEF ProbeInv
  <1>14. SizeInv
    <2>1. Adding = {}
      BY <1>4 DEF Adding
    <2>2. Cardinality(Adding) = 0 /\ Cardinality(DOMAIN dict) = 0
      BY <1>5, <2>1, FS_EmptySet
    <2>3. LightInv
      <3>1. Cardinality(Key) >= 0
        BY FS_CardinalityType DEF Bounds, GrowsOnce
      <3> QED
        BY <3>1 DEF Init, LightInv
    <2> QED
      BY <1>5, <2>2, <2>3 DEF SizeInv
  <1> QED
    BY <1>1, <1>6, <1>7, <1>8, <1>9, <1>10, <1>11, <1>12, <1>13, <1>14 DEF Safe

\* Safe is inductive.
LEMMA StepSafe == Bounds /\ Safe /\ [Next]_vars => Safe'
  <1> SUFFICES ASSUME Bounds, Safe, [Next]_vars PROVE Safe'
    OBVIOUS
  <1>1. ASSUME NEW t \in Thread, Step(t) \/ \E k \in Key : Call(t, k)
        PROVE  Safe'
    <2>1. Shape'
      <3>1. Next
        BY <1>1 DEF Next
      <3> QED
        BY <3>1, StepShape DEF Bounds, Safe
    <2>2. OnceInv'
      <3>1. Shape /\ OnceInv /\ ClosedInv /\ LightInv
        BY DEF Safe, SizeInv
      <3> QED
        BY <1>1, <3>1, ProbeOnce, MasterOnce, HelperOnce DEF Step
    <2>3. ClosedInv'
      BY <1>1, StepClosed DEF Safe
    <2>4. BucketInv'
      BY <1>1, StepBuckets
    <2>5. MoveInv'
      BY <1>1, ProbeMove, MasterMove, HelperMove DEF Step
    <2>6. ProbeInv'
      BY <1>1, StepProbe
    <2>7. SizeInv'
      BY <1>1, StepSize
    <2> QED
      BY <2>1, <2>2, <2>3, <2>4, <2>5, <2>6, <2>7 DEF Safe, BucketInv
  <1>2. CASE UNCHANGED vars
    <2>1. Shape'
      BY <1>2, StepShape DEF Bounds, Safe
    <2>2. OnceInv' /\ ClosedInv'
      BY <1>2 DEF Safe, OnceInv, ClosedInv, Closed, IsUser, IsMaster, vars, shared,
         locals
    <2>3. OldInv' /\ NewInv' /\ UniqueInv' /\ SomewhereInv'
      BY <1>2 DEF Safe, OldInv, NewInv, UniqueInv, SomewhereInv, Fresh, Fills, Copies,
         InTable, InNew, InHand, vars, shared, locals
    <2>4. PathInv' /\ MoveInv' /\ ProbeInv'
      BY <1>2 DEF Safe, PathInv, MoveInv, ProbeInv, Fresh, NoGap, Dist, vars, shared,
         locals
    <2>5. SizeInv'
      <3>1. Adding' = Adding
        BY <1>2 DEF Adding, vars
      <3> QED
        BY <1>2, <3>1 DEF Safe, SizeInv, LightInv, vars, shared, locals
    <2> QED
      BY <2>1, <2>2, <2>3, <2>4, <2>5 DEF Safe
  <1> QED
    BY <1>1, <1>2 DEF Next

(* Nobody looks at the table from the moment the last user has left until   *)
(* the new one is in its place, as the comment at map.c:267 demands.        *)
THEOREM TableIsClosed == Bounds => (Spec => []TableClosed)
  <1> SUFFICES ASSUME Bounds PROVE Spec => []TableClosed
    OBVIOUS
  <1>1. Init => Safe
    BY InitSafe
  <1>2. Safe /\ [Next]_vars => Safe'
    BY StepSafe
  <1>3. Safe => TableClosed
    BY UserWhenStable DEF Safe, TableClosed, Stable
  <1> QED
    BY <1>1, <1>2, <1>3, PTL DEF Spec

-----------------------------------------------------------------------------
(* Items can be found.                                                      *)

\* A set with at most one element has none or one.
LEMMA NoneOrOne ==
  ASSUME NEW S, \A x, y \in S : x = y
  PROVE  /\ S = {} => Cardinality(S) = 0
         /\ S # {} => Cardinality(S) = 1
  <1>1. S = {} => Cardinality(S) = 0
    BY FS_EmptySet
  <1>2. ASSUME NEW x \in S PROVE Cardinality(S) = 1
    <2>1. S = {x}
      OBVIOUS
    <2> QED
      BY <2>1, FS_Singleton
  <1> QED
    BY <1>1, <1>2

\* Items that are in one place without gaps can be found.
LEMMA SafeFindable == Safe => Findable
  <1> SUFFICES ASSUME Safe, NEW k \in DOMAIN dict
      PROVE LET here == {b \in Used(table) : table[b].addr = k}
                there == {b \in Used(newTable) : newTable[b].addr = k}
                moved == {t \in Thread : pc[t] = "place" /\ moving[t] = k}
            IN  /\ Cardinality(here) + Cardinality(there) + Cardinality(moved) = 1
                /\ \A b \in here :
                     /\ table[b].value \in {dict[k]} \cup {Null}
                     /\ resizeState \in {"nothing", "preparing"} =>
                          Before(k, b, capacity) \subseteq Used(table)
                /\ \A b \in there : Before(k, b, newCapacity) \subseteq Used(newTable)
    BY DEF Findable
  <1> DEFINE here == {b \in Used(table) : table[b].addr = k}
             there == {b \in Used(newTable) : newTable[b].addr = k}
             moved == {t \in Thread : pc[t] = "place" /\ moving[t] = k}
  <1>1. k \in Key /\ k # Null
    BY NullAssumption DEF Safe, SizeInv
  <1>2. DOMAIN table = 0 .. capacity - 1 /\ DOMAIN newTable = 0 .. newCapacity - 1
    BY DEF Safe, Shape, SharedOK
  <1>3. /\ \A b : b \in here <=> InTable(k, b)
        /\ \A b : b \in there <=> InNew(k, b)
        /\ \A t : t \in moved <=> InHand(k, t)
    BY <1>1, <1>2 DEF Used, InTable, InNew, InHand
  <1> HIDE DEF here, there, moved
  <1>4. /\ \A b, d : InTable(k, b) /\ InTable(k, d) => b = d
        /\ \A b, d : InNew(k, b) /\ InNew(k, d) => b = d
        /\ \A t, u : InHand(k, t) /\ InHand(k, u) => t = u
        /\ \A b, d : ~(InTable(k, b) /\ InNew(k, d))
        /\ \A b, t : ~(InTable(k, b) /\ InHand(k, t))
        /\ \A b, t : ~(InNew(k, b) /\ InHand(k, t))
    BY <1>1 DEF Safe, UniqueInv
  <1>5. (\E b : InTable(k, b)) \/ (\E b : InNew(k, b)) \/ (\E t : InHand(k, t))
    BY DEF Safe, SomewhereInv
  <1>6. /\ here = {} => Cardinality(here) = 0
        /\ here # {} => Cardinality(here) = 1
        /\ there = {} => Cardinality(there) = 0
        /\ there # {} => Cardinality(there) = 1
        /\ moved = {} => Cardinality(moved) = 0
        /\ moved # {} => Cardinality(moved) = 1
    BY <1>3, <1>4, NoneOrOne
  <1>7. Cardinality(here) + Cardinality(there) + Cardinality(moved) = 1
    <2>1. \/ here # {} /\ there = {} /\ moved = {}
          \/ here = {} /\ there # {} /\ moved = {}
          \/ here = {} /\ there = {} /\ moved # {}
      BY <1>3, <1>4, <1>5
    <2> QED
      BY <1>6, <2>1
  <1>8. ASSUME NEW b \in here
        PROVE  /\ table[b].value \in {dict[k]} \cup {Null}
               /\ resizeState \in {"nothing", "preparing"} =>
                    Before(k, b, capacity) \subseteq Used(table)
    <2>1. b \in 0 .. capacity - 1 /\ table[b].addr = k
      BY <1>3 DEF InTable
    <2>2. table[b].value \in {dict[k]} \cup {Null}
      BY <1>1, <2>1 DEF Safe, OldInv
    <2>3. resizeState \in {"nothing", "preparing"} => Fresh
      BY DEF Safe, Shape, MasterInv, Fresh
    <2>4. resizeState \in {"nothing", "preparing"} => NoGap(table, capacity, k, b)
      BY <1>1, <2>1, <2>3 DEF Safe, PathInv
    <2> QED
      BY <1>2, <2>2, <2>4 DEF NoGap, Dist, Before, Used
  <1>9. ASSUME NEW b \in there
        PROVE  Before(k, b, newCapacity) \subseteq Used(newTable)
    <2>1. b \in 0 .. newCapacity - 1 /\ newTable[b].addr = k
      BY <1>3 DEF InNew
    <2>2. NoGap(newTable, newCapacity, k, b)
      BY <1>1, <2>1 DEF Safe, PathInv
    <2> QED
      BY <1>2, <2>2 DEF NoGap, Dist, Before, Used
  <1> QED
    BY <1>7, <1>8, <1>9 DEF here, there, moved

(* A key that was added is in one bucket of one table, or in the hands of   *)
(* one thread, with no free bucket in front of it: no probe misses it and   *)
(* none makes a second record for it.                                       *)
THEOREM ItemsFindable == Bounds => (Spec => []Findable)
  <1> SUFFICES ASSUME Bounds PROVE Spec => []Findable
    OBVIOUS
  <1>1. Init => Safe
    BY InitSafe
  <1>2. Safe /\ [Next]_vars => Safe'
    BY StepSafe
  <1> QED
    BY <1>1, <1>2, SafeFindable, PTL DEF Spec

-----------------------------------------------------------------------------
(* The map is a dictionary.                                                 *)

\* A step of a call changes no key, and only the claim of a bucket the
\* dictionary; the call is over once it has a result.
LEMMA StepOfCall ==
  ASSUME Safe, NEW t \in Thread, Step(t)
  PROVE  /\ pc[t] # "idle" /\ key' = key
         /\ dict' # dict => Claim(t) /\ table[i[t]].addr = Null
         /\ pc'[t] = "idle" => result[t] # Null /\ result' = result /\ dict' = dict
  <1>1. pc \in [Thread -> Labels]
    BY DEF Safe, Shape, LocalsOK
  <1>2. CASE Probe(t)
    BY <1>1, <1>2 DEF Probe, Enter, Gate, Retreat, Start, Look, LookOn, Await, Claim,
       Fill, Count, LoadFactor, Exit, Goto, After, locals
  <1>3. CASE Master(t)
    BY <1>1, <1>3 DEF Master, Elect, Fallback, Prepare, Drain, Open, Sweep, Settle,
       Swap, Reopen, Goto, locals
  <1>4. CASE Helper(t)
    <2>1. CASE TransferRead(t) \/ TransferTake(t) \/ TransferPlace(t) \/ TransferCopyValue(t)
      BY <1>1, <2>1 DEF TransferRead, TransferTake, TransferPlace, TransferCopyValue,
         TransferEnd, Goto
    <2>2. CASE HelperEnter(t) \/ HelperCheck(t) \/ HelperPick(t) \/ HelperLeave(t) \/ HelperSpin(t)
      BY <1>1, <2>2 DEF HelperEnter, HelperCheck, HelperPick, HelperLeave, HelperReturn,
         After, HelperSpin, Goto, locals
    <2> QED
      BY <1>4, <2>1, <2>2 DEF Helper
  <1> QED
    BY <1>2, <1>3, <1>4 DEF Step

\* The variables of the dictionary.
Asked == [t \in Thread |-> IF pc[t] = "idle" THEN Null ELSE key[t]]
Answer == [t \in Thread |-> IF pc[t] = "idle" THEN result[t] ELSE Null]

\* What a step does to them.
LEMMA AbstractCall ==
  ASSUME Safe, NEW t \in Thread, NEW k \in Key, Call(t, k)
  PROVE  Abstract!Call(t, k)
  <1>1. Others(t)
    BY StepOthers DEF Safe, Shape
  <1>2. pc[t] = "idle" /\ pc'[t] = "enter" /\ key'[t] = k /\ result'[t] = Null /\ dict' = dict
    BY DEF Call, Goto, Safe, Shape, LocalsOK
  <1>3. Asked[t] = Null
    BY <1>2 DEF Asked
  <1>4. Asked' = [Asked EXCEPT ![t] = k]
    BY <1>1, <1>2 DEF Asked, Others
  <1>5. Answer' = [Answer EXCEPT ![t] = Null]
    BY <1>1, <1>2 DEF Answer, Others
  <1> QED
    BY <1>2, <1>3, <1>4, <1>5 DEF Abstract!Call, Asked, Answer

\* A step of a call inserts, returns, or does nothing to the dictionary.
LEMMA AbstractStep ==
  ASSUME Safe, NEW t \in Thread, Step(t)
  PROVE  Abstract!Insert(t) \/ Abstract!Return(t) \/ UNCHANGED Abstract!vars
  <1>1. Others(t)
    BY StepOthers DEF Safe, Shape
  <1>2. /\ pc[t] # "idle" /\ key' = key
        /\ dict' # dict => Claim(t) /\ table[i[t]].addr = Null
        /\ pc'[t] = "idle" => result[t] # Null /\ result' = result /\ dict' = dict
    BY StepOfCall
  <1>3. key[t] \in Key /\ key[t] # Null /\ Asked[t] = key[t]
    BY <1>2, NullAssumption DEF Safe, Shape, LabelInv, Asked
  <1>4. CASE pc'[t] = "idle"
    <2>1. key[t] \in DOMAIN dict /\ dict[key[t]] = result[t]
      BY <1>2, <1>4 DEF Safe, ProbeInv
    <2>2. Asked' = [Asked EXCEPT ![t] = Null]
      BY <1>1, <1>4 DEF Asked, Others
    <2>3. Answer' = [Answer EXCEPT ![t] = dict[Asked[t]]]
      BY <1>1, <1>2, <1>3, <1>4, <2>1 DEF Answer, Others
    <2>4. Abstract!Return(t)
      BY <1>2, <1>3, <1>4, <2>1, <2>2, <2>3 DEF Abstract!Return, Asked, Answer
    <2> QED
      BY <2>4
  <1>5. CASE pc'[t] # "idle"
    <2>1. Asked' = Asked /\ Answer' = Answer
      BY <1>1, <1>2, <1>5 DEF Asked, Answer, Others
    <2>2. CASE dict' = dict
      BY <2>1, <2>2 DEF Abstract!vars, Asked, Answer
    <2>3. CASE dict' # dict
      <3>1. key[t] \notin DOMAIN dict
        BY <1>2, <2>3, ClaimDict
      <3>2. dict' = [k \in DOMAIN dict \cup {key[t]} |-> IF k = key[t] THEN t ELSE dict[k]]
        BY <1>2, <2>3 DEF Claim
      <3>3. Abstract!Insert(t)
        BY <1>3, <2>1, <3>1, <3>2 DEF Abstract!Insert, Asked, Answer
      <3> QED
        BY <3>3
    <2> QED
      BY <2>2, <2>3
  <1> QED
    BY <1>4, <1>5

(* A probe returns the value that was first added for its key, its own if   *)
(* it was the first: concurrent calls are atomic, also during the resize.   *)
THEOREM DictionaryRefinement == Bounds => (Spec => ImplementsDictionary)
  <1> SUFFICES ASSUME Bounds PROVE Spec => ImplementsDictionary
    OBVIOUS
  <1>1. Init => Safe
    BY InitSafe
  <1>2. Safe /\ [Next]_vars => Safe'
    BY StepSafe
  <1>3. Init => Abstract!Init
    BY DEF Init, Abstract!Init
  <1>4. Safe /\ [Next]_vars => [Abstract!Next]_(Abstract!vars)
    <2> SUFFICES ASSUME Safe, [Next]_vars
                 PROVE  Abstract!Next \/ UNCHANGED Abstract!vars
      OBVIOUS
    <2>1. ASSUME NEW t \in Thread, Step(t)
          PROVE  Abstract!Next \/ UNCHANGED Abstract!vars
      BY <2>1, AbstractStep DEF Abstract!Next
    <2>2. ASSUME NEW t \in Thread, NEW k \in Key, Call(t, k)
          PROVE  Abstract!Next
      BY <2>2, AbstractCall DEF Abstract!Next
    <2>3. CASE UNCHANGED vars
      BY <2>3 DEF vars, locals, Abstract!vars
    <2> QED
      BY <2>1, <2>2, <2>3 DEF Next
  <1> QED
    BY <1>1, <1>2, <1>3, <1>4, PTL DEF Spec, ImplementsDictionary, Abstract!Spec
=============================================================================
