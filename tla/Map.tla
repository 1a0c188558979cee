--------------------------------- MODULE Map ---------------------------------
(***************************************************************************)
(* libyarn/src/map.c: the hash table from addresses to their records, with *)
(* open addressing and linear probing.  Threads look up and add without a  *)
(* lock; when the table is too full one of them, the master, moves the     *)
(* items to a table twice as large, and the others help.                   *)
(*                                                                         *)
(* One action is one read, write or atomic operation on the shared struct  *)
(* yarn_map, with the private computation that follows.  What only the     *)
(* master writes while nobody may read it (new_table and new_capacity, the *)
(* swap of the two tables) is one step.                                    *)
(***************************************************************************)
EXTENDS Integers, FiniteSets

CONSTANTS
  Thread,
  Key,              \* the addresses
  Null,             \* NULL: no address, no value
  Hash,             \* the hash of each key before the modulo
  Capacity,         \* YARN_MAP_DEFAULT_CAPACITY
  MaxLoad,          \* YARN_MAP_LOAD_FACTOR, in percent
  HelperThreshold,  \* YARN_MAP_HELPER_TRESHOLD
  RoundsUp          \* may (float) rand() / RAND_MAX be 1?

ASSUME NullAssumption == Null \notin Key \cup Thread
ASSUME HashAssumption == Hash \in [Key -> Nat]
ASSUME CapacityAssumption == Capacity \in Nat \ {0} /\ MaxLoad \in Nat /\ HelperThreshold \in Nat
ASSUME RoundsUpAssumption == RoundsUp \in BOOLEAN

VARIABLES
  table,        \* the buckets: an address and a value each
  capacity,
  size,
  newTable,
  newCapacity,
  resizePos,
  userCount,
  helperCount,
  resizeState,

  pc,
  key,          \* addr of yarn_map_probe; a thread offers itself as the value
  result,       \* return_val
  newSize,
  i,            \* the bucket that is probed
  n,            \* how many were before
  caller,       \* where resize_helper or transfer_item returns to
  pos,          \* the bucket that is transferred
  moving,       \* its address

  dict          \* ghost: the value that was added first for every key

shared == <<table, capacity, size, newTable, newCapacity, resizePos, userCount,
            helperCount, resizeState>>
locals == <<key, result, newSize, i, n, caller, pos, moving>>
vars == <<shared, pc, locals, dict>>

Empty == [addr |-> Null, value |-> Null]

\* init_table
Table(c) == [b \in 0 .. c - 1 |-> Empty]

\* yarn_map_init
Init ==
  /\ table = Table(Capacity)
  /\ capacity = Capacity
  /\ size = 0
  /\ newTable = << >>
  /\ newCapacity = 0
  /\ resizePos = 0
  /\ userCount = 0
  /\ helperCount = 0
  /\ resizeState = "nothing"
  /\ pc = [t \in Thread |-> "idle"]
  /\ key = [t \in Thread |-> Null]
  /\ result = [t \in Thread |-> Null]
  /\ newSize = [t \in Thread |-> 0]
  /\ i = [t \in Thread |-> 0]
  /\ n = [t \in Thread |-> 0]
  /\ caller = [t \in Thread |-> "idle"]
  /\ pos = [t \in Thread |-> 0]
  /\ moving = [t \in Thread |-> Null]
  /\ dict = << >>

Goto(t, from, to) ==
  /\ pc[t] = from
  /\ pc' = [pc EXCEPT ![t] = to]

-----------------------------------------------------------------------------
(* yarn_map_probe                                                           *)

Call(t, k) ==
  /\ Goto(t, "idle", "enter")
  /\ key' = [key EXCEPT ![t] = k]
  /\ result' = [result EXCEPT ![t] = Null]
  /\ UNCHANGED <<shared, newSize, i, n, caller, pos, moving, dict>>

\* yarn_incv(&m->user_count), at the entry and after a call of resize_helper.
Enter(t) ==
  /\ Goto(t, "enter", "gate") \/ Goto(t, "reenter", "hash")
  /\ userCount' = userCount + 1
  /\ UNCHANGED <<table, capacity, size, newTable, newCapacity, resizePos, helperCount,
                 resizeState, locals, dict>>

\* Mutant of Gate: the state is not looked at.
GateOpen(t) ==
  /\ Goto(t, "gate", "hash")
  /\ UNCHANGED <<shared, locals, dict>>

\* Is a resize going on?
Gate(t) ==
  /\ Goto(t, "gate", IF resizeState = "nothing" THEN "hash" ELSE "retreat")
  /\ UNCHANGED <<shared, locals, dict>>

Retreat(t) ==
  /\ Goto(t, "retreat", "helper")
  /\ userCount' = userCount - 1
  /\ caller' = [caller EXCEPT ![t] = "reenter"]
  /\ UNCHANGED <<table, capacity, size, newTable, newCapacity, resizePos, helperCount,
                 resizeState, key, result, newSize, i, n, pos, moving, dict>>

\* hash, and the first read of the size.
Start(t) ==
  /\ Goto(t, "hash", "look")
  /\ i' = [i EXCEPT ![t] = Hash[key[t]] % capacity]
  /\ n' = [n EXCEPT ![t] = 0]
  /\ newSize' = [newSize EXCEPT ![t] = size]
  /\ UNCHANGED <<shared, key, result, caller, pos, moving, dict>>

\* yarn_readp(probe_addr): found, free, or the end of the table.
Look(t) ==
  /\ pc[t] = "look"
  /\ \/ /\ n[t] < capacity
        /\ \/ table[i[t]].addr = key[t] /\ Goto(t, "look", "await")
           \/ table[i[t]].addr = Null /\ Goto(t, "look", "claim")
     \/ n[t] >= capacity /\ Goto(t, "look", "load")
  /\ UNCHANGED <<shared, locals, dict>>

\* Mutant of LookOn: the buckets are not counted.
LookOnUncounted(t) ==
  /\ Goto(t, "look", "look")
  /\ n[t] < capacity
  /\ table[i[t]].addr \notin {key[t], Null}
  /\ i' = [i EXCEPT ![t] = (@ + 1) % capacity]
  /\ UNCHANGED <<shared, key, result, newSize, n, caller, pos, moving, dict>>

\* Another address: the next bucket.
LookOn(t) ==
  /\ Goto(t, "look", "look")
  /\ n[t] < capacity
  /\ table[i[t]].addr \notin {key[t], Null}
  /\ i' = [i EXCEPT ![t] = (@ + 1) % capacity]
  /\ n' = [n EXCEPT ![t] = @ + 1]
  /\ UNCHANGED <<shared, key, result, newSize, caller, pos, moving, dict>>

\* yarn_spinp_neq(probe_val, NULL)
Await(t) ==
  /\ Goto(t, "await", "load")
  /\ table[i[t]].value # Null
  /\ result' = [result EXCEPT ![t] = table[i[t]].value]
  /\ UNCHANGED <<shared, key, newSize, i, n, caller, pos, moving, dict>>

\* Mutant of Claim: a write, not a compare-and-swap.
ClaimWrite(t) ==
  /\ Goto(t, "claim", "fill")
  /\ table' = [table EXCEPT ![i[t]].addr = key[t]]
  /\ dict' = [k \in DOMAIN dict \cup {key[t]} |-> IF k = key[t] THEN t ELSE dict[k]]
  /\ UNCHANGED <<capacity, size, newTable, newCapacity, resizePos, userCount, helperCount,
                 resizeState, locals>>

\* yarn_casp(probe_addr, NULL, addr); the same bucket again if it fails.
Claim(t) ==
  /\ pc[t] = "claim"
  /\ IF table[i[t]].addr = Null
     THEN /\ Goto(t, "claim", "fill")
          /\ table' = [table EXCEPT ![i[t]].addr = key[t]]
          /\ dict' = [k \in DOMAIN dict \cup {key[t]} |-> IF k = key[t] THEN t ELSE dict[k]]
     ELSE /\ Goto(t, "claim", "look")
          /\ UNCHANGED <<table, dict>>
  /\ UNCHANGED <<capacity, size, newTable, newCapacity, resizePos, userCount, helperCount,
                 resizeState, locals>>

Fill(t) ==
  /\ Goto(t, "fill", "count")
  /\ table' = [table EXCEPT ![i[t]].value = t]
  /\ result' = [result EXCEPT ![t] = t]
  /\ UNCHANGED <<capacity, size, newTable, newCapacity, resizePos, userCount, helperCount,
                 resizeState, key, newSize, i, n, caller, pos, moving, dict>>

Count(t) ==
  /\ Goto(t, "count", "load")
  /\ size' = size + 1
  /\ newSize' = [newSize EXCEPT ![t] = size + 1]
  /\ UNCHANGED <<table, capacity, newTable, newCapacity, resizePos, userCount, helperCount,
                 resizeState, key, result, i, n, caller, pos, moving, dict>>

\* The local variables of a loop or a call that is over mean nothing any more.
ForgetProbe(t) ==
  /\ i' = [i EXCEPT ![t] = 0]
  /\ n' = [n EXCEPT ![t] = 0]
  /\ newSize' = [newSize EXCEPT ![t] = 0]

LoadFactor(t) ==
  /\ Goto(t, "load", IF 100 * newSize[t] > MaxLoad * capacity THEN "master" ELSE "exit")
  /\ ForgetProbe(t)
  /\ UNCHANGED <<shared, key, result, caller, pos, moving, dict>>

\* The label after a call is over: try again if nothing was found or added.
After(t) == IF result[t] = Null THEN "enter" ELSE "idle"

Exit(t) ==
  /\ Goto(t, "exit", After(t))
  /\ userCount' = userCount - 1
  /\ UNCHANGED <<table, capacity, size, newTable, newCapacity, resizePos, helperCount,
                 resizeState, locals, dict>>

-----------------------------------------------------------------------------
(* resize_master                                                            *)

\* yarn_casv_fast(&m->resize_state, state_nothing, state_preparing)
Elect(t) ==
  /\ IF resizeState = "nothing"
     THEN Goto(t, "master", "prepare") /\ resizeState' = "preparing"
     ELSE Goto(t, "master", "fallback") /\ UNCHANGED resizeState
  /\ UNCHANGED <<table, capacity, size, newTable, newCapacity, resizePos, userCount,
                 helperCount, locals, dict>>

\* Mutant of Fallback: the count of the user is kept.
FallbackKeeps(t) ==
  /\ Goto(t, "fallback", "helper")
  /\ caller' = [caller EXCEPT ![t] = "return"]
  /\ UNCHANGED <<shared, key, result, newSize, i, n, pos, moving, dict>>

Fallback(t) ==
  /\ Goto(t, "fallback", "helper")
  /\ userCount' = userCount - 1
  /\ caller' = [caller EXCEPT ![t] = "return"]
  /\ UNCHANGED <<table, capacity, size, newTable, newCapacity, resizePos, helperCount,
                 resizeState, key, result, newSize, i, n, pos, moving, dict>>

Prepare(t) ==
  /\ Goto(t, "prepare", "drain")
  /\ newCapacity' = 2 * capacity
  /\ newTable' = Table(2 * capacity)
  /\ UNCHANGED <<table, capacity, size, resizePos, userCount, helperCount, resizeState,
                 locals, dict>>

\* yarn_spinv_eq(&m->user_count, 1)
Drain(t) ==
  /\ Goto(t, "drain", "open")
  /\ userCount = 1
  /\ resizePos' = 0
  /\ UNCHANGED <<table, capacity, size, newTable, newCapacity, userCount, helperCount,
                 resizeState, locals, dict>>

Open(t) ==
  /\ Goto(t, "open", "sweep")
  /\ resizeState' = "resizing"
  /\ caller' = [caller EXCEPT ![t] = "sweep"]
  /\ pos' = [pos EXCEPT ![t] = 0]
  /\ UNCHANGED <<table, capacity, size, newTable, newCapacity, resizePos, userCount,
                 helperCount, key, result, newSize, i, n, moving, dict>>

\* The loop over the buckets, and state_waiting after it.
Sweep(t) ==
  /\ IF pos[t] < capacity
     THEN /\ Goto(t, "sweep", "transfer")
          /\ UNCHANGED <<resizeState, caller, pos>>
     ELSE /\ Goto(t, "sweep", "settle")
          /\ resizeState' = "waiting"
          /\ caller' = [caller EXCEPT ![t] = "idle"]
          /\ pos' = [pos EXCEPT ![t] = 0]
  /\ UNCHANGED <<table, capacity, size, newTable, newCapacity, resizePos, userCount,
                 helperCount, key, result, newSize, i, n, moving, dict>>

\* yarn_spinv_eq(&m->helper_count, 0)
Settle(t) ==
  /\ Goto(t, "settle", "swap")
  /\ helperCount = 0
  /\ UNCHANGED <<shared, locals, dict>>

Swap(t) ==
  /\ Goto(t, "swap", "reopen")
  /\ table' = newTable
  /\ capacity' = newCapacity
  /\ newTable' = << >>
  /\ newCapacity' = 0
  /\ UNCHANGED <<size, resizePos, userCount, helperCount, resizeState, locals, dict>>

Reopen(t) ==
  /\ Goto(t, "reopen", "exit")
  /\ resizeState' = "nothing"
  /\ UNCHANGED <<table, capacity, size, newTable, newCapacity, resizePos, userCount,
                 helperCount, locals, dict>>

-----------------------------------------------------------------------------
(* transfer_item                                                            *)

\* Back to the caller; the master goes on with the next bucket.
TransferEnd(t, from) ==
  /\ IF caller[t] = "sweep"
     THEN /\ Goto(t, from, "sweep")
          /\ pos' = [pos EXCEPT ![t] = @ + 1]
          /\ resizePos' = resizePos + 1
     ELSE /\ Goto(t, from, "help")
          /\ pos' = [pos EXCEPT ![t] = 0]
          /\ UNCHANGED resizePos
  /\ i' = [i EXCEPT ![t] = 0]
  /\ moving' = [moving EXCEPT ![t] = Null]

TransferRead(t) ==
  /\ pc[t] = "transfer"
  /\ IF table[pos[t]].addr = Null
     THEN TransferEnd(t, "transfer")
     ELSE /\ Goto(t, "transfer", "take")
          /\ moving' = [moving EXCEPT ![t] = table[pos[t]].addr]
          /\ UNCHANGED <<pos, resizePos, i>>
  /\ UNCHANGED <<table, capacity, size, newTable, newCapacity, userCount, helperCount,
                 resizeState, key, result, newSize, n, caller, dict>>

\* Mutant of TransferTake: the item stays in the old table.
TransferCopy(t) ==
  /\ Goto(t, "take", "place")
  /\ i' = [i EXCEPT ![t] = Hash[moving[t]] % newCapacity]
  /\ UNCHANGED <<shared, key, result, newSize, n, caller, pos, moving, dict>>

\* yarn_casp(&m->table[pos].addr, addr, NULL): one thread transfers the item.
TransferTake(t) ==
  /\ pc[t] = "take"
  /\ IF table[pos[t]].addr = moving[t]
     THEN /\ Goto(t, "take", "place")
          /\ table' = [table EXCEPT ![pos[t]].addr = Null]
          /\ i' = [i EXCEPT ![t] = Hash[moving[t]] % newCapacity]
          /\ UNCHANGED <<pos, resizePos, moving>>
     ELSE TransferEnd(t, "take") /\ UNCHANGED table
  /\ UNCHANGED <<capacity, size, newTable, newCapacity, userCount, helperCount,
                 resizeState, key, result, newSize, n, caller, dict>>

\* yarn_casp_fast(&m->new_table[i].addr, NULL, addr), and the next bucket.
TransferPlace(t) ==
  /\ pc[t] = "place"
  /\ IF newTable[i[t]].addr = Null
     THEN /\ Goto(t, "place", "copy")
          /\ newTable' = [newTable EXCEPT ![i[t]].addr = moving[t]]
          /\ UNCHANGED i
     ELSE /\ i' = [i EXCEPT ![t] = (@ + 1) % newCapacity]
          /\ UNCHANGED <<pc, newTable>>
  /\ UNCHANGED <<table, capacity, size, newCapacity, resizePos, userCount, helperCount,
                 resizeState, key, result, newSize, n, caller, pos, moving, dict>>

TransferCopyValue(t) ==
  /\ pc[t] = "copy"
  /\ newTable' = [newTable EXCEPT ![i[t]].value = table[pos[t]].value]
  /\ TransferEnd(t, "copy")
  /\ UNCHANGED <<table, capacity, size, newCapacity, userCount, helperCount, resizeState,
                 key, result, newSize, n, caller, dict>>

-----------------------------------------------------------------------------
(* resize_helper                                                            *)

HelperEnter(t) ==
  /\ Goto(t, "helper", "help_check")
  /\ helperCount' = helperCount + 1
  /\ UNCHANGED <<table, capacity, size, newTable, newCapacity, resizePos, userCount,
                 resizeState, locals, dict>>

\* The resize is over already, or the preparations are waited for.
HelperCheck(t) ==
  /\ \/ Goto(t, "help_check", IF resizeState = "nothing" THEN "help_quit" ELSE "help_wait")
     \/ Goto(t, "help_wait", "help") /\ resizeState # "preparing"
     \/ Goto(t, "help", IF resizeState = "resizing" THEN "help_pick" ELSE "help_leave")
  /\ UNCHANGED <<shared, locals, dict>>

\* A bucket far enough from the master, if any is left.
HelperPick(t) ==
  LET minPos == resizePos + HelperThreshold
  IN  /\ IF minPos + HelperThreshold < capacity
         THEN /\ Goto(t, "help_pick", "transfer")
              /\ \E p \in minPos .. (IF RoundsUp THEN capacity ELSE capacity - 1) :
                   pos' = [pos EXCEPT ![t] = p]
         ELSE Goto(t, "help_pick", "help_leave") /\ UNCHANGED pos
      /\ UNCHANGED <<shared, key, result, newSize, i, n, caller, moving, dict>>

\* The label where resize_helper returns to.
HelperReturn(t) == IF caller[t] = "reenter" THEN "reenter" ELSE After(t)

HelperLeave(t) ==
  /\ Goto(t, "help_quit", HelperReturn(t)) \/ Goto(t, "help_leave", "help_resizing")
  /\ helperCount' = helperCount - 1
  /\ UNCHANGED <<table, capacity, size, newTable, newCapacity, resizePos, userCount,
                 resizeState, locals, dict>>

\* The two spins that wait for the master.
HelperSpin(t) ==
  /\ \/ Goto(t, "help_resizing", "help_waiting") /\ resizeState # "resizing"
     \/ Goto(t, "help_waiting", HelperReturn(t)) /\ resizeState # "waiting"
  /\ UNCHANGED <<shared, locals, dict>>

-----------------------------------------------------------------------------
Probe(t) ==
  \/ Enter(t) \/ Gate(t) \/ Retreat(t) \/ Start(t) \/ Look(t) \/ LookOn(t) \/ Await(t)
  \/ Claim(t) \/ Fill(t) \/ Count(t) \/ LoadFactor(t) \/ Exit(t)

Master(t) ==
  \/ Elect(t) \/ Fallback(t) \/ Prepare(t) \/ Drain(t) \/ Open(t) \/ Sweep(t)
  \/ Settle(t) \/ Swap(t) \/ Reopen(t)

Helper(t) ==
  \/ TransferRead(t) \/ TransferTake(t) \/ TransferPlace(t) \/ TransferCopyValue(t)
  \/ HelperEnter(t) \/ HelperCheck(t) \/ HelperPick(t) \/ HelperLeave(t) \/ HelperSpin(t)

Step(t) == Probe(t) \/ Master(t) \/ Helper(t)

Next == \E t \in Thread : Step(t) \/ \E k \in Key : Call(t, k)

Spec == Init /\ [][Next]_vars

\* Every thread is scheduled; none has to call.
FairSpec == Spec /\ \A t \in Thread : WF_vars(Step(t))

-----------------------------------------------------------------------------
Used(tab) == {b \in DOMAIN tab : tab[b].addr # Null}

Bucket == [addr : Key \cup {Null}, value : Thread \cup {Null}]

\* Those that probe, the master at work, and the helpers; transfer_item is called by both.
Probing == {"hash", "look", "await", "claim", "fill", "count"}
Transferring == {"transfer", "take", "place", "copy"}
Ready == {"prepare", "drain", "open"}
MasterLabels == Ready \cup {"sweep", "settle", "swap", "reopen"}
HelperLabels == {"help_check", "help_wait", "help", "help_pick", "help_quit", "help_leave"}
UserLabels == Probing \cup {"gate", "retreat", "load", "exit", "master", "fallback"}
Labels == MasterLabels \cup HelperLabels \cup UserLabels \cup Transferring
          \cup {"idle", "enter", "reenter", "helper", "help_resizing", "help_waiting"}

\* The thread that resizes, those that help it, and those user_count counts.
IsMaster(t) == pc[t] \in MasterLabels \/ (pc[t] \in Transferring /\ caller[t] = "sweep")
IsHelper(t) == pc[t] \in HelperLabels \/ (pc[t] \in Transferring /\ caller[t] # "sweep")
IsUser(t) == pc[t] \in UserLabels \/ IsMaster(t)

Users == {t \in Thread : IsUser(t)}
Helpers == {t \in Thread : IsHelper(t)}

SharedOK ==
  /\ capacity \in Nat \ {0} /\ newCapacity \in Nat /\ size \in Nat /\ resizePos \in Nat
  /\ table \in [0 .. capacity - 1 -> Bucket]
  /\ newTable \in [0 .. newCapacity - 1 -> Bucket]
  /\ resizeState \in {"nothing", "preparing", "resizing", "waiting"}

LocalsOK ==
  /\ pc \in [Thread -> Labels]
  /\ key \in [Thread -> Key \cup {Null}]
  /\ result \in [Thread -> Thread \cup {Null}]
  /\ newSize \in [Thread -> Nat]
  /\ i \in [Thread -> Nat] /\ n \in [Thread -> Nat] /\ pos \in [Thread -> Nat]
  /\ caller \in [Thread -> {"idle", "reenter", "return", "sweep"}]
  /\ moving \in [Thread -> Key \cup {Null}]

DictOK == dict \in [DOMAIN dict -> Thread] /\ DOMAIN dict \subseteq Key

(* user_count is the number of the threads between its increment and its    *)
(* decrement, although a thread leaves in the middle to help and comes      *)
(* back; helper_count is that of the helpers.                               *)
CountInv == userCount = Cardinality(Users) /\ helperCount = Cardinality(Helpers)

(* Every variable has its type, each table the size that is recorded for    *)
(* it; the two counters that the master waits for count.                    *)
TypeOK == SharedOK /\ LocalsOK /\ DictOK /\ CountInv

(* map.c:267: "no threads should be allowed to read the table while         *)
(* resize_state != state_nothing", once the master has waited for the users *)
(* that were there before.                                                  *)
TableClosed ==
  resizeState \in {"resizing", "waiting"} => \A t \in Thread : pc[t] \notin Probing

\* The buckets a probe for k goes through in a table of capacity c before bucket b.
Before(k, b, c) == {d \in 0 .. c - 1 : (d - (Hash[k] % c)) % c < (b - (Hash[k] % c)) % c}

(* Every key that was added is in one bucket and no other, of the table or, *)
(* while the items move, of the new table or the hands of one thread; a     *)
(* probe for it meets no free bucket before, so that no second record is    *)
(* ever made for an address.                                                *)
Findable ==
  \A k \in DOMAIN dict :
    LET here == {b \in Used(table) : table[b].addr = k}
        there == {b \in Used(newTable) : newTable[b].addr = k}
        moved == {t \in Thread : pc[t] = "place" /\ moving[t] = k}
    IN  /\ Cardinality(here) + Cardinality(there) + Cardinality(moved) = 1
        /\ \A b \in here :
             /\ table[b].value \in {dict[k]} \cup {Null}
             /\ resizeState \in {"nothing", "preparing"} =>
                  Before(k, b, capacity) \subseteq Used(table)
        /\ \A b \in there : Before(k, b, newCapacity) \subseteq Used(newTable)

(* The item that transfer_item moves is one of the table.                   *)
TransferInTable == \A t \in Thread : pc[t] = "transfer" => pos[t] < capacity

(* Every call returns, whoever waits for whom.                              *)
ProbeReturns == \A t \in Thread : pc[t] # "idle" ~> pc[t] = "idle"

(* A call looks for its key and adds it in one atomic step, whatever        *)
(* resizes go on meanwhile.                                                 *)
Abstract == INSTANCE Dictionary WITH
  asked <- [t \in Thread |-> IF pc[t] = "idle" THEN Null ELSE key[t]],
  answer <- [t \in Thread |-> IF pc[t] = "idle" THEN result[t] ELSE Null]

ImplementsDictionary == Abstract!Spec
=============================================================================
