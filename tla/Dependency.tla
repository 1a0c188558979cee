----------------------------- MODULE Dependency -----------------------------
(***************************************************************************)
(* libyarn/src/dependency.c: what the epochs read and wrote.               *)
(*                                                                         *)
(* Every address that the loop touches has a record (struct addr_info):    *)
(* the slots of the epochs that read and wrote it, one buffered value per  *)
(* slot, and the last epoch that was committed to it.  A load takes the    *)
(* value of the latest earlier epoch that wrote; a store makes the         *)
(* earliest later epoch that already read roll back; a commit copies the   *)
(* buffered values to memory; an undo forgets them.                        *)
(*                                                                         *)
(* This module adds one action per atomic step of these functions to the   *)
(* module Epoch, for a thread at "exec", "publish" or "undo", and leaves   *)
(* the executor to the module that EXTENDS it.                             *)
(*                                                                         *)
(* yarn_map_probe returns one record per address (module Map), so a record *)
(* is named by its address and g_info_index, a cache of the same records,  *)
(* adds nothing.  A new record has no flag set, so info_list_push and      *)
(* info_list_push_if_new do the same to it.                                *)
(*                                                                         *)
(* Memory is sequentially consistent, but for one write: the one to the    *)
(* write buffer that no compare-and-swap follows may stay in the store     *)
(* buffer of the processor while the thread goes on to read the flags.     *)
(***************************************************************************)
EXTENDS Epoch, FiniteSets

CONSTANTS
  Addr,    \* the addresses that the loop reads and writes
  NoAddr,  \* NULL at the end of a list of records
  Initial, \* the value of the memory before the loop
  Delays   \* may the processor delay a write past the reads that follow it?

ASSUME AddrAssumption == IsFiniteSet(Addr)
ASSUME NoAddrAssumption == NoAddr \notin Addr
ASSUME DelaysAssumption == Delays \in BOOLEAN

VARIABLES
  mem,         \* the memory the loop works on
  readers,     \* flags of the record, the half of the readers: a set of slots
  writers,     \* flags of the record, the half of the writers
  wbuf,        \* write_buffer of the record, one value per slot
  lastCommit,  \* last_commit of the record
  commitLock,  \* the threads that hold commit_lock of the record, none or one
  link,        \* info_list of the record: the next record on the list of a slot
  head,        \* g_info_list: the first record on the list of a slot

  at,          \* info: the record a thread works on
  seen,        \* read_flags or write_flags, the local copy
  pick,        \* read_epoch of load_from_wbuf, last_epoch of the violation check
  value,       \* dest of load_from_wbuf
  delayed      \* the write that only the thread can see yet, if any: its
               \* address, slot and value

flags == <<readers, writers>>
lists == <<link, head>>
depLocals == <<at, seen, pick, value, delayed>>
depVars == <<mem, flags, wbuf, lastCommit, commitLock, lists, depLocals>>

\* What epoch.c owns, but for the program counter and the argument of
\* yarn_epoch_do_rollback.
epochData == <<status, cursors, rollbackFlag, stop, locks, epoch, cur, oldStop, newStop>>

\* addr_info_construct for every record, and yarn_dep_global_init.
DependencyInit ==
  /\ mem = [a \in Addr |-> Initial]
  /\ readers = [a \in Addr |-> {}]
  /\ writers = [a \in Addr |-> {}]
  /\ wbuf = [a \in Addr |-> [i \in Slot |-> Initial]]
  /\ lastCommit = [a \in Addr |-> -1]
  /\ commitLock = [a \in Addr |-> {}]
  /\ link = [a \in Addr |-> [i \in Slot |-> NoAddr]]
  /\ head = [i \in Slot |-> NoAddr]
  /\ at = [t \in Thread |-> NoAddr]
  /\ seen = [t \in Thread |-> {}]
  /\ pick = [t \in Thread |-> -1]
  /\ value = [t \in Thread |-> Initial]
  /\ delayed = [t \in Thread |-> {}]

-----------------------------------------------------------------------------
(* The list of the records that an epoch touched.                           *)

\* Mutant of PushIfNew: a record that was read is pushed again by a store.
PushIfNotWritten(a, i) ==
  IF i \in writers[a]
  THEN UNCHANGED lists
  ELSE /\ link' = [link EXCEPT ![a][i] = head[i]]
       /\ head' = [head EXCEPT ![i] = a]

\* info_list_push_if_new
PushIfNew(a, i) ==
  IF i \in readers[a] \cup writers[a]
  THEN UNCHANGED lists
  ELSE /\ link' = [link EXCEPT ![a][i] = head[i]]
       /\ head' = [head EXCEPT ![i] = a]

\* info_list_pop, of a list that is not empty.
Pop(i) ==
  /\ head[i] # NoAddr
  /\ head' = [head EXCEPT ![i] = link[head[i]][i]]
  /\ link' = [link EXCEPT ![head[i]][i] = NoAddr]

\* clear_flags
ClearFlags(a, i) ==
  /\ readers' = [readers EXCEPT ![a] = @ \ {i}]
  /\ writers' = [writers EXCEPT ![a] = @ \ {i}]

\* The locals of a function that thread t returns from go out of scope.
DropLocals(t) ==
  /\ at' = [at EXCEPT ![t] = NoAddr]
  /\ seen' = [seen EXCEPT ![t] = {}]
  /\ pick' = [pick EXCEPT ![t] = -1]

-----------------------------------------------------------------------------
(* yarn_dep_load and yarn_dep_load_fast: load_from_wbuf.                    *)

\* get_map_addr_info, then the compare-and-swap of set_read_flag: it sets the
\* read flag and reads the write flags at once.
LoadFlag(t, a) ==
  LET i == Index(epoch[t])
  IN  /\ Goto(t, "exec", "load_mask")
      /\ PushIfNew(a, i)
      /\ readers' = [readers EXCEPT ![a] = @ \cup {i}]
      /\ seen' = [seen EXCEPT ![t] = writers[a]]
      /\ at' = [at EXCEPT ![t] = a]
      /\ UNCHANGED <<epochData, start, mem, writers, wbuf, lastCommit, commitLock,
                     pick, value, delayed>>

\* write_flags &= ~yarn_epoch_rollback_flags()
LoadMask(t) ==
  /\ Goto(t, "load_mask", "load_first")
  /\ seen' = [seen EXCEPT ![t] = @ \ rollbackFlag]
  /\ UNCHANGED <<epochData, start, mem, flags, wbuf, lastCommit, commitLock, lists,
                 at, pick, value, delayed>>

\* The epochs of a range whose slot thread t has seen flagged.
Flagged(t, range) == {e \in range : Index(e) \in seen[t]}

Latest(S) == CHOOSE e \in S : \A f \in S : f <= e
Earliest(S) == CHOOSE e \in S : \A f \in S : e <= f

\* Mutant of LoadFirst: the epoch of the thread itself is left out.
LoadFirstExclusive(t) ==
  LET wrote == Flagged(t, first .. epoch[t] - 1)
  IN  /\ Goto(t, "load_first", IF wrote = {} THEN "load_mem" ELSE "load_buf")
      /\ pick' = [pick EXCEPT ![t] = IF wrote = {} THEN -1 ELSE Latest(wrote)]
      /\ UNCHANGED <<epochData, start, mem, flags, wbuf, lastCommit, commitLock, lists,
                     at, seen, value, delayed>>

\* yarn_epoch_first, and the latest write from there to the epoch of the thread,
\* its own included.  The module FlagWord shows that the masks select this one.
LoadFirst(t) ==
  LET wrote == Flagged(t, first .. epoch[t])
  IN  /\ Goto(t, "load_first", IF wrote = {} THEN "load_mem" ELSE "load_buf")
      /\ pick' = [pick EXCEPT ![t] = IF wrote = {} THEN -1 ELSE Latest(wrote)]
      /\ UNCHANGED <<epochData, start, mem, flags, wbuf, lastCommit, commitLock, lists,
                     at, seen, value, delayed>>

LoadBuf(t) ==
  /\ Goto(t, "load_buf", "load_check")
  /\ value' = [value EXCEPT ![t] = wbuf[at[t]][Index(pick[t])]]
  /\ UNCHANGED <<epochData, start, mem, flags, wbuf, lastCommit, commitLock, lists,
                 at, seen, pick, delayed>>

\* Mutant of LoadCheck: a slot that was committed and reused is believed.
LoadUnchecked(t) ==
  /\ Goto(t, "load_check", "exec")
  /\ DropLocals(t)
  /\ UNCHANGED <<epochData, start, mem, flags, wbuf, lastCommit, commitLock, lists, value,
                 delayed>>

\* The buffered value counts only if the record was not committed since.
LoadCheck(t) ==
  /\ \/ /\ Goto(t, "load_check", "exec")
        /\ pick[t] > lastCommit[at[t]]
        /\ DropLocals(t)
     \/ /\ Goto(t, "load_check", "load_mem")
        /\ pick[t] <= lastCommit[at[t]]
        /\ UNCHANGED <<at, seen, pick, delayed>>
  /\ UNCHANGED <<epochData, start, mem, flags, wbuf, lastCommit, commitLock, lists, value,
                 delayed>>

LoadMem(t) ==
  /\ Goto(t, "load_mem", "exec")
  /\ value' = [value EXCEPT ![t] = mem[at[t]]]
  /\ DropLocals(t)
  /\ UNCHANGED <<epochData, start, mem, flags, wbuf, lastCommit, commitLock, lists, delayed>>

-----------------------------------------------------------------------------
(* yarn_dep_store and yarn_dep_store_fast: store_to_wbuf, then              *)
(* dep_violation_check.                                                     *)

\* get_map_addr_info and the write to the buffer.  The compare-and-swap of
\* set_write_flag would make it visible, but when the bit is set there is none.
StoreBuf(t, a, v) ==
  LET i == Index(epoch[t])
  IN  /\ Goto(t, "exec", "store_flag")
      /\ PushIfNew(a, i)
      /\ \/ /\ wbuf' = [wbuf EXCEPT ![a][i] = v]
            /\ UNCHANGED delayed
         \/ /\ Delays
            /\ i \in writers[a]
            /\ delayed' = [delayed EXCEPT ![t] = {<<a, i, v>>}]
            /\ UNCHANGED wbuf
      /\ at' = [at EXCEPT ![t] = a]
      /\ UNCHANGED <<epochData, start, mem, flags, lastCommit, commitLock,
                     seen, pick, value>>

\* The write reaches the other threads.
Drain(t) ==
  \E w \in delayed[t] :
    /\ wbuf' = [wbuf EXCEPT ![w[1]][w[2]] = w[3]]
    /\ delayed' = [delayed EXCEPT ![t] = {}]
    /\ UNCHANGED <<epochData, pc, start, mem, flags, lastCommit, commitLock, lists,
                   at, seen, pick, value>>

\* Mutant of StoreFlag: the bit of the epoch, not of its slot.
StoreFlagOfEpoch(t) ==
  /\ Goto(t, "store_flag", "violation_last")
  /\ writers' = [writers EXCEPT ![at[t]] = @ \cup {epoch[t]}]
  /\ seen' = [seen EXCEPT ![t] = readers[at[t]]]
  /\ UNCHANGED <<epochData, start, mem, readers, wbuf, lastCommit, commitLock, lists,
                 at, pick, value, delayed>>

\* The compare-and-swap of set_write_flag, or the one read of the flags when the
\* bit is set already.
StoreFlag(t) ==
  LET i == Index(epoch[t])
  IN  /\ Goto(t, "store_flag", "violation_last")
      /\ writers' = [writers EXCEPT ![at[t]] = @ \cup {i}]
      /\ seen' = [seen EXCEPT ![t] = readers[at[t]]]
      /\ UNCHANGED <<epochData, start, mem, readers, wbuf, lastCommit, commitLock, lists,
                     at, pick, value, delayed>>

\* yarn_epoch_last: no later epoch was given out, or the range to look at.
ViolationLast(t) ==
  /\ \/ /\ Goto(t, "violation_last", "exec")
        /\ epoch[t] + 1 >= next
        /\ DropLocals(t)
     \/ /\ Goto(t, "violation_last", "violation_flags")
        /\ epoch[t] + 1 < next
        /\ pick' = [pick EXCEPT ![t] = next]
        /\ UNCHANGED <<at, seen>>
  /\ UNCHANGED <<epochData, start, mem, flags, wbuf, lastCommit, commitLock, lists, value,
                 delayed>>

\* The later epochs that read the record and are not rolled back.
Violated(t) ==
  {e \in Flagged(t, epoch[t] + 1 .. pick[t] - 1) : Index(e) \notin rollbackFlag}

\* The rest of dep_violation_check, up to the call of yarn_epoch_do_rollback.
ViolationFlags(t) ==
  /\ Goto(t, "violation_flags", IF Violated(t) = {} THEN "exec" ELSE "rollback")
  /\ start' = [start EXCEPT ![t] = IF Violated(t) = {} THEN 0 ELSE Earliest(Violated(t))]
  /\ DropLocals(t)
  /\ UNCHANGED <<epochData, mem, flags, wbuf, lastCommit, commitLock, lists, value,
                 delayed>>

-----------------------------------------------------------------------------
(* yarn_dep_commit of the epoch cur[t].  The list and the flags of its slot *)
(* belong to the thread, and last_commit is written under commit_lock only, *)
(* so the write to memory is the one step of the first action that another  *)
(* thread can see.                                                          *)

\* Does the buffered value go to memory?
Newer(t, a) == Index(cur[t]) \in writers[a] /\ cur[t] > lastCommit[a]

\* Mutant of CommitWrite: a commit that comes late overwrites a later one.
CommitWriteAlways(t) ==
  LET i == Index(cur[t])
      a == head[i]
  IN  /\ Pop(i)
      /\ commitLock[a] = {}
      /\ commitLock' = [commitLock EXCEPT ![a] = {t}]
      /\ Goto(t, "publish", IF i \in writers[a] THEN "publish_last" ELSE "publish_clear")
      /\ mem' = IF i \in writers[a] THEN [mem EXCEPT ![a] = wbuf[a][i]] ELSE mem
      /\ at' = [at EXCEPT ![t] = a]
      /\ UNCHANGED <<epochData, start, flags, wbuf, lastCommit, seen, pick, value,
                     delayed>>

CommitWrite(t) ==
  LET i == Index(cur[t])
      a == head[i]
  IN  /\ Pop(i)
      /\ commitLock[a] = {}
      /\ commitLock' = [commitLock EXCEPT ![a] = {t}]
      /\ Goto(t, "publish", IF Newer(t, a) THEN "publish_last" ELSE "publish_clear")
      /\ mem' = IF Newer(t, a) THEN [mem EXCEPT ![a] = wbuf[a][i]] ELSE mem
      /\ at' = [at EXCEPT ![t] = a]
      /\ UNCHANGED <<epochData, start, flags, wbuf, lastCommit, seen, pick, value,
                     delayed>>

CommitLast(t) ==
  /\ Goto(t, "publish_last", "publish_clear")
  /\ lastCommit' = [lastCommit EXCEPT ![at[t]] = cur[t]]
  /\ UNCHANGED <<epochData, start, mem, flags, wbuf, commitLock, lists, depLocals>>

\* clear_flags and the unlock.
CommitClear(t) ==
  /\ Goto(t, "publish_clear", "publish")
  /\ ClearFlags(at[t], Index(cur[t]))
  /\ commitLock' = [commitLock EXCEPT ![at[t]] = {}]
  /\ DropLocals(t)
  /\ UNCHANGED <<epochData, start, mem, wbuf, lastCommit, lists, value, delayed>>

CommitReturn(t) ==
  /\ Goto(t, "publish", "commit_done")
  /\ head[Index(cur[t])] = NoAddr
  /\ UNCHANGED <<epochData, start, depVars>>

-----------------------------------------------------------------------------
(* yarn_dep_rollback                                                        *)

UndoPop(t) ==
  LET i == Index(epoch[t])
  IN  /\ Pop(i)
      /\ Goto(t, "undo", "undo")
      /\ ClearFlags(head[i], i)
      /\ UNCHANGED <<epochData, start, mem, wbuf, lastCommit, commitLock, depLocals>>

UndoReturn(t) ==
  /\ Goto(t, "undo", "rollback_done")
  /\ head[Index(epoch[t])] = NoAddr
  /\ UNCHANGED <<epochData, start, depVars>>

-----------------------------------------------------------------------------
\* The steps of dependency.c that do not depend on what the executor asks for.
Tracker(t) ==
  \/ LoadMask(t) \/ LoadFirst(t) \/ LoadBuf(t)
  \/ StoreFlag(t) \/ ViolationLast(t) \/ ViolationFlags(t)
  \/ CommitWrite(t) \/ CommitLast(t) \/ CommitClear(t) \/ CommitReturn(t)
  \/ UndoPop(t) \/ UndoReturn(t)

TrackerLabels ==
  {"load_mask", "load_first", "load_buf", "load_check", "load_mem",
   "store_flag", "violation_last", "violation_flags", "publish_last", "publish_clear"}
=============================================================================
