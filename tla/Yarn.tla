-------------------------------- MODULE Yarn --------------------------------
(***************************************************************************)
(* libyarn/src/yarn.c over the ring of epochs and the dependency tracker:  *)
(* the worker threads run the iterations of a loop speculatively.          *)
(*                                                                         *)
(* The loop is a sequence of iterations, each a sequence of loads and      *)
(* stores; the last iteration breaks, and so would every one after it,     *)
(* which run the same operations.  A value is where it comes from: the     *)
(* position in the sequential run of the store that wrote it, Initial, or  *)
(* Garbage when the execution that wrote it had read a wrong value.  So a  *)
(* value is right exactly when it is the one the sequential run would read *)
(* there, whatever the loop computes.                                      *)
(***************************************************************************)
EXTENDS Dependency, Sequences, FiniteSetsExt

CONSTANTS
  Program,       \* the iterations: sequences of <<"load" or "store", address>>
  Garbage,       \* what an execution stores that read a wrong value
  DataDependent  \* may such an execution store elsewhere, or not at all?

Operations == {"load", "store"} \X Addr

ASSUME ProgramAssumption == Program \in Seq(Seq(Operations)) /\ Program # <<>>
ASSUME ValuesAssumption == Garbage # Initial /\ {Garbage, Initial} \cap Nat = {}
ASSUME DataDependentAssumption == DataDependent \in BOOLEAN

VARIABLES
  op,     \* how many operations of the iteration were started
  sound   \* ghost: every value the execution has read so far was right

vars == <<epochVars, depVars, op, sound>>

-----------------------------------------------------------------------------
(* The sequential run.                                                      *)

LastEpoch == Len(Program) - 1

\* The operations of iteration e.
Body(e) == Program[IF e < LastEpoch THEN e + 1 ELSE LastEpoch + 1]

Width == Max({Len(Program[k]) : k \in DOMAIN Program})

\* The operation i of iteration e, in the order of the sequential run.
Position(e, i) == e * Width + i

\* The stores to a in iteration e.
StoresOf(e, a) == {Position(e, i) : i \in {j \in DOMAIN Body(e) : Body(e)[j] = <<"store", a>>}}

\* What address a holds before the operation i of iteration e.
ValueAt(a, e, i) ==
  LET before == {q \in UNION {StoresOf(c, a) : c \in 0 .. e} : q < Position(e, i)}
  IN  IF before = {} THEN Initial ELSE Max(before)

\* What address a holds when the iterations up to e are over.
ValueAfter(a, e) == ValueAt(a, e + 1, 1)

-----------------------------------------------------------------------------
(* The executor.                                                            *)

Init ==
  /\ EpochInit
  /\ DependencyInit
  /\ op = [t \in Thread |-> 0]
  /\ sound = [t \in Thread |-> TRUE]

\* The execution of t starts its next operation, of a given kind.
Advance(t, kind) ==
  /\ op[t] < Len(Body(epoch[t]))
  /\ Body(epoch[t])[op[t] + 1][1] = kind
  /\ op' = [op EXCEPT ![t] = @ + 1]
  /\ UNCHANGED sound

Operand(t) == Body(epoch[t])[op[t] + 1][2]

Load(t) ==
  /\ pc[t] = "exec"
  /\ Advance(t, "load")
  /\ LoadFlag(t, Operand(t))

Store(t) ==
  /\ pc[t] = "exec"
  /\ Advance(t, "store")
  /\ StoreBuf(t, Operand(t), IF sound[t] THEN Position(epoch[t], op[t] + 1) ELSE Garbage)

\* An execution that read a wrong value computes a wrong address or takes a wrong
\* branch.
StoreAstray(t, a) ==
  /\ DataDependent
  /\ pc[t] = "exec"
  /\ ~sound[t]
  /\ Advance(t, "store")
  /\ StoreBuf(t, a, Garbage)

StoreNowhere(t) ==
  /\ DataDependent
  /\ pc[t] = "exec"
  /\ ~sound[t]
  /\ Advance(t, "store")
  /\ UNCHANGED <<epochVars, depVars>>

\* The executor has the value of a load: is it the one of the sequential run?
LoadEnd(t) ==
  /\ LoadCheck(t) \/ LoadMem(t)
  /\ sound' = [sound EXCEPT ![t] =
       @ /\ (pc'[t] = "exec" => value'[t] = ValueAt(at[t], epoch[t], op[t]))]
  /\ UNCHANGED op

\* yarn_ret_break from the last iteration on, yarn_ret_continue before.
Return(t) ==
  /\ Goto(t, "exec", IF epoch[t] >= LastEpoch THEN "stop" ELSE "set_done")
  /\ op[t] = Len(Body(epoch[t]))
  /\ op' = [op EXCEPT ![t] = 0]
  /\ sound' = [sound EXCEPT ![t] = TRUE]
  /\ UNCHANGED <<status, cursors, rollbackFlag, stop, locks, locals, depVars>>

Executor(t) ==
  \/ Load(t) \/ Store(t) \/ StoreNowhere(t) \/ LoadEnd(t) \/ Return(t)
  \/ \E a \in Addr : StoreAstray(t, a)

\* The steps of epoch.c.
Ring(t) ==
  \/ NextEnter(t) \/ NextLook(t) \/ NextStall(t) \/ NextFinish(t)
  \/ NextClaim(t) \/ NextMark(t) \/ RollbackDone(t)
  \/ RollbackLock(t) \/ RollbackEnter(t) \/ RollbackSkip(t) \/ RollbackStatus(t)
  \/ RollbackFlag(t) \/ RollbackNext(t) \/ RollbackStopKeep(t)
  \/ RollbackStopRead(t) \/ RollbackStopCas(t) \/ RollbackExit(t)
  \/ Stop(t) \/ SetDone(t)
  \/ GetCommit(t) \/ GetCommitNone(t) \/ GetCommitCheck(t) \/ GetCommitCas(t)
  \/ CommitDone(t) \/ FirstRead(t) \/ FirstCheck(t) \/ FirstCas(t)
  \/ UpdateStopKeep(t) \/ UpdateStopRead(t) \/ UpdateStopCas(t) \/ Signal(t)

\* pool_worker_simple.  Every load, store, lock and compare-and-swap that follows a
\* violation check waits for the delayed write.
Worker(t) ==
  \/ delayed[t] = {} /\ Executor(t)
  \/ (Tracker(t) \/ Drain(t)) /\ UNCHANGED <<op, sound>>
  \/ delayed[t] = {} /\ Ring(t) /\ UNCHANGED <<depVars, op, sound>>

Finished == \A t \in Thread : pc[t] = "exit"

Next ==
  \/ \E t \in Thread : Worker(t)
  \/ Finished /\ UNCHANGED vars

Spec == Init /\ [][Next]_vars

Fairness == \A t \in Thread : WF_vars(Worker(t))

FairSpec == Spec /\ Fairness

-----------------------------------------------------------------------------
Value == Nat \cup {Initial, Garbage}

(* Every variable of the tracker has its type.                              *)
TypeOK ==
  /\ mem \in [Addr -> Value]
  /\ readers \in [Addr -> SUBSET Slot]
  /\ writers \in [Addr -> SUBSET Slot]
  /\ wbuf \in [Addr -> [Slot -> Value]]
  /\ lastCommit \in [Addr -> Int]
  /\ commitLock \in [Addr -> SUBSET Thread]
  /\ link \in [Addr -> [Slot -> Addr \cup {NoAddr}]]
  /\ head \in [Slot -> Addr \cup {NoAddr}]
  /\ at \in [Thread -> Addr \cup {NoAddr}]
  /\ seen \in [Thread -> SUBSET Slot]
  /\ pick \in [Thread -> Int]
  /\ value \in [Thread -> Value]
  /\ delayed \in [Thread -> SUBSET (Addr \X Slot \X Value)]
  /\ op \in [Thread -> 0 .. Width]
  /\ sound \in [Thread -> BOOLEAN]

(* The epochs whose commit was claimed and did not start to clear flags.    *)
Claimed == {e \in first .. nextCommit - 1 : status[Index(e)] = "done"}

(* An epoch whose commit is claimed has stored what its iteration stores in *)
(* the sequential run, and nothing else: whatever it misread was found by   *)
(* the violation check of an earlier epoch before that one was done.  Until *)
(* it is in memory, the value is in the buffer, under a write flag.         *)
CommitsRight ==
  \A e \in Claimed, a \in Addr :
    LET i == Index(e)
    IN  IF StoresOf(e, a) = {}
        THEN i \notin writers[a]
        ELSE \/ i \in writers[a] /\ wbuf[a][i] = Max(StoresOf(e, a))
             \/ lastCommit[a] >= e

(* test/check_yarn.c:83-84 and the README: once every worker is done,       *)
(* memory is what the sequential loop leaves.                               *)
SequentialResult ==
  Finished => \A a \in Addr : mem[a] = ValueAfter(a, LastEpoch)

\* The record n steps down the list of slot i.
Chain(i) ==
  LET chain[n \in 0 .. Cardinality(Addr)] ==
        IF n = 0 THEN head[i]
        ELSE IF chain[n - 1] = NoAddr THEN NoAddr ELSE link[chain[n - 1]][i]
  IN  chain

Listed(i) == {Chain(i)[n] : n \in 0 .. Cardinality(Addr)} \ {NoAddr}

Touched(i) == {a \in Addr : i \in readers[a] \cup writers[a]}

\* The records of slot i that are between the list and the flags.
InTransit(i) ==
  {at[t] : t \in {u \in Thread :
     \/ pc[u] = "store_flag" /\ Index(epoch[u]) = i
     \/ pc[u] \in {"publish_last", "publish_clear"} /\ Index(cur[u]) = i}}

(* The list of a slot ends, and holds the records that the slot has a flag  *)
(* in, each once: a record pushed twice would cut the list or close it into *)
(* a cycle, and the flags of a record that is not on the list would outlive *)
(* the epoch and be taken for those of the next one to use the slot.  A     *)
(* slot that is free has neither.                                           *)
ListsMatchFlags ==
  \A i \in Slot :
    /\ Chain(i)[Cardinality(Addr)] = NoAddr
    /\ Listed(i) \ InTransit(i) = Touched(i) \ InTransit(i)
    /\ status[i] = "commit" => Listed(i) = {} /\ Touched(i) = {}

(* The loop ends, however often its iterations roll each other back.        *)
Termination == <>Finished

-----------------------------------------------------------------------------
(* The loop is run one iteration at a time: the memory a reader of it can   *)
(* rely on is the value buffered by the latest epoch whose commit was       *)
(* claimed, or memory once the record was committed.                        *)

Pending(a) == {e \in Claimed : e > lastCommit[a] /\ Index(e) \in writers[a]}

Run(e, m) ==
  [a \in Addr |-> IF StoresOf(e, a) = {} THEN m[a] ELSE Max(StoresOf(e, a))]

Loop == INSTANCE SequentialLoop WITH
  Iterations <- Len(Program),
  iteration <- nextCommit,
  memory <- [a \in Addr |-> IF Pending(a) = {} THEN mem[a]
                            ELSE wbuf[a][Index(Max(Pending(a)))]]

(* A commit takes many steps, of several threads at once, and yet the       *)
(* memory changes as if each iteration were run at the moment its commit is *)
(* claimed: no commit that comes late puts an earlier value over a later    *)
(* one, none is lost, and none brings a value the sequential run has not.   *)
ImplementsLoop == Loop!Spec
=============================================================================
