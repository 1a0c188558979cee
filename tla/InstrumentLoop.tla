--------------------------- MODULE InstrumentLoop ---------------------------
(***************************************************************************)
(* yarnc's instrumentation of the function around an analysed loop         *)
(* (yarnc/lib/YarnInstrumentLoop.cpp): the array of entries passed to      *)
(* yarn_exec_simple, and what the phis of the loop take from it when the   *)
(* call fails (the loop runs again) and when it succeeds (it is skipped).  *)
(* The properties are those of the analysis and of the function it yields. *)
(***************************************************************************)
EXTENDS LoopInfo

VARIABLES
  entryPhi,     \* per header phi: the index of the entry it takes, or None for its own
  exitPhi       \* per phi of the exit block: the index of the entry it takes

vars == <<analysis, entryPhi, exitPhi>>

Init == LoopInit /\ entryPhi = << >> /\ exitPhi = << >>

Headers == {deps[n].header : n \in 1 .. Len(deps)} \ {None}

\* index_size of the call to yarn_exec_simple.
IndexSize == Cardinality(valueInstrs)

StoreEntries ==
  /\ pc = "instrument" /\ pc' = "results" /\ next' = 1
  /\ entryPhi' = [h \in Headers |-> None]
  /\ UNCHANGED <<loop, block, sets, found, calls, exitPhi>>

\* Mutant of GetDependencyForValue: does not look at the exit value.
GetDependencyForEntry(v) ==
  LET having == {n \in 1 .. Len(deps) : v = deps[n].entry}
  IN  IF having = {} THEN {} ELSE {deps[Min(having)]}

\* The first dependency with v as its entry or exit value.
GetDependencyForValue(v) ==
  LET having == {n \in 1 .. Len(deps) : v \in {deps[n].entry, deps[n].footer}}
  IN  IF having = {} THEN {} ELSE {deps[Min(having)]}

TakesFrom(v, n) ==
  /\ entryPhi' = [h \in Headers |->
       IF entryPhi[h] = None /\ \E lv \in GetDependencyForValue(v) : lv.header = h
       THEN n ELSE entryPhi[h]]
  /\ pc' = IF \E lv \in GetDependencyForValue(v) : lv.header = None THEN "fault" ELSE pc

LoadResult ==
  /\ pc = "results" /\ next <= Len(entries) /\ next' = next + 1
  /\ TakesFrom(entries[next].entry, next)
  /\ UNCHANGED <<loop, block, sets, found, calls, exitPhi>>

UpdateExit ==
  /\ pc = "results" /\ next > Len(entries) /\ pc' = "done"
  /\ LET exits == {n \in 1 .. Len(entries) : entries[n].exit # None}
     IN  exitPhi' = [f \in {entries[n].exit : n \in exits} |->
                       CHOOSE n \in exits : entries[n].exit = f]
  /\ UNCHANGED <<loop, cursor, sets, found, calls, entryPhi>>

Ended == pc \in {"done", "dropped", "fault"}

Next ==
  \/ LoopNext /\ UNCHANGED <<entryPhi, exitPhi>>
  \/ StoreEntries \/ LoadResult \/ UpdateExit
  \/ Ended /\ UNCHANGED vars

Spec == Init /\ [][Next]_vars
FairSpec == Spec /\ WF_vars(Next)

-----------------------------------------------------------------------------
(* Properties of the analysis                                               *)

Analysed == pc \in {"keep", "instrument", "results", "done"}

\* Is the gap <<b, k>> before instruction i whenever i runs?
Precedes(pos, i) ==
  /\ pos[2] < Len(loop.code[pos[1]])
  /\ IF pos[1] = i[1] THEN pos[2] < i[2] ELSE Dominates(pos[1], i[1])

\* The call that loads a dependency runs before every use of its value
\* (YarnLoopInfo.h:391-392, findLoadPos).
LoadsDominate ==
  \A c \in valueInstrs : c.type = "load" => \A i \in Uses(c.value) : Precedes(c.pos, i)

\* A value is stored after it is computed, and not in front of that in the same block
\* (findStorePos, YarnLoopInfo.h:394-396).
StoredValueDefined ==
  \A c \in valueInstrs :
    LET d == Definition(c.value)
    IN  c.type = "store" /\ d[1] = c.pos[1] => d[2] <= c.pos[2]

\* The ways through one iteration, to the latch or out of the loop, and what they begin with.
Ways ==
  LET Onward(b) == (loop.succ[b] \cap Blocks) \ {Header}
      Along[n \in 1 .. Len(loop.order)] ==
        IF n = 1 THEN {<<Header>>}
        ELSE UNION {{Append(way, b) : b \in Onward(way[n - 1])} : way \in Along[n - 1]}
  IN  UNION Range(Along)

\* How far along a way a block is, 0 if it is not on it.
Rank(way, b) == Max({0} \cup {k \in 1 .. Len(way) : way[k] = b})

\* Is the value of a call computed by the time that the way comes to the call?
Computed(way, c) ==
  LET d == Definition(c.value)
  IN  \/ d[1] \notin Blocks
      \/ Rank(way, d[1]) \in 1 .. Rank(way, c.pos[1]) - 1
      \/ d[1] = c.pos[1] /\ d[2] <= c.pos[2]

\* What was stored last under an index on a way, None if it was not there yet: of two
\* calls inserted in the same gap the one inserted last comes first, as both are put next
\* to the same instruction.
LastStored(way, index) ==
  LET on == {c \in valueInstrs :
               c.type = "store" /\ c.index = index /\ Rank(way, c.pos[1]) > 0}
      Before(x, y) == x[1] < y[1] \/ (x[1] = y[1] /\ x[2] <= y[2])
      Later(c, d) == \/ Rank(way, c.pos[1]) > Rank(way, d.pos[1])
                     \/ c.pos[1] = d.pos[1] /\ c.pos[2] > d.pos[2]
                     \/ c.pos = d.pos /\ Before(c.nth, d.nth)
  IN  {IF Computed(way, c) THEN c.value ELSE None : c \in {d \in on : \A e \in on : Later(d, e)}}

\* Is the memory of the dependency right at the end of a way if its value there is v?
Holds(n, way, v) ==
  LET last == LastStored(way, n - 1)
  IN  IF last = {} THEN v = deps[n].header ELSE v \in last

\* Is a value of the dependency merged by a phi inside the loop?
Merged(n) ==
  \E c \in valueInstrs : /\ c.type = "store" /\ c.index = n - 1
                         /\ \E i \in Instructions : /\ i[1] # Header /\ Instr(i).op = "phi"
                                                   /\ Instr(i).name = c.value

\* At the end of an iteration the memory of a dependency holds the value that the next
\* iteration, or the code after the loop, takes on that way: not an older one, nor one of
\* another branch, nor one that is computed only after the call that stores it
\* (processHeaderPHINode, processFooterPHINode, processValueInstrs, findStorePos).  A merged
\* value is excepted: it is stored in front of its phi, against StoredValueDefined.
ValuesStored ==
  Analysed =>
    \A n \in {m \in 1 .. Len(deps) : ~Merged(m)}, way \in Ways :
      LET last == way[Len(way)]
      IN  /\ last = Latch /\ deps[n].header # None => Holds(n, way, deps[n].iteration)
          /\ \A f \in Range(loop.footer) : \A k \in 1 .. Len(f.args) :
               f.name = deps[n].footer /\ f.from[k] = last => Holds(n, way, f.args[k])

-----------------------------------------------------------------------------
(* Properties of the function                                               *)

\* A pointer list holds exactly the stored pointers that always alias, and each access
\* through one of them is replaced once.
PointersOnce ==
  Analysed =>
    /\ \A m, n \in 1 .. Len(pointers) : \A p \in Range(pointers[m]), q \in Range(pointers[n]) :
         m = n <=> (p = q \/ <<p, q>> \in loop.must)
    /\ \A i \in Instructions :
         Instr(i).op \in {"load", "store"} /\ Instr(i).args[1] \in storeSet =>
           Cardinality({c \in pointerInstrs : c.instr = i}) = 1

\* An index passed to yarn_dep_load_fast or yarn_dep_store_fast is one of the table that
\* yarn_exec_simple is asked for.
IndexInTable == Analysed => \A c \in valueInstrs : c.index < IndexSize

\* Every access that is replaced goes through one record of the tracker: one call for an
\* access through a pointer (processPointers, processPointerInstrs), and an index of the
\* table for a value (dependency.c:457-484).
RecordsRight == PointersOnce /\ IndexInTable

\* Whatever the loop reads and does not compute itself is passed to the function that
\* runs the iterations, whose arguments are all null.
InvariantsPassed ==
  pc \in {"instrument", "results", "done"} =>
    \A i \in Instructions : \A v \in Range(Instr(i).args) :
      IsLoopInvariant(v) /\ ~IsHeaderPhi(i) => v \in passed

\* If yarn_exec_simple fails, every dependency goes on from what was computed of it.
FallbackStarts ==
  pc = "done" => \A n \in 1 .. Len(deps) : deps[n].header # None => entryPhi[deps[n].header] = n

\* The array passed to yarn_exec_simple carries all values there and back: what the
\* iterations need from outside (YarnLoopInfo.h:308-309, YarnInstrumentLoop.cpp:860-867),
\* and what the loop goes on from if the call fails (YarnInstrumentLoop.cpp:1025-1026).
HandoverRight == InvariantsPassed /\ FallbackStarts

\* The compiler asserts nothing that is wrong, follows no null pointer and no recursion
\* without end, for loops whose variables are updated by instructions that the search for
\* writes comes to, and are carried from one iteration to the next
\* (findLoadPos, findWriteInstructions, findStorePos, instrumentSrcFct).
NoFault == pc # "fault"

\* The compiler comes to an end with a loop that stores to what it loads from by the same
\* pointer, and loads from nothing else (processLoop, processPointers).
Finishes == <>Ended
=============================================================================
