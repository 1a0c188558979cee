------------------------------ MODULE LoopInfo ------------------------------
(***************************************************************************)
(* yarnc's analysis of one loop (yarnc/lib/YarnLoopInfo.cpp): which values *)
(* and pointers iterations depend on each other through, and where calls   *)
(* that load and store them have to be inserted.                           *)
(*                                                                         *)
(* A loop is a control flow graph of basic blocks, each a sequence of      *)
(* instructions that ends with its terminator; the blocks outside the loop *)
(* that define values for it are given too.  An instruction is named by    *)
(* the value it defines; a constant or an argument is a value that none    *)
(* defines.  The passes of LLVM that run before this one have brought the  *)
(* loop into simplified, loop-closed form.                                 *)
(***************************************************************************)
EXTENDS Naturals, FiniteSets, Sequences, FiniteSetsExt, Functions

CONSTANTS
  Loops,         \* the loops given to the analysis
  Header,        \* the block that every iteration begins with
  Latch,         \* the only block that branches back to it
  Exit,          \* the only block that the loop leaves to
  None,          \* NULL
  MaxAliases     \* bound on the length of an alias list

ASSUME NoneAssumption == None \notin Nat
ASSUME AliasesAssumption == MaxAliases \in Nat

IsSeq(s) == s \in Seq(Range(s))

(* What LLVM promises of a loop: blocks and instructions are distinct, no   *)
(* block is empty, a load has a pointer and a store a value too, a phi of   *)
(* the header has one value from outside the loop and one from the latch,   *)
(* and no two blocks dominate each other.                                   *)
WellFormed(l) ==
  LET Places == UNION {{<<b, k>> : k \in 1 .. Len(l.code[b])} : b \in DOMAIN l.code}
      At(i) == l.code[i[1]][i[2]]
  IN  /\ IsSeq(l.order) /\ IsInjective(l.order) /\ Range(l.order) \subseteq DOMAIN l.code
      /\ \A b \in DOMAIN l.code : IsSeq(l.code[b]) /\ l.code[b] # << >>
      /\ \A i \in Places :
           /\ IsSeq(At(i).args) /\ None \notin Range(At(i).args) \cup {At(i).name}
           /\ At(i).op = "load" => Len(At(i).args) = 1
           /\ At(i).op = "store" => Len(At(i).args) = 2
           /\ At(i).op = "phi" /\ i[1] = Header => Len(At(i).args) = 2
      /\ \A i, j \in Places : At(i).name = At(j).name => i = j
      /\ IsSeq(l.footer)
      /\ \A f \in DOMAIN l.footer : l.footer[f].name # None /\ IsSeq(l.footer[f].args)
      /\ \A b, c \in Range(l.order) : {<<b, c>>, <<c, b>>} \subseteq l.dom => b = c

ASSUME LoopAssumption == \A l \in Loops : WellFormed(l)

VARIABLES
  loop,          \* the loop: order, succ, dom, pdom, code, footer, constants, must, may
  pc,            \* the part of the analysis that comes next
  block, next,   \* how far a loop of the code is: the block, and the element
  loadSet, storeSet,            \* pointers that are loaded from, stored to
  it,                           \* the iterator over loadSet
  deps, pointers, invariants,   \* Dependencies, Pointers, Invariants
  valueInstrs, pointerInstrs,   \* the calls to insert
  entries, passed               \* ArrayEntries: of dependencies, and the invariant ones

sets == <<loadSet, storeSet, it>>
found == <<deps, pointers, invariants>>
calls == <<valueInstrs, pointerInstrs, entries, passed>>
cursor == <<block, next>>
analysis == <<loop, pc, block, next, loadSet, storeSet, it, deps, pointers, invariants,
              valueInstrs, pointerInstrs, entries, passed>>

-----------------------------------------------------------------------------
(* The loop                                                                 *)

Blocks == Range(loop.order)
Instructions == UNION {{<<b, k>> : k \in 1 .. Len(loop.code[b])} : b \in Blocks}
AllInstructions == UNION {{<<b, k>> : k \in 1 .. Len(loop.code[b])} : b \in DOMAIN loop.code}
Instr(i) == loop.code[i[1]][i[2]]
Uses(v) == {i \in Instructions : v \in Range(Instr(i).args)}
InLoop(v) == \E i \in Instructions : Instr(i).name = v
IsInstruction(v) == \E i \in AllInstructions : Instr(i).name = v
OneOf(S) == CHOOSE x \in S : TRUE
Definition(v) == OneOf({i \in AllInstructions : Instr(i).name = v})
IsLoopInvariant(v) == ~InLoop(v) /\ v \notin loop.constants

\* DT and PDT, the dominator trees that LLVM has computed for the function.
Dominates(b, c) == <<b, c>> \in loop.dom
PostDominates(b, c) == <<b, c>> \in loop.pdom

\* The element of S that all others lead to.
Nearest(S, relation) == CHOOSE b \in S : \A c \in S : <<c, b>> \in relation

NearestCommonDominator(S) ==
  Nearest({b \in Blocks : \A c \in S : Dominates(b, c)}, loop.dom)
CommonPostDominators(S) == {b \in {e[1] : e \in loop.pdom} : \A c \in S : PostDominates(b, c)}
NearestCommonPostDominator(S) == Nearest(CommonPostDominators(S), loop.pdom)

-----------------------------------------------------------------------------
(* Where to load and store a value.  A position <<b, k>> is the gap after   *)
(* the k-th instruction of block b.                                         *)

\* Mutant of FindLoadPos: before the last read of the block.
FindLoadPosOfLast(v) ==
  LET b == NearestCommonDominator({i[1] : i \in Uses(v)})
      reads == {k \in 1 .. Len(loop.code[b]) : <<b, k>> \in Uses(v)}
  IN  IF reads # {} THEN <<b, Max(reads) - 1>> ELSE <<b, Len(loop.code[b])>>

FindLoadPos(v) ==
  LET b == NearestCommonDominator({i[1] : i \in Uses(v)})
      reads == {k \in 1 .. Len(loop.code[b]) : <<b, k>> \in Uses(v)}
  IN  IF reads # {} THEN <<b, Min(reads) - 1>> ELSE <<b, Len(loop.code[b])>>

Phis == {Instr(i).name : i \in {j \in AllInstructions : Instr(j).op = "phi"}}
Incoming(p) == Range(Instr(Definition(p)).args)

Feeds == [p \in Phis |-> Incoming(p) \cap Phis]

\* The phis that findWriteInstructions visits: v, and those that lead into a visited one.
\* It never comes back if it can go on for ever, that is among phis with a phi before each.
Visited(v) ==
  {p \in Phis : \A S \in SUBSET Phis : v \in S /\ (\A q \in S : Feeds[q] \subseteq S) => p \in S}
Recurs(v) ==
  \E S \in SUBSET Visited(v) : S # {} /\ \A p \in S : Feeds[p] \cap S # {}

\* Any instruction counts, also one outside the loop; constants and arguments do not.
FindWriteInstructions(v) ==
  IF v \in Phis
  THEN {w \in UNION {Incoming(p) : p \in Visited(v)} : IsInstruction(w)} \ Phis
  ELSE {v}

FindStorePos(v) ==
  LET writes == {Definition(w) : w \in FindWriteInstructions(v)}
      b == NearestCommonPostDominator({i[1] : i \in writes})
      after == {i[2] : i \in {j \in writes : j[1] = b}}
  IN  IF after # {} THEN <<b, Max(after)>> ELSE <<b, 0>>

\* There is no block to insert a load into.
LoadFaults(v) == Uses(v) = {}

\* v is no instruction (an assertion), the search for its writes never ends or finds none
\* (a null block), or their blocks lead to different ends of the function (an assertion).
StoreFaults(v) ==
  \/ ~IsInstruction(v)
  \/ v \in Phis /\ (Recurs(v) \/ FindWriteInstructions(v) = {})
  \/ CommonPostDominators({Definition(w)[1] : w \in FindWriteInstructions(v)}) = {}

-----------------------------------------------------------------------------
(* processLoop: the instructions of the loop                                *)

LoopInit ==
  /\ loop \in Loops
  /\ pc = "scan" /\ block = 1 /\ next = 1
  /\ loadSet = {} /\ storeSet = {} /\ it = None
  /\ deps = << >> /\ pointers = << >> /\ invariants = {}
  /\ valueInstrs = {} /\ pointerInstrs = {} /\ entries = << >> /\ passed = {}

Place == <<loop.order[block], next>>
Current == Instr(Place)
IsHeaderPhi(i) == i[1] = Header /\ Instr(i).op = "phi"

\* The next instruction; every block has one at least.
Scanning ==
  /\ pc = "scan" /\ block <= Len(loop.order)
  /\ IF next < Len(loop.code[loop.order[block]])
     THEN next' = next + 1 /\ UNCHANGED block
     ELSE block' = block + 1 /\ next' = 1

ProcessHeaderPHINode ==
  /\ Scanning /\ IsHeaderPhi(Place)
  /\ deps' = Append(deps, [header |-> Current.name, footer |-> None, entry |-> Current.args[1],
                           iteration |-> Current.args[2], exiting |-> {}])
  /\ UNCHANGED <<loop, pc, sets, pointers, invariants, calls>>

SeeStore ==
  /\ Scanning /\ Current.op = "store"
  /\ storeSet' = storeSet \cup {Current.args[1]}
  /\ loadSet' = loadSet \ {Current.args[1]}
  /\ UNCHANGED <<loop, pc, it, found, calls>>

SeeLoad ==
  /\ Scanning /\ Current.op = "load"
  /\ loadSet' = loadSet \cup ({Current.args[1]} \ storeSet)
  /\ UNCHANGED <<loop, pc, storeSet, it, found, calls>>

\* Mutant of ProcessInvariants: the first operand only.
ProcessInvariantsOfFirst ==
  /\ Scanning /\ ~IsHeaderPhi(Place) /\ Current.op \notin {"load", "store"}
  /\ invariants' = invariants \cup {v \in {Current.args[n] : n \in {1} \cap DOMAIN Current.args} :
                                       IsLoopInvariant(v)}
  /\ UNCHANGED <<loop, pc, sets, deps, pointers, calls>>

ProcessInvariants ==
  /\ Scanning /\ ~IsHeaderPhi(Place) /\ Current.op \notin {"load", "store"}
  /\ invariants' = invariants \cup {v \in Range(Current.args) : IsLoopInvariant(v)}
  /\ UNCHANGED <<loop, pc, sets, deps, pointers, calls>>

EndScan ==
  /\ pc = "scan" /\ block > Len(loop.order) /\ pc' = "stores"
  /\ UNCHANGED <<loop, cursor, sets, found, calls>>

-----------------------------------------------------------------------------
(* processPointers                                                          *)

\* Mutant of KnownAlias: not strict.
KnownAliasLoose(p, relation) ==
  {n \in 1 .. Len(pointers) :
     \E s \in storeSet \cap Range(pointers[n]) : <<s, p>> \in loop.must \cup loop.may}

\* The alias lists that isKnownAlias may find; storeMap has the stored pointers on them.
KnownAlias(p, relation) ==
  {n \in 1 .. Len(pointers) : \E s \in storeSet \cap Range(pointers[n]) : <<s, p>> \in relation}

Listed == UNION {Range(pointers[n]) : n \in 1 .. Len(pointers)}

\* storeSet is ordered by address: in any order.
AddStorePointer ==
  /\ pc = "stores"
  /\ \E p \in storeSet \ Listed :
       IF KnownAlias(p, loop.must) = {}
       THEN pointers' = Append(pointers, <<p>>)
       ELSE \E n \in KnownAlias(p, loop.must) :
              pointers' = [pointers EXCEPT ![n] = Append(@, p)]
  /\ UNCHANGED <<loop, pc, cursor, sets, deps, invariants, calls>>

EndStores ==
  /\ pc = "stores" /\ storeSet \subseteq Listed
  /\ IF loadSet = {} THEN pc' = "footer" /\ it' = None ELSE pc' = "loads" /\ it' \in loadSet
  /\ next' = 1
  /\ UNCHANGED <<loop, block, loadSet, storeSet, found, calls>>

\* No branch of the loop over loadSet advances its iterator.
LoadAliased ==
  /\ pc = "loads"
  /\ \E n \in KnownAlias(it, loop.must) :
       pointers' = IF Len(pointers[n]) < MaxAliases
                   THEN [pointers EXCEPT ![n] = Append(@, it)] ELSE pointers
  /\ UNCHANGED <<loop, pc, cursor, sets, deps, invariants, calls>>

LoadMayAlias ==
  /\ pc = "loads" /\ KnownAlias(it, loop.must) = {}
  /\ KnownAlias(it, loop.may) # {}
  /\ pointers' = IF Len(pointers) < MaxAliases THEN Append(pointers, <<it>>) ELSE pointers
  /\ UNCHANGED <<loop, pc, cursor, sets, deps, invariants, calls>>

LoadOnly ==
  /\ pc = "loads" /\ KnownAlias(it, loop.must \cup loop.may) = {}
  /\ invariants' = invariants \cup {p \in {it} : ~InLoop(p)}
  /\ UNCHANGED <<loop, pc, cursor, sets, deps, pointers, calls>>

-----------------------------------------------------------------------------
(* The phis of the exit block: footer[f] = [name, args, from].  An exiting  *)
(* value of a dependency is a pair <<f, k>>: the k-th argument of footer[f]. *)

ExitingValue(x) == loop.footer[x[1]].args[x[2]]

Exiting(f) ==
  {<<f, k>> : k \in {n \in DOMAIN loop.footer[f].args : InLoop(loop.footer[f].args[n])}}

ExitOnly(f) == [header |-> None, footer |-> loop.footer[f].name, entry |-> None,
                iteration |-> None, exiting |-> Exiting(f)]

Completed(d, f) ==
  [header |-> d.header, footer |-> loop.footer[f].name, entry |-> d.entry,
   iteration |-> d.iteration, exiting |-> d.exiting \cup Exiting(f)]

Footers == pc = "footer" /\ next <= Len(loop.footer) /\ next' = next + 1

\* Mutant of ProcessFooterPHINode: never one of the header.
ProcessFooterPHINodeAsNew ==
  /\ Footers
  /\ deps' = Append(deps, ExitOnly(next))
  /\ UNCHANGED <<loop, pc, block, sets, pointers, invariants, calls>>

ProcessFooterPHINode ==
  /\ Footers
  /\ LET known == {n \in 1 .. Len(deps) :
                     /\ deps[n].header # None
                     /\ \E x \in Exiting(next) : ExitingValue(x) = deps[n].iteration}
     IN  deps' = IF known = {} THEN Append(deps, ExitOnly(next))
                 ELSE [deps EXCEPT ![Max(known)] = Completed(@, next)]
  /\ UNCHANGED <<loop, pc, block, sets, pointers, invariants, calls>>

EndFooter ==
  /\ pc = "footer" /\ next > Len(loop.footer)
  /\ pc' = "values" /\ next' = 1
  /\ UNCHANGED <<loop, block, sets, found, calls>>

-----------------------------------------------------------------------------
(* processArrayEntries, processValueInstrs and processPointerInstrs         *)

IsExitOnly(lv) == lv.entry = None

\* The values that are stored: that of the next iteration, and the exiting values.
Iteration == <<0, 0>>
ValueOf(lv, x) == IF x = Iteration THEN lv.iteration ELSE ExitingValue(x)
StoredValues(lv) ==
  IF IsExitOnly(lv) THEN lv.exiting
  ELSE {Iteration} \cup {x \in lv.exiting : ExitingValue(x) # lv.iteration}

ValueFaults(lv) ==
  \/ ~IsExitOnly(lv) /\ LoadFaults(lv.header)
  \/ \E x \in StoredValues(lv) : StoreFaults(ValueOf(lv, x))

LoadInstrs(lv, index) ==
  IF IsExitOnly(lv) THEN {}
  ELSE {[type |-> "load", value |-> lv.header, pos |-> FindLoadPos(lv.header),
         index |-> index, nth |-> Iteration]}
StoreInstrs(lv, index) ==
  {[type |-> "store", value |-> ValueOf(lv, x), pos |-> FindStorePos(ValueOf(lv, x)),
    index |-> index, nth |-> x] : x \in StoredValues(lv)}
ValueInstrs(lv, index) == LoadInstrs(lv, index) \cup StoreInstrs(lv, index)

AddValueEntry ==
  /\ pc = "values" /\ next <= Len(deps) /\ next' = next + 1
  /\ LET lv == deps[next]
     IN  /\ entries' = Append(entries, [entry |-> lv.entry, exit |-> lv.footer])
         /\ pc' = IF ValueFaults(lv) THEN "fault" ELSE pc
         /\ valueInstrs' = IF ValueFaults(lv) THEN valueInstrs
                           ELSE valueInstrs \cup ValueInstrs(lv, next - 1)
  /\ UNCHANGED <<loop, block, sets, found, pointerInstrs, passed>>

\* One call for every operand of a load or store that is the k-th alias of a list.
PointerInstrs(n, k) ==
  {[alias |-> <<n, k>>, instr |-> u[1], operand |-> u[2]] : u \in
     {w \in Uses(pointers[n][k]) \X {1, 2} :
        /\ Instr(w[1]).op \in {"load", "store"}
        /\ w[2] \in DOMAIN Instr(w[1]).args
        /\ Instr(w[1]).args[w[2]] = pointers[n][k]}}

\* The order of the invariant entries does not matter.
AddPointerEntries ==
  /\ pc = "values" /\ next > Len(deps) /\ pc' = "keep"
  /\ pointerInstrs' = UNION {UNION {PointerInstrs(n, k) : k \in 1 .. Len(pointers[n])} :
                               n \in 1 .. Len(pointers)}
  /\ passed' = {p \in Listed : ~InLoop(p)} \cup invariants
  /\ UNCHANGED <<loop, cursor, sets, found, valueInstrs, entries>>

-----------------------------------------------------------------------------
(* YarnLoopInfo: is the loop worth instrumenting?                           *)

Ratio ==
  (Cardinality(pointerInstrs) + Cardinality(valueInstrs)) \div Cardinality(Instructions)

KeepLoop ==
  /\ pc = "keep" /\ pc' = IF Ratio = 0 THEN "instrument" ELSE "dropped"
  /\ UNCHANGED <<loop, cursor, sets, found, calls>>

LoopNext ==
  \/ ProcessHeaderPHINode \/ SeeStore \/ SeeLoad \/ ProcessInvariants \/ EndScan
  \/ AddStorePointer \/ EndStores \/ LoadAliased \/ LoadMayAlias \/ LoadOnly
  \/ ProcessFooterPHINode \/ EndFooter \/ AddValueEntry \/ AddPointerEntries \/ KeepLoop
=============================================================================
