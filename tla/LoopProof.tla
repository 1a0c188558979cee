------------------------------ MODULE LoopProof ------------------------------
(***************************************************************************)
(* What the instrumentation of a loop guarantees, for every loop, and what *)
(* the loop has to be like for it: the analysis checks none of it, it      *)
(* relies on the passes of LLVM that run before.                           *)
(*                                                                         *)
(* Inductive says of each part of the analysis what it has collected so    *)
(* far; it holds for every loop.  On it rest the theorems, each for the    *)
(* loops that its hypothesis describes.                                    *)
(***************************************************************************)
EXTENDS InstrumentLoop, FiniteSetTheorems, TLAPS

-----------------------------------------------------------------------------
(* The loops                                                                *)

HeaderPhis == {i \in Instructions : IsHeaderPhi(i)}
StoreInstructions == {i \in Instructions : Instr(i).op = "store"}
StoredPointers == {Instr(i).args[1] : i \in StoreInstructions}
Exits == UNION {Exiting(f) : f \in DOMAIN loop.footer}
EntryOf(i) == Instr(i).args[1]
IterationOf(i) == Instr(i).args[2]

\* One of the blocks that read a header phi precedes the others.
ReadsGathered ==
  \A h \in HeaderPhis : Uses(Instr(h).name) # {} =>
    \E i \in Uses(Instr(h).name) : \A j \in Uses(Instr(h).name) : Dominates(i[1], j[1])

\* The alias analysis is consistent on the stored pointers.
AliasesConsistent ==
  /\ \A p, q \in StoredPointers : <<p, q>> \in loop.must => <<q, p>> \in loop.must
  /\ \A p, q, r \in StoredPointers :
       {<<p, q>>, <<q, r>>} \subseteq loop.must => <<p, r>> \in loop.must

\* No pointer that is stored to is itself stored.
PointersNotStored ==
  \A i \in Instructions : Instr(i).op \in {"load", "store"} =>
    \A k \in DOMAIN Instr(i).args : Instr(i).args[k] \in StoredPointers => k = 1

\* Every value that is used after the loop is computed by it.
ExitsComputed == \A f \in DOMAIN loop.footer : Exiting(f) # {}

\* No two variables start from the same value, nor from a value after the loop.
EntriesApart ==
  /\ \A i, j \in HeaderPhis : EntryOf(i) = EntryOf(j) => i = j
  /\ \A i \in HeaderPhis : \A f \in DOMAIN loop.footer : EntryOf(i) # loop.footer[f].name

\* Is v an operand that processLoop looks at?
Examined(v) ==
  \/ v \in StoredPointers
  \/ \E i \in Instructions : /\ Instr(i).op \notin {"load", "store"} /\ ~IsHeaderPhi(i)
                             /\ v \in Range(Instr(i).args)

\* What the loop stores and does not compute, it uses otherwise too.
StoredExamined ==
  \A i \in StoreInstructions : \A v \in Range(Instr(i).args) : IsLoopInvariant(v) => Examined(v)

\* A variable that is carried to the next iteration is read in the loop, and updated by an
\* instruction: not by a constant or an argument.
VariablesUpdated ==
  \A i \in HeaderPhis : Uses(Instr(i).name) # {} /\ IsInstruction(IterationOf(i))

\* No phi takes its value from itself, through other phis: each set of them has one that takes
\* from none of the set.
PhisFounded == \A S \in SUBSET Phis : S # {} => \E p \in S : Feeds[p] \cap S = {}

\* A phi takes some value that an instruction computes.
PhisComputed == \A p \in Phis : \E v \in Incoming(p) : IsInstruction(v)

\* All blocks lead to one end of the function.
OneEnd == CommonPostDominators(DOMAIN loop.code) # {}

UpdatesFound == VariablesUpdated /\ PhisFounded /\ PhisComputed /\ OneEnd

\* Does the phi f of the exit block take the value that i takes from the latch?
Continues(f, i) == \E x \in Exiting(f) : ExitingValue(x) = IterationOf(i)

\* If a variable is used only after the loop, one is used only in the loop.
ExitsLed ==
  \/ \A f \in DOMAIN loop.footer : \E i \in HeaderPhis : Continues(f, i)
  \/ \E i \in HeaderPhis : \A f \in DOMAIN loop.footer : ~Continues(f, i)

-----------------------------------------------------------------------------
(* What the analysis has collected so far                                   *)

\* The instructions that processLoop has gone by.
Seen ==
  IF pc = "scan"
  THEN {i \in Instructions : \E n \in 1 .. Len(loop.order) :
          i[1] = loop.order[n] /\ (n < block \/ (n = block /\ i[2] < next))}
  ELSE Instructions

ScanInv ==
  /\ loop \in Loops
  /\ block \in Nat \ {0} /\ next \in Nat \ {0}
  /\ pc = "scan" =>
       /\ block \in 1 .. Len(loop.order) + 1
       /\ block <= Len(loop.order) => next \in 1 .. Len(loop.code[loop.order[block]])

\* Pointers and values of the instructions.
SetsInv ==
  /\ storeSet = {Instr(i).args[1] : i \in {j \in Seen : Instr(j).op = "store"}}
  /\ \A i \in Seen : Instr(i).op = "load" => Instr(i).args[1] \in storeSet \cup loadSet
  /\ \A i \in Seen : Instr(i).op \notin {"load", "store"} /\ ~IsHeaderPhi(i) =>
       {v \in Range(Instr(i).args) : IsLoopInvariant(v)} \subseteq invariants

\* The dependency d stands for a phi of the header, or only for one of the exit block.
FromHeader(d) ==
  \E i \in Seen :
    /\ IsHeaderPhi(i)
    /\ d = [header |-> Instr(i).name, footer |-> d.footer, entry |-> EntryOf(i),
            iteration |-> IterationOf(i), exiting |-> d.exiting]
    /\ d.exiting \subseteq Exits
    /\ d.footer # None =>
         \E f \in DOMAIN loop.footer : d.footer = loop.footer[f].name /\ Continues(f, i)
FromExit(d) ==
  \E f \in DOMAIN loop.footer : d = ExitOnly(f) /\ \A i \in HeaderPhis : ~Continues(f, i)

\* Every header phi has one dependency, and these come first.
DepsInv ==
  /\ IsSeq(deps)
  /\ \A d \in Range(deps) : FromHeader(d) \/ (pc # "scan" /\ FromExit(d))
  /\ \A i \in Seen : IsHeaderPhi(i) => \E n \in 1 .. Len(deps) : deps[n].header = Instr(i).name
  /\ \A m, n \in 1 .. Len(deps) : deps[n].header # None =>
       /\ deps[m].header = deps[n].header => m = n
       /\ m < n => deps[m].header # None

Before == {"scan", "stores", "loads"}
Filled == {"keep", "dropped", "instrument", "results", "done"}

\* A stored pointer is on one list, once.
Lists ==
  /\ IsSeq(pointers)
  /\ \A n \in 1 .. Len(pointers) : IsSeq(pointers[n]) /\ Range(pointers[n]) \subseteq storeSet
Apart ==
  \A m, n \in 1 .. Len(pointers) : \A j \in 1 .. Len(pointers[m]), k \in 1 .. Len(pointers[n]) :
    pointers[m][j] = pointers[n][k] => m = n /\ j = k
PointersInv ==
  pc # "loads" =>
    /\ Lists /\ Apart
    /\ pc = "scan" => pointers = << >>
    /\ pc \notin Before => storeSet \subseteq Listed /\ loadSet = {}

\* The entries and calls of the dependencies that processArrayEntries has gone by.
EntriesInv ==
  /\ IsSeq(entries) /\ Len(entries) <= Len(deps)
  /\ pc \in Before \cup {"footer"} => entries = << >>
  /\ pc = "values" => next = Len(entries) + 1
  /\ pc \in Filled => Len(entries) = Len(deps)
  /\ pc # "fault" =>
       /\ \A n \in 1 .. Len(entries) :
            /\ entries[n] = [entry |-> deps[n].entry, exit |-> deps[n].footer]
            /\ ~ValueFaults(deps[n])
       /\ valueInstrs = UNION {ValueInstrs(deps[n], n - 1) : n \in 1 .. Len(entries)}

\* The calls and entries of the pointers.
KeepInv ==
  pc \in Filled =>
    /\ pointerInstrs = UNION {UNION {PointerInstrs(n, k) : k \in 1 .. Len(pointers[n])} :
                                n \in 1 .. Len(pointers)}
    /\ passed = {p \in Listed : ~InLoop(p)} \cup invariants

Inductive ==
  ScanInv /\ SetsInv /\ DepsInv /\ PointersInv /\ EntriesInv /\ KeepInv

\* Are two pointers known to be the same?
Related(p, q) == p = q \/ <<p, q>> \in loop.must

\* The lists are the classes of the relation.
AliasInv ==
  pc # "loads" =>
    \A m, n \in 1 .. Len(pointers) : \A p \in Range(pointers[m]), q \in Range(pointers[n]) :
      m = n <=> Related(p, q)

\* Every header phi takes the entry of its own dependency.
ResultInv ==
  /\ pc = "results" =>
       /\ next \in 1 .. Len(entries) + 1
       /\ entryPhi \in [Headers -> Nat \cup {None}]
       /\ \A n \in 1 .. Len(deps) : deps[n].header # None =>
            entryPhi[deps[n].header] = IF n < next THEN n ELSE None
  /\ FallbackStarts

-----------------------------------------------------------------------------
(* Sequences                                                                *)

\* The elements of a sequence.
LEMMA SeqFacts ==
  ASSUME NEW s, IsSeq(s)
  PROVE  /\ Len(s) \in Nat /\ DOMAIN s = 1 .. Len(s)
         /\ Range(s) = {s[n] : n \in 1 .. Len(s)}
         /\ \A n \in 1 .. Len(s) : s[n] \in Range(s)
  BY DEF IsSeq, Range

\* A sequence with one element more.
LEMMA AppendFacts ==
  ASSUME NEW s, IsSeq(s), NEW e
  PROVE  /\ IsSeq(Append(s, e))
         /\ Len(Append(s, e)) = Len(s) + 1
         /\ \A n \in 1 .. Len(s) : Append(s, e)[n] = s[n]
         /\ Append(s, e)[Len(s) + 1] = e
         /\ Range(Append(s, e)) = Range(s) \cup {e}
  <1> DEFINE S == Range(s) \cup {e}
             t == Append(s, e)
  <1>1. s \in Seq(S)
    BY DEF IsSeq
  <1>2. /\ t \in Seq(S) /\ Len(t) = Len(s) + 1
        /\ \A n \in 1 .. Len(s) : t[n] = s[n]
        /\ t[Len(s) + 1] = e
    BY <1>1
  <1>3. Range(t) = S
    BY <1>1, <1>2, SeqFacts DEF Range
  <1> QED
    BY <1>2, <1>3 DEF IsSeq

\* A sequence with another element.
Replaced(s, m, e) == [s EXCEPT ![m] = e]
LEMMA ReplaceFacts ==
  ASSUME NEW s, IsSeq(s), NEW m \in 1 .. Len(s), NEW e
  PROVE  /\ IsSeq(Replaced(s, m, e))
         /\ Len(Replaced(s, m, e)) = Len(s)
         /\ \A n \in 1 .. Len(s) : Replaced(s, m, e)[n] = IF n = m THEN e ELSE s[n]
  <1> DEFINE S == Range(s) \cup {e}
             t == Replaced(s, m, e)
  <1>1. s \in Seq(S) /\ e \in S
    BY DEF IsSeq
  <1>2. /\ t \in Seq(S) /\ Len(t) = Len(s)
        /\ \A n \in 1 .. Len(s) : t[n] = IF n = m THEN e ELSE s[n]
    BY <1>1 DEF Replaced
  <1>3. t \in Seq(Range(t))
    <2> HIDE DEF t
    <2>1. t \in [1 .. Len(t) -> Range(t)] /\ Len(t) \in Nat
      BY <1>2 DEF Range
    <2> QED
      BY <2>1
  <1> QED
    BY <1>2, <1>3 DEF IsSeq

\* The empty sequence.
LEMMA EmptyFacts == IsSeq(<< >>) /\ Len(<< >>) = 0 /\ Range(<< >>) = {}
  BY DEF IsSeq, Range

(* A set of naturals has a least element.                                   *)
LEMMA Smallest ==
  ASSUME NEW T, T \subseteq Nat, T # {}
  PROVE  \E x \in T : \A y \in T : x <= y
  <1> DEFINE B(n) == 0 .. n - 1
             F == {B(n) : n \in T}
  <1>1. F \subseteq FiniteSubsetsOf(Nat) /\ F # {}
    <2>1. \A n \in T : B(n) \in FiniteSubsetsOf(Nat)
      BY FS_Interval DEF FiniteSubsetsOf
    <2> QED
      BY <2>1
  <1>2. PICK X \in F : \A Y \in F : ~ (<<Y, X>> \in StrictSubsetOrdering(Nat))
    <2> HIDE DEF F
    <2> QED
      BY <1>1, FS_StrictSubsetOrderingWellFounded, WFMin
  <1>3. PICK n \in T : X = B(n)
    OBVIOUS
  <1>4. ASSUME NEW y \in T, y < n
        PROVE  FALSE
    <2>1. B(y) \in F
      OBVIOUS
    <2>2. B(y) \subseteq B(n) /\ y \in B(n) /\ y \notin B(y)
      BY <1>4
    <2>3. <<B(y), X>> \in StrictSubsetOrdering(Nat)
      BY <2>2, <1>3 DEF StrictSubsetOrdering
    <2> QED
      BY <1>2, <2>1, <2>3
  <1> QED
    BY <1>4

(* A bounded set of integers has a greatest element.                        *)
LEMMA Greatest ==
  ASSUME NEW T, T \subseteq Int, T # {}, NEW b \in Int, \A x \in T : x <= b
  PROVE  \E x \in T : \A y \in T : y <= x
  <1> DEFINE U == {b - x : x \in T}
  <1>1. U \subseteq Nat /\ U # {}
    <2>1. \A x \in T : b - x \in Nat
      OBVIOUS
    <2> QED
      BY <2>1
  <1>2. PICK m \in U : \A n \in U : m <= n
    <2> HIDE DEF U
    <2> QED
      BY <1>1, Smallest
  <1>3. PICK x \in T : m = b - x
    OBVIOUS
  <1>4. ASSUME NEW y \in T
        PROVE  y <= x
    <2>1. b - y \in U
      OBVIOUS
    <2>2. m <= b - y
      BY <1>2, <2>1
    <2> QED
      BY <1>3, <2>2
  <1> QED
    BY <1>4

\* Max and Min of the numbers in a range.
LEMMA MaxMin ==
  ASSUME NEW N \in Nat, NEW T, T \subseteq 1 .. N, T # {}
  PROVE  /\ Max(T) \in T
         /\ Min(T) \in T /\ \A n \in T : Min(T) <= n
  <1>1. T \subseteq Nat /\ T \subseteq Int /\ N \in Int /\ \A n \in T : n <= N
    OBVIOUS
  <1>2. \E x \in T : \A y \in T : y <= x
    BY <1>1, Greatest
  <1>3. \E x \in T : \A y \in T : x <= y
    BY <1>1, Smallest
  <1>4. Max(T) \in T
    BY <1>1, <1>2 DEF Max
  <1>5. Min(T) \in T /\ \A n \in T : Min(T) <= n
    BY <1>1, <1>3 DEF Min
  <1> QED
    BY <1>4, <1>5

-----------------------------------------------------------------------------
(* The instructions of the loop                                             *)

\* What a place in the loop is.
LEMMA InstructionIs ==
  ASSUME NEW i
  PROVE  i \in Instructions <=> \E b \in Blocks : \E k \in 1 .. Len(loop.code[b]) : i = <<b, k>>
  BY DEF Instructions

\* The loop has the form that LLVM gives it.
LEMMA LoopFacts ==
  ASSUME loop \in Loops
  PROVE  /\ IsSeq(loop.order) /\ IsInjective(loop.order)
         /\ \A b \in Blocks : IsSeq(loop.code[b]) /\ Len(loop.code[b]) >= 1
         /\ \A i, j \in Instructions : Instr(i).name = Instr(j).name => i = j
         /\ Instructions \subseteq AllInstructions
         /\ IsSeq(loop.footer)
         /\ \A f \in DOMAIN loop.footer : loop.footer[f].name # None /\ IsSeq(loop.footer[f].args)
         /\ \A b, c \in Blocks : Dominates(b, c) /\ Dominates(c, b) => b = c
  <1>1. WellFormed(loop)
    BY LoopAssumption
  <1>2. Blocks \subseteq DOMAIN loop.code
        /\ \A b \in Blocks : IsSeq(loop.code[b]) /\ loop.code[b] # << >>
    BY <1>1 DEF WellFormed, Blocks
  <1>3. \A b \in Blocks : Len(loop.code[b]) >= 1
    BY <1>2 DEF IsSeq
  <1>4. Instructions \subseteq AllInstructions
    BY <1>2 DEF Instructions, AllInstructions
  <1>5. \A i, j \in AllInstructions : Instr(i).name = Instr(j).name => i = j
    BY <1>1 DEF WellFormed, AllInstructions, Instr
  <1> QED
    BY <1>1, <1>2, <1>3, <1>4, <1>5 DEF WellFormed, Blocks, Dominates

\* Its instructions have the operands that the analysis expects.
LEMMA InstructionFacts ==
  ASSUME loop \in Loops, NEW i \in Instructions
  PROVE  /\ IsSeq(Instr(i).args) /\ None \notin Range(Instr(i).args) /\ Instr(i).name # None
         /\ Instr(i).op \in {"load", "store"} => 1 \in DOMAIN Instr(i).args
         /\ Instr(i).op = "load" => Range(Instr(i).args) = {Instr(i).args[1]}
         /\ IsHeaderPhi(i) => Len(Instr(i).args) = 2 /\ Instr(i).op \notin {"load", "store"}
  <1>1. WellFormed(loop)
    BY LoopAssumption
  <1>2. /\ IsSeq(Instr(i).args) /\ None \notin Range(Instr(i).args) /\ Instr(i).name # None
        /\ Instr(i).op = "load" => Len(Instr(i).args) = 1
        /\ Instr(i).op = "store" => Len(Instr(i).args) = 2
        /\ IsHeaderPhi(i) => Len(Instr(i).args) = 2
    <2>1. i \in AllInstructions
      BY LoopFacts
    <2> QED
      BY <1>1, <2>1 DEF WellFormed, AllInstructions, Instr, IsHeaderPhi
  <1>3. DOMAIN Instr(i).args = 1 .. Len(Instr(i).args)
    BY <1>2, SeqFacts
  <1>4. Instr(i).op = "load" => Range(Instr(i).args) = {Instr(i).args[1]}
    BY <1>2, <1>3 DEF Range
  <1>5. Instr(i).op \in {"load", "store"} => 1 \in DOMAIN Instr(i).args
    <2>1. \A n \in {1, 2} : 1 \in 1 .. n
      OBVIOUS
    <2> QED
      BY <1>2, <1>3, <2>1
  <1>6. IsHeaderPhi(i) => Instr(i).op \notin {"load", "store"}
    BY DEF IsHeaderPhi
  <1> QED
    BY <1>2, <1>4, <1>5, <1>6

\* As the loop never changes, neither does what is defined of it.
LEMMA Static ==
  ASSUME loop' = loop
  PROVE  /\ Blocks' = Blocks /\ Instructions' = Instructions /\ Exits' = Exits
         /\ HeaderPhis' = HeaderPhis /\ StoredPointers' = StoredPointers
         /\ \A i : Instr(i)' = Instr(i) /\ (IsHeaderPhi(i)' <=> IsHeaderPhi(i))
         /\ \A i : EntryOf(i)' = EntryOf(i) /\ IterationOf(i)' = IterationOf(i)
         /\ \A v : (InLoop(v)' <=> InLoop(v)) /\ (IsLoopInvariant(v)' <=> IsLoopInvariant(v))
         /\ \A v : Uses(v)' = Uses(v)
         /\ \A f : Exiting(f)' = Exiting(f) /\ ExitOnly(f)' = ExitOnly(f)
         /\ \A x : ExitingValue(x)' = ExitingValue(x)
         /\ \A f, i : Continues(f, i)' <=> Continues(f, i)
  <1>1. /\ Blocks' = Blocks /\ Instructions' = Instructions
        /\ \A i : Instr(i)' = Instr(i) /\ (IsHeaderPhi(i)' <=> IsHeaderPhi(i))
        /\ \A i : EntryOf(i)' = EntryOf(i) /\ IterationOf(i)' = IterationOf(i)
    BY DEF Blocks, Instructions, Instr, IsHeaderPhi, EntryOf, IterationOf
  <1>2. /\ HeaderPhis' = HeaderPhis /\ StoredPointers' = StoredPointers
        /\ \A v : Uses(v)' = Uses(v)
        /\ \A v : (InLoop(v)' <=> InLoop(v))
    BY <1>1 DEF HeaderPhis, StoredPointers, StoreInstructions, Uses, InLoop
  <1>3. \A v : IsLoopInvariant(v)' <=> IsLoopInvariant(v)
    BY <1>2 DEF IsLoopInvariant
  <1>4. /\ \A f : Exiting(f)' = Exiting(f)
        /\ \A x : ExitingValue(x)' = ExitingValue(x)
    BY <1>2 DEF Exiting, ExitingValue
  <1>5. /\ Exits' = Exits
        /\ \A f : ExitOnly(f)' = ExitOnly(f)
        /\ \A f, i : Continues(f, i)' <=> Continues(f, i)
    BY <1>1, <1>4 DEF Exits, ExitOnly, Continues
  <1> QED
    BY <1>1, <1>2, <1>3, <1>4, <1>5

\* An instruction has one place, which comes before another or after it.
LEMMA OneBlock ==
  ASSUME loop \in Loops, NEW m \in 1 .. Len(loop.order), NEW n \in 1 .. Len(loop.order),
         loop.order[m] = loop.order[n]
  PROVE  m = n
  BY LoopFacts DEF IsInjective, IsSeq

\* processLoop goes by the instructions one after the other.
LEMMA Advance ==
  ASSUME ScanInv, Scanning, loop' = loop, pc' = pc
  PROVE  Place \in Instructions \ Seen /\ Seen' = Seen \cup {Place} /\ ScanInv'
  <1> DEFINE N == Len(loop.order)
             b == loop.order[block]
             L == Len(loop.code[b])
             At(i, m, k) == \E n \in 1 .. N : i[1] = loop.order[n] /\ (n < m \/ (n = m /\ i[2] < k))
  <1>1. /\ loop \in Loops /\ pc = "scan" /\ N \in Nat
        /\ block \in 1 .. N /\ next \in 1 .. L /\ b \in Blocks /\ L \in Nat
        /\ block \in Int /\ next \in Int
    BY LoopFacts, SeqFacts DEF ScanInv, Scanning, Blocks
  <1>2. Place \in Instructions
    BY <1>1, InstructionIs DEF Place
  <1>3. Place \notin Seen
    <2>1. SUFFICES ASSUME NEW n \in 1 .. N, b = loop.order[n], n < block \/ (n = block /\ next < next)
                   PROVE  FALSE
      BY <1>1 DEF Seen, Place
    <2> QED
      BY <1>1, <2>1, OneBlock
  <1>4. Instructions' = Instructions
    BY Static
  <1>5. Seen = {i \in Instructions : At(i, block, next)}
    BY <1>1 DEF Seen
  <1>6. Seen' = {i \in Instructions : At(i, block', next')}
    BY <1>1, <1>4 DEF Seen
  <1>7. ASSUME NEW i \in Instructions
        PROVE  At(i, block', next') <=> At(i, block, next) \/ i = Place
    <2>0. PICK c \in Blocks : \E k \in 1 .. Len(loop.code[c]) : i = <<c, k>>
      BY InstructionIs
    <2>1. PICK k \in 1 .. Len(loop.code[c]) : i = <<c, k>>
      BY <2>0
    <2>2. PICK n \in 1 .. N : c = loop.order[n]
      BY <1>1, <2>1, LoopFacts, SeqFacts DEF Blocks, Range
    <2>3. k \in Int /\ n \in Int /\ i[1] = c /\ i[2] = k /\ (n = block => k <= L)
      BY <2>1, <2>2
    <2>4. \A m \in 1 .. N : c = loop.order[m] => m = n
      BY <1>1, <2>2, OneBlock
    <2>5. \A m, j : At(i, m, j) <=> n < m \/ (n = m /\ k < j)
      BY <2>2, <2>3, <2>4
    <2>6. i = Place <=> n = block /\ k = next
      BY <1>1, <2>1, <2>2, <2>4 DEF Place
    <2>7. CASE next < L
      <3>1. next' = next + 1 /\ block' = block
        BY <2>7, <1>1 DEF Scanning
      <3> HIDE DEF At
      <3> QED
        BY <1>1, <2>3, <2>5, <2>6, <3>1
    <2>8. CASE ~(next < L)
      <3>1. next' = 1 /\ block' = block + 1 /\ next = L
        BY <2>8, <1>1 DEF Scanning
      <3>2. k >= 1
        BY <2>1
      <3>3. n < block + 1 <=> n < block \/ n = block
        BY <1>1, <2>3
      <3> HIDE DEF At
      <3> QED
        BY <1>1, <2>3, <2>5, <2>6, <3>1, <3>2, <3>3
    <2> QED
      BY <2>7, <2>8
  <1>8. Seen' = Seen \cup {Place}
    <2> HIDE DEF At
    <2> QED
      BY <1>2, <1>5, <1>6, <1>7
  <1>9. ScanInv'
    <2>1. block' \in 1 .. N + 1 /\ next' \in Nat \ {0} /\ block' \in Nat \ {0}
      BY <1>1 DEF Scanning
    <2>2. CASE next < L
      BY <1>1, <2>1, <2>2 DEF ScanInv, Scanning
    <2>3. CASE ~(next < L)
      <3>1. next' = 1 /\ block' = block + 1
        BY <2>3, <1>1 DEF Scanning
      <3>2. block' <= N => 1 \in 1 .. Len(loop.code[loop.order[block']])
        <4> SUFFICES ASSUME block' <= N PROVE 1 \in 1 .. Len(loop.code[loop.order[block']])
          OBVIOUS
        <4>1. loop.order[block'] \in Blocks
          BY <1>1, <2>1, LoopFacts, SeqFacts DEF Blocks
        <4>2. Len(loop.code[loop.order[block']]) \in Nat /\ Len(loop.code[loop.order[block']]) >= 1
          BY <1>1, <4>1, LoopFacts, SeqFacts
        <4> QED
          BY <4>2
      <3> QED
        BY <1>1, <2>1, <3>1, <3>2 DEF ScanInv
    <2> QED
      BY <2>2, <2>3
  <1> QED
    BY <1>2, <1>3, <1>8, <1>9

\* In the end it has gone by all of them.
LEMMA AllSeen ==
  ASSUME ScanInv, pc = "scan", block > Len(loop.order)
  PROVE  Seen = Instructions
  <1>1. loop \in Loops /\ Len(loop.order) \in Nat /\ block \in Int
    BY LoopFacts, SeqFacts DEF ScanInv
  <1>2. ASSUME NEW i \in Instructions
        PROVE  i \in Seen
    <2>0. PICK c \in Blocks : \E k \in 1 .. Len(loop.code[c]) : i = <<c, k>>
      BY InstructionIs
    <2>1. PICK k \in 1 .. Len(loop.code[c]) : i = <<c, k>>
      BY <2>0
    <2>2. PICK n \in 1 .. Len(loop.order) : c = loop.order[n]
      BY <1>1, <2>1, LoopFacts, SeqFacts DEF Blocks
    <2>3. n < block /\ i[1] = loop.order[n]
      BY <1>1, <2>1, <2>2
    <2> QED
      BY <2>3 DEF Seen
  <1> QED
    BY <1>2 DEF Seen

-----------------------------------------------------------------------------
(* What the analysis has collected, step by step                            *)

ScanStep == Scanning /\ UNCHANGED <<loop, pc>>

\* The other steps leave Seen alone.
LaterStep ==
  /\ loop' = loop
  /\ pc # "scan" /\ pc' # "scan"
  /\ storeSet' = storeSet /\ loadSet' = loadSet /\ invariants \subseteq invariants'

\* A step looks at an instruction, is the last of processLoop, or comes after it.
LEMMA Kinds ==
  ASSUME [Next]_vars
  PROVE  \/ ScanStep /\ (ProcessHeaderPHINode \/ SeeStore \/ SeeLoad \/ ProcessInvariants)
         \/ EndScan
         \/ LaterStep
         \/ UNCHANGED vars
  <1>1. CASE ProcessHeaderPHINode \/ SeeStore \/ SeeLoad \/ ProcessInvariants
    BY <1>1 DEF ProcessHeaderPHINode, SeeStore, SeeLoad, ProcessInvariants, ScanStep,
       Scanning
  <1>2. CASE AddStorePointer \/ EndStores \/ LoadAliased \/ LoadMayAlias \/ LoadOnly
    BY <1>2 DEF AddStorePointer, EndStores, LoadAliased, LoadMayAlias, LoadOnly,
       LaterStep,
                sets, found, cursor
  <1>3. CASE ProcessFooterPHINode \/ EndFooter \/ AddValueEntry \/ AddPointerEntries \/ KeepLoop
    BY <1>3 DEF ProcessFooterPHINode, Footers, EndFooter, AddValueEntry,
       AddPointerEntries,
                KeepLoop, LaterStep, sets, found
  <1>4. CASE StoreEntries \/ LoadResult \/ UpdateExit
    BY <1>4 DEF StoreEntries, LoadResult, UpdateExit, TakesFrom, LaterStep, sets, found
  <1>5. CASE UNCHANGED vars
    BY <1>5
  <1> QED
    BY <1>1, <1>2, <1>3, <1>4, <1>5 DEF Next, LoopNext

\* After processLoop every instruction is seen.
LEMMA SeenAfter ==
  ASSUME ScanInv, EndScan \/ LaterStep
  PROVE  Seen' = Instructions /\ Seen = Instructions
  <1>1. loop' = loop /\ pc' # "scan"
    BY DEF EndScan, LaterStep
  <1>2. Seen' = Instructions
    BY <1>1, Static DEF Seen
  <1>3. CASE EndScan
    BY <1>2, <1>3, AllSeen DEF EndScan
  <1>4. CASE LaterStep
    BY <1>2, <1>4 DEF LaterStep, Seen
  <1> QED
    BY <1>3, <1>4

\* A step that changes nothing changes nothing of what is defined.
LEMMA Stuttering ==
  ASSUME UNCHANGED vars
  PROVE  /\ UNCHANGED analysis /\ loop' = loop
         /\ Seen' = Seen
         /\ ScanInv' = ScanInv
  BY Static DEF vars, analysis, Seen, ScanInv

\* ScanInv is inductive.
LEMMA ScanInductive ==
  ASSUME ScanInv, [Next]_vars
  PROVE  ScanInv'
  <1>1. CASE ScanStep
    BY <1>1, Advance DEF ScanStep
  <1>2. CASE EndScan
    BY <1>2 DEF EndScan, ScanInv, cursor
  <1>3. CASE LaterStep
    <2>1. loop' = loop /\ pc' # "scan" /\ pc # "scan"
      BY <1>3 DEF LaterStep
    <2>2. block' \in Nat \ {0} /\ next' \in Nat \ {0}
      <3>1. CASE Next
        <4>1. block' = block
          BY <2>1, <3>1 DEF Next, LoopNext, AddStorePointer, EndStores, LoadAliased,
             LoadMayAlias,
            LoadOnly, ProcessFooterPHINode, Footers, EndFooter, AddValueEntry, AddPointerEntries,
            KeepLoop, StoreEntries, LoadResult, UpdateExit, cursor, vars, analysis,
            ProcessHeaderPHINode, SeeStore, SeeLoad, ProcessInvariants, EndScan, Scanning
        <4>2. next' = next \/ next' = next + 1 \/ next' = 1
          BY <2>1, <3>1 DEF Next, LoopNext, AddStorePointer, EndStores, LoadAliased,
             LoadMayAlias,
            LoadOnly, ProcessFooterPHINode, Footers, EndFooter, AddValueEntry, AddPointerEntries,
            KeepLoop, StoreEntries, LoadResult, UpdateExit, cursor, vars, analysis,
            ProcessHeaderPHINode, SeeStore, SeeLoad, ProcessInvariants, EndScan, Scanning
        <4> QED
          BY <4>1, <4>2 DEF ScanInv
      <3>2. CASE UNCHANGED vars
        BY <3>2 DEF vars, analysis, ScanInv
      <3> QED
        BY <3>1, <3>2
    <2> QED
      BY <2>1, <2>2 DEF ScanInv
  <1>4. CASE UNCHANGED vars
    BY <1>4, Stuttering
  <1> QED
    BY <1>1, <1>2, <1>3, <1>4, Kinds

\* SetsInv is inductive.
LEMMA SetsInductive ==
  ASSUME ScanInv, SetsInv, [Next]_vars
  PROVE  SetsInv'
  <1> DEFINE Stored(S) == {Instr(i).args[1] : i \in {j \in S : Instr(j).op = "store"}}
  <1>1. CASE EndScan \/ LaterStep
    <2>1. /\ loop' = loop /\ Seen' = Seen
          /\ storeSet' = storeSet /\ loadSet' = loadSet /\ invariants \subseteq invariants'
      BY <1>1, SeenAfter DEF EndScan, LaterStep, sets, found
    <2> QED
      BY <2>1, Static DEF SetsInv
  <1>2. CASE UNCHANGED vars
    <2>1. /\ loop' = loop /\ Seen' = Seen
          /\ storeSet' = storeSet /\ loadSet' = loadSet /\ invariants = invariants'
      BY <1>2, Stuttering DEF vars, analysis
    <2> QED
      BY <2>1, Static DEF SetsInv
  <1>3. ASSUME ScanStep, ProcessHeaderPHINode \/ SeeStore \/ SeeLoad \/ ProcessInvariants
        PROVE  SetsInv'
    <2>1. loop' = loop /\ Seen' = Seen \cup {Place} /\ Place \in Instructions
      BY <1>3, Advance DEF ScanStep
    <2>2. loop \in Loops
      BY DEF ScanInv
    <2>3. IsHeaderPhi(Place) => Current.op \notin {"load", "store"}
      BY <2>1, <2>2, InstructionFacts DEF Current
    <2>4. /\ storeSet' = IF Current.op = "store" THEN storeSet \cup {Current.args[1]} ELSE storeSet
          /\ Current.op = "load" => Current.args[1] \in storeSet' \cup loadSet'
          /\ loadSet \subseteq loadSet' \cup storeSet'
          /\ invariants \subseteq invariants'
          /\ Current.op \notin {"load", "store"} /\ ~IsHeaderPhi(Place) =>
               {v \in Range(Current.args) : IsLoopInvariant(v)} \subseteq invariants'
      BY <1>3, <2>3 DEF ProcessHeaderPHINode, SeeStore, SeeLoad, ProcessInvariants,
         sets, found
    <2>5. storeSet' = Stored(Seen')
      <3>1. storeSet = Stored(Seen)
        BY DEF SetsInv
      <3> QED
        BY <2>1, <2>4, <3>1 DEF Current
    <2>6. storeSet' = {Instr(i)'.args[1] : i \in {j \in Seen' : Instr(j)'.op = "store"}}
      BY <2>1, <2>5, Static
    <2>7. ASSUME NEW i \in Seen', Instr(i).op = "load"
          PROVE  Instr(i).args[1] \in storeSet' \cup loadSet'
      <3>1. CASE i = Place
        BY <2>4, <2>7, <3>1 DEF Current
      <3>2. CASE i \in Seen
        <4>1. Instr(i).args[1] \in storeSet \cup loadSet
          BY <2>7, <3>2 DEF SetsInv
        <4> QED
          BY <2>4, <4>1
      <3> QED
        BY <2>1, <3>1, <3>2
    <2>8. ASSUME NEW i \in Seen', Instr(i).op \notin {"load", "store"}, ~IsHeaderPhi(i)
          PROVE  {v \in Range(Instr(i).args) : IsLoopInvariant(v)} \subseteq invariants'
      <3>1. CASE i = Place
        BY <2>4, <2>8, <3>1 DEF Current
      <3>2. CASE i \in Seen
        <4>1. {v \in Range(Instr(i).args) : IsLoopInvariant(v)} \subseteq invariants
          BY <2>8, <3>2 DEF SetsInv
        <4> QED
          BY <2>4, <4>1
      <3> QED
        BY <2>1, <3>1, <3>2
    <2> QED
      BY <2>1, <2>6, <2>7, <2>8, Static DEF SetsInv
  <1> QED
    BY <1>1, <1>2, <1>3, Kinds

\* What was seen stays seen.
LEMMA SeenGrows ==
  ASSUME ScanInv, [Next]_vars
  PROVE  loop' = loop /\ Seen \subseteq Seen' /\ \A d : FromHeader(d) => FromHeader(d)'
  <1>1. loop' = loop /\ Seen \subseteq Seen'
    <2>1. CASE EndScan \/ LaterStep
      BY <2>1, SeenAfter DEF EndScan, LaterStep
    <2>2. CASE UNCHANGED vars
      BY <2>2, Stuttering
    <2>3. CASE ScanStep
      BY <2>3, Advance DEF ScanStep
    <2> QED
      BY <2>1, <2>2, <2>3, Kinds
  <1> QED
    BY <1>1, Static DEF FromHeader

\* A dependency of the header has a header, one of the exit block has none.
LEMMA HeaderOf ==
  ASSUME loop \in Loops, NEW d
  PROVE  /\ FromHeader(d) => d.header # None /\ d.entry # None /\
              \E i \in Seen : IsHeaderPhi(i) /\ d.header = Instr(i).name
         /\ FromExit(d) => d.header = None /\ d.entry = None
  <1>1. ASSUME FromHeader(d)
        PROVE  d.header # None /\ d.entry # None /\
                 \E i \in Seen : IsHeaderPhi(i) /\ d.header = Instr(i).name
    <2>1. PICK i \in Seen : IsHeaderPhi(i) /\ d.header = Instr(i).name /\ d.entry = EntryOf(i)
      BY <1>1 DEF FromHeader
    <2>2. i \in Instructions
      BY DEF Seen
    <2>3. 1 \in 1 .. Len(Instr(i).args)
      BY <2>1, <2>2, InstructionFacts
    <2>4. EntryOf(i) \in Range(Instr(i).args)
      BY <2>2, <2>3, InstructionFacts, SeqFacts DEF EntryOf
    <2> QED
      BY <2>1, <2>2, <2>4, InstructionFacts
  <1>2. FromExit(d) => d.header = None /\ d.entry = None
    BY DEF FromExit, ExitOnly
  <1> QED
    BY <1>1, <1>2

\* A header phi gets a dependency of its own.
LEMMA HeaderDeps ==
  ASSUME ScanInv, DepsInv, ScanStep, ProcessHeaderPHINode
  PROVE  DepsInv'
  <1> DEFINE N == Len(deps)
  <1>0. PICK d : d = [header |-> Current.name, footer |-> None, entry |-> Current.args[1],
                      iteration |-> Current.args[2], exiting |-> {}]
    OBVIOUS
  <1>1. /\ loop' = loop /\ pc' = "scan" /\ pc = "scan" /\ deps' = Append(deps, d)
        /\ IsHeaderPhi(Place) /\ loop \in Loops
    BY <1>0 DEF ScanStep, Scanning, ProcessHeaderPHINode, ScanInv
  <1>2. Place \in Instructions \ Seen /\ Seen' = Seen \cup {Place}
    BY Advance DEF ScanStep
  <1>3. /\ IsSeq(deps') /\ Len(deps') = N + 1 /\ N \in Nat
        /\ \A n \in 1 .. N : deps'[n] = deps[n]
        /\ deps'[N + 1] = d
    BY <1>1, AppendFacts, SeqFacts DEF DepsInv
  <1>4. FromHeader(d)' /\ d.header = Instr(Place).name
    <2>1. /\ d = [header |-> Instr(Place).name, footer |-> d.footer, entry |-> EntryOf(Place),
                  iteration |-> IterationOf(Place), exiting |-> d.exiting]
          /\ d.footer = None /\ d.exiting = {} /\ Place \in Seen'
      BY <1>0, <1>2 DEF EntryOf, IterationOf, Current
    <2>2. \E i \in Seen' :
            /\ IsHeaderPhi(i)
            /\ d = [header |-> Instr(i).name, footer |-> d.footer, entry |-> EntryOf(i),
                    iteration |-> IterationOf(i), exiting |-> d.exiting]
      BY <1>1, <2>1
    <2>3. FromHeader(d)'
      BY <1>1, <2>1, <2>2, Static DEF FromHeader
    <2>4. d.header = Instr(Place).name
      BY <1>0 DEF Current
    <2> QED
      BY <2>3, <2>4
  <1>5. \A e \in Range(deps) : FromHeader(e)
    BY <1>1 DEF DepsInv
  <1>6. \A e : FromHeader(e) => FromHeader(e)'
    BY <1>1, <1>2, Static DEF FromHeader
  <1>7. \A e \in Range(deps') : FromHeader(e)'
    <2>1. Range(deps') = Range(deps) \cup {d}
      BY <1>1, AppendFacts DEF DepsInv
    <2> QED
      BY <2>1, <1>4, <1>5, <1>6
  <1>8. \A n \in 1 .. N : deps[n].header # None /\ deps[n].header # d.header
    <2>1. ASSUME NEW n \in 1 .. N
          PROVE  deps[n].header # None /\ deps[n].header # d.header
      <3>0. FromHeader(deps[n])
        BY <1>5, SeqFacts DEF DepsInv
      <3>1. PICK i \in Seen : deps[n].header = Instr(i).name
        BY <1>1, <3>0, HeaderOf
      <3>2. i \in Instructions /\ i # Place
        BY <1>2 DEF Seen
      <3>3. Instr(i).name # Instr(Place).name
        BY <1>1, <1>2, <3>2, LoopFacts
      <3> QED
        BY <1>1, <1>4, <3>0, <3>1, <3>3, HeaderOf
    <2> QED
      BY <2>1
  <1>9. d.header # None
    BY <1>1, <1>2, <1>4, InstructionFacts
  <1>10. \A i \in Seen' : IsHeaderPhi(i) => \E n \in 1 .. N + 1 : deps'[n].header = Instr(i).name
    <2>1. ASSUME NEW i \in Seen', IsHeaderPhi(i)
          PROVE  \E n \in 1 .. N + 1 : deps'[n].header = Instr(i).name
      <3>1. CASE i = Place
        BY <1>3, <1>4, <3>1
      <3>2. CASE i \in Seen
        BY <1>3, <2>1, <3>2 DEF DepsInv
      <3> QED
        BY <1>2, <3>1, <3>2
    <2> QED
      BY <2>1
  <1>11. ASSUME NEW m \in 1 .. N + 1, NEW n \in 1 .. N + 1
         PROVE  /\ deps'[m].header = deps'[n].header => m = n
                /\ deps'[m].header # None
    <2>1. (m \in 1 .. N \/ m = N + 1) /\ (n \in 1 .. N \/ n = N + 1)
      BY <1>3
    <2>2. \A k, j \in 1 .. N : deps[k].header = deps[j].header => k = j
      BY <1>8 DEF DepsInv
    <2> QED
      BY <1>3, <1>8, <1>9, <2>1, <2>2
  <1>12. \A i : (IsHeaderPhi(i)' <=> IsHeaderPhi(i)) /\ Instr(i)' = Instr(i)
    BY <1>1, Static
  <1>13. /\ \A i \in Seen' : IsHeaderPhi(i)' => \E n \in 1 .. Len(deps') : deps'[n].header = Instr(i)'.name
         /\ \A m, n \in 1 .. Len(deps') : deps'[n].header # None =>
              /\ deps'[m].header = deps'[n].header => m = n
              /\ m < n => deps'[m].header # None
    BY <1>3, <1>10, <1>11, <1>12
  <1>14. Range(deps)' = Range(deps')
    BY DEF Range
  <1> QED
    BY <1>1, <1>3, <1>7, <1>13, <1>14 DEF DepsInv


\* A phi of the exit block completes a dependency of the header, or gets one of its own.
LEMMA FooterDeps ==
  ASSUME ScanInv, DepsInv, ProcessFooterPHINode, [Next]_vars
  PROVE  DepsInv'
  <1> DEFINE N == Len(deps)
             known == {n \in 1 .. N : /\ deps[n].header # None
                                      /\ \E x \in Exiting(next) : ExitingValue(x) = deps[n].iteration}
             name == loop.footer[next].name
  <1>1. /\ loop' = loop /\ pc = "footer" /\ pc' = "footer" /\ loop \in Loops
        /\ next \in DOMAIN loop.footer /\ Exiting(next) \subseteq Exits
        /\ IsSeq(deps) /\ N \in Nat
    <2>1. loop \in Loops /\ next \in Nat \ {0} /\ next <= Len(loop.footer) /\ IsSeq(loop.footer)
      BY LoopFacts DEF ScanInv, ProcessFooterPHINode, Footers
    <2>2. next \in DOMAIN loop.footer
      BY <2>1, SeqFacts
    <2>3. Exiting(next) \subseteq Exits
      BY <2>2 DEF Exits
    <2> QED
      BY <2>1, <2>2, <2>3, SeqFacts DEF ProcessFooterPHINode, Footers, DepsInv
  <1>2. Seen' = Seen /\ Seen = Instructions
    BY <1>1, Static DEF Seen
  <1>3. \A d : (FromHeader(d) => FromHeader(d)') /\ (FromExit(d) => FromExit(d)')
    <2>1. \A d : FromHeader(d) => FromHeader(d)'
      BY SeenGrows
    <2>2. \A d : FromExit(d) => FromExit(d)'
      BY <1>1, Static DEF FromExit
    <2> QED
      BY <2>1, <2>2
  <1>4. \A d \in Range(deps) : FromHeader(d) \/ FromExit(d)
    BY DEF DepsInv
  <1>5. \A i : (IsHeaderPhi(i)' <=> IsHeaderPhi(i)) /\ Instr(i)' = Instr(i)
    BY <1>1, Static
  <1>6. /\ \A i \in Seen : IsHeaderPhi(i) => \E n \in 1 .. N : deps[n].header = Instr(i).name
        /\ \A k, n \in 1 .. N : deps[n].header # None =>
             (deps[k].header = deps[n].header => k = n) /\ (k < n => deps[k].header # None)
    BY DEF DepsInv
  <1>7. Range(deps)' = Range(deps')
    BY DEF Range
  <1>8. CASE known = {}
    <2>0. PICK d : d = ExitOnly(next)
      OBVIOUS
    <2>1. deps' = Append(deps, d)
      BY <1>8, <2>0 DEF ProcessFooterPHINode
    <2>2. FromExit(d) /\ d.header = None
      <3>1. ASSUME NEW i \in HeaderPhis, Continues(next, i)
            PROVE  FALSE
        <4>1. i \in Seen /\ IsHeaderPhi(i) /\ i \in Instructions
          BY <1>2 DEF HeaderPhis
        <4>2. PICK n \in 1 .. N : deps[n].header = Instr(i).name
          BY <1>6, <4>1
        <4>3. PICK e : e = deps[n]
          OBVIOUS
        <4>4. e.header # None
          BY <1>1, <4>1, <4>2, <4>3, InstructionFacts
        <4>5. FromHeader(e)
          BY <1>1, <1>4, <4>3, <4>4, SeqFacts, HeaderOf
        <4>6. PICK j \in Seen : e.header = Instr(j).name /\ e.iteration = IterationOf(j)
          BY <4>5 DEF FromHeader
        <4>7. j = i
          BY <1>1, <1>2, <4>1, <4>2, <4>3, <4>6, LoopFacts
        <4>8. n \in known
          BY <3>1, <4>3, <4>4, <4>6, <4>7 DEF Continues
        <4> QED
          BY <1>8, <4>8
      <3>2. d.header = None
        BY <2>0 DEF ExitOnly
      <3> QED
        BY <1>1, <2>0, <3>1, <3>2 DEF FromExit
    <2>3. /\ IsSeq(deps') /\ Len(deps') = N + 1 /\ Range(deps') = Range(deps) \cup {d}
          /\ \A n \in 1 .. N : deps'[n] = deps[n]
          /\ deps'[N + 1] = d
      BY <1>1, <2>1, AppendFacts
    <2> HIDE DEF N, known
    <2>4. 1 .. N + 1 = (1 .. N) \cup {N + 1}
      BY <1>1
    <2>5. \A e \in Range(deps') : FromHeader(e)' \/ FromExit(e)'
      BY <1>3, <1>4, <2>2, <2>3
    <2>6. \A i \in Seen' : IsHeaderPhi(i)' =>
            \E n \in 1 .. Len(deps') : deps'[n].header = Instr(i)'.name
      BY <1>2, <1>5, <1>6, <2>3, <2>4
    <2>7. ASSUME NEW k \in 1 .. N + 1, NEW n \in 1 .. N + 1, deps'[n].header # None
          PROVE  (deps'[k].header = deps'[n].header => k = n) /\ (k < n => deps'[k].header # None)
      <3>1. n \in 1 .. N
        BY <2>2, <2>3, <2>4, <2>7
      <3>2. CASE k \in 1 .. N
        BY <1>6, <2>3, <2>7, <3>1, <3>2
      <3>3. CASE k = N + 1
        BY <1>1, <2>2, <2>3, <2>7, <3>1, <3>3
      <3> QED
        BY <2>4, <3>2, <3>3
    <2> QED
      BY <1>1, <1>7, <2>3, <2>5, <2>6, <2>7 DEF DepsInv
  <1>9. CASE known # {}
    <2>0. PICK m : m = Max(known)
      OBVIOUS
    <2>1. m \in known
      BY <1>1, <1>9, <2>0, MaxMin
    <2>2. PICK d, e : /\ d = deps[m]
                      /\ e = Completed(d, next)
      OBVIOUS
    <2>3. deps' = Replaced(deps, m, e)
      <3>1. deps' = IF known = {} THEN Append(deps, ExitOnly(next))
                    ELSE [deps EXCEPT ![Max(known)] = Completed(deps[Max(known)], next)]
        BY DEF ProcessFooterPHINode
      <3> HIDE DEF known, name
      <3> QED
        BY <1>9, <2>0, <2>2, <3>1 DEF Replaced
    <2>4. /\ IsSeq(deps') /\ Len(deps') = N
          /\ \A n \in 1 .. N : deps'[n] = IF n = m THEN e ELSE deps[n]
      <3>1. m \in 1 .. Len(deps)
        BY <2>1
      <3> HIDE DEF known, name
      <3> QED
        BY <1>1, <2>3, <3>1, ReplaceFacts
    <2>5. FromHeader(d)
      BY <1>1, <1>4, <2>1, <2>2, SeqFacts, HeaderOf
    <2>6. FromHeader(e)' /\ e.header = d.header
      <3>1. PICK i \in Seen :
              /\ IsHeaderPhi(i)
              /\ d = [header |-> Instr(i).name, footer |-> d.footer, entry |-> EntryOf(i),
                      iteration |-> IterationOf(i), exiting |-> d.exiting]
              /\ d.exiting \subseteq Exits
        BY <2>5 DEF FromHeader
      <3>2. d.iteration = IterationOf(i)
        BY <3>1
      <3>3. Continues(next, i)
        BY <2>1, <2>2, <3>2 DEF Continues
      <3>4. e = [header |-> Instr(i).name, footer |-> name, entry |-> EntryOf(i),
                 iteration |-> IterationOf(i), exiting |-> d.exiting \cup Exiting(next)]
        <4>1. PICK a, x : a = d.footer /\ x = d.exiting
          OBVIOUS
        <4>2. d = [header |-> Instr(i).name, footer |-> a, entry |-> EntryOf(i),
                   iteration |-> IterationOf(i), exiting |-> x]
          BY <3>1, <4>1
        <4>3. e = [header |-> Instr(i).name, footer |-> name, entry |-> EntryOf(i),
                   iteration |-> IterationOf(i), exiting |-> x \cup Exiting(next)]
          <5> HIDE DEF name, known
          <5> QED
            BY <2>2, <4>2 DEF Completed, name
        <4> QED
          BY <4>1, <4>3
      <3>5. FromHeader(e)
        BY <1>1, <3>1, <3>3, <3>4 DEF FromHeader
      <3> QED
        BY <1>3, <3>1, <3>4, <3>5
    <2>7. \A n \in 1 .. N : deps'[n].header = deps[n].header
      BY <2>2, <2>4, <2>6
    <2>8. \A c \in Range(deps') : FromHeader(c)' \/ FromExit(c)'
      <3>1. ASSUME NEW c \in Range(deps')
            PROVE  c = e \/ c \in Range(deps)
        <4>1. PICK n \in 1 .. N : c = deps'[n]
          BY <2>4, SeqFacts
        <4> QED
          BY <1>1, <2>4, <4>1, SeqFacts
      <3> QED
        BY <1>3, <1>4, <2>6, <3>1
    <2> HIDE DEF N, known
    <2> QED
      BY <1>1, <1>2, <1>5, <1>6, <1>7, <2>4, <2>7, <2>8 DEF DepsInv
  <1> QED
    BY <1>8, <1>9


\* The other steps leave the dependencies alone.
LEMMA DepsUnchanged ==
  ASSUME [Next]_vars, ~ProcessHeaderPHINode, ~ProcessFooterPHINode
  PROVE  deps' = deps
  <1>1. CASE SeeStore \/ SeeLoad \/ ProcessInvariants \/ EndScan
    BY <1>1 DEF SeeStore, SeeLoad, ProcessInvariants, EndScan, found
  <1>2. CASE AddStorePointer \/ EndStores \/ LoadAliased \/ LoadMayAlias \/ LoadOnly
    BY <1>2 DEF AddStorePointer, EndStores, LoadAliased, LoadMayAlias, LoadOnly, found
  <1>3. CASE EndFooter \/ AddValueEntry \/ AddPointerEntries \/ KeepLoop
    BY <1>3 DEF EndFooter, AddValueEntry, AddPointerEntries, KeepLoop, found
  <1>4. CASE StoreEntries \/ LoadResult \/ UpdateExit
    BY <1>4 DEF StoreEntries, LoadResult, UpdateExit, found
  <1>5. CASE UNCHANGED vars
    BY <1>5 DEF vars, analysis
  <1> QED
    BY <1>1, <1>2, <1>3, <1>4, <1>5 DEF Next, LoopNext

\* DepsInv is inductive.
LEMMA DepsInductive ==
  ASSUME ScanInv, DepsInv, [Next]_vars
  PROVE  DepsInv'
  <1>1. CASE ProcessHeaderPHINode
    BY <1>1, HeaderDeps DEF ProcessHeaderPHINode, ScanStep
  <1>2. CASE ProcessFooterPHINode
    BY <1>2, FooterDeps
  <1>3. CASE ~ProcessHeaderPHINode /\ ~ProcessFooterPHINode
    <2>1. deps' = deps /\ loop' = loop /\ Seen \subseteq Seen' /\ Range(deps)' = Range(deps)
      BY <1>3, DepsUnchanged, SeenGrows DEF Range
    <2>2. \A i \in Seen' : IsHeaderPhi(i) => i \in Seen
      <3>1. CASE EndScan \/ LaterStep
        BY <3>1, SeenAfter
      <3>2. CASE UNCHANGED vars
        BY <3>2, Stuttering
      <3>3. CASE ScanStep /\ (SeeStore \/ SeeLoad \/ ProcessInvariants)
        <4>1. Seen' = Seen \cup {Place}
          BY <3>3, Advance DEF ScanStep
        <4>2. ~IsHeaderPhi(Place)
          BY <3>3 DEF SeeStore, SeeLoad, ProcessInvariants, IsHeaderPhi, Current
        <4> QED
          BY <4>1, <4>2
      <3> QED
        BY <1>3, <3>1, <3>2, <3>3, Kinds
    <2>3. \A d \in Range(deps') : FromHeader(d)' \/ (pc' # "scan" /\ FromExit(d)')
      <3>1. \A d : (FromHeader(d) => FromHeader(d)') /\ (FromExit(d) => FromExit(d)')
        <4>1. \A d : FromHeader(d) => FromHeader(d)'
          BY SeenGrows
        <4>2. \A d : FromExit(d) => FromExit(d)'
          BY <2>1, Static DEF FromExit
        <4> QED
          BY <4>1, <4>2
      <3>2. pc # "scan" => pc' # "scan"
        BY Kinds DEF ScanStep, EndScan, LaterStep, vars, analysis
      <3>3. Range(deps') = Range(deps)
        BY <2>1
      <3> QED
        BY <3>1, <3>2, <3>3 DEF DepsInv
    <2>4. \A i : (IsHeaderPhi(i)' <=> IsHeaderPhi(i)) /\ Instr(i)' = Instr(i)
      BY <2>1, Static
    <2>5. \A i \in Seen' : IsHeaderPhi(i)' => \E n \in 1 .. Len(deps') : deps'[n].header = Instr(i)'.name
      BY <2>1, <2>2, <2>4 DEF DepsInv
    <2>6. Range(deps)' = Range(deps')
      BY DEF Range
    <2> QED
      BY <2>1, <2>3, <2>5, <2>6 DEF DepsInv
  <1> QED
    BY <1>1, <1>2, <1>3


-----------------------------------------------------------------------------
(* The alias lists                                                          *)

\* The n-th list, which is empty if there is none.
ListOf(n) == IF n <= Len(pointers) THEN pointers[n] ELSE << >>

\* The pointer p is added to the n-th list, a new one if it is not on one by relation.
Adds(p, n) ==
  /\ p \in storeSet \ Listed /\ n \in 1 .. Len(pointers) + 1
  /\ IF n <= Len(pointers) THEN n \in KnownAlias(p, loop.must) ELSE KnownAlias(p, loop.must) = {}
  /\ IsSeq(pointers')
  /\ Len(pointers') = IF n <= Len(pointers) THEN Len(pointers) ELSE Len(pointers) + 1
  /\ \A m \in 1 .. Len(pointers') : pointers'[m] = IF m = n THEN Append(ListOf(n), p) ELSE pointers[m]

\* What AddStorePointer does.
LEMMA AddsOne ==
  ASSUME IsSeq(pointers), \A n \in 1 .. Len(pointers) : IsSeq(pointers[n]), AddStorePointer
  PROVE  \E p, n : Adds(p, n)
  <1> DEFINE N == Len(pointers)
  <1>1. N \in Nat
    BY SeqFacts
  <1>2. PICK p \in storeSet \ Listed :
          IF KnownAlias(p, loop.must) = {}
          THEN pointers' = Append(pointers, <<p>>)
          ELSE \E n \in KnownAlias(p, loop.must) : pointers' = [pointers EXCEPT ![n] = Append(@, p)]
    BY DEF AddStorePointer
  <1>3. CASE KnownAlias(p, loop.must) = {}
    <2>1. pointers' = Append(pointers, <<p>>)
      BY <1>2, <1>3
    <2>2. /\ IsSeq(pointers') /\ Len(pointers') = N + 1
          /\ \A n \in 1 .. N : pointers'[n] = pointers[n]
          /\ pointers'[N + 1] = <<p>>
      BY <2>1, AppendFacts
    <2>3. <<p>> = Append(ListOf(N + 1), p)
      BY <1>1 DEF ListOf
    <2> HIDE DEF N
    <2>4. \A m \in 1 .. Len(pointers') :
            pointers'[m] = IF m = N + 1 THEN Append(ListOf(N + 1), p) ELSE pointers[m]
      <3>1. ASSUME NEW m \in 1 .. N + 1
            PROVE  pointers'[m] = IF m = N + 1 THEN <<p>> ELSE pointers[m]
        <4>1. m # N + 1 => m \in 1 .. N
          BY <1>1
        <4> QED
          BY <2>2, <4>1
      <3> QED
        BY <2>2, <2>3, <3>1
    <2>5. N + 1 \in 1 .. N + 1 /\ ~(N + 1 <= N)
      BY <1>1
    <2>6. Adds(p, N + 1)
      BY <1>3, <2>2, <2>4, <2>5 DEF Adds, N
    <2> QED
      BY <2>6
  <1>4. CASE KnownAlias(p, loop.must) # {}
    <2>1. PICK n \in KnownAlias(p, loop.must) : pointers' = [pointers EXCEPT ![n] = Append(@, p)]
      BY <1>2, <1>4
    <2>2. n \in 1 .. N
      BY DEF KnownAlias
    <2>3. pointers' = Replaced(pointers, n, Append(ListOf(n), p))
      BY <2>1, <2>2 DEF Replaced, ListOf
    <2>4. /\ IsSeq(pointers') /\ Len(pointers') = N
          /\ \A m \in 1 .. N : pointers'[m] = IF m = n THEN Append(ListOf(n), p) ELSE pointers[m]
      BY <2>2, <2>3, ReplaceFacts
    <2>5. n \in 1 .. N + 1 /\ n <= N
      BY <1>1, <2>2
    <2>6. Adds(p, n)
      BY <2>4, <2>5 DEF Adds
    <2> QED
      BY <2>6
  <1> QED
    BY <1>3, <1>4

\* What the lists hold afterwards.
LEMMA AfterAdding ==
  ASSUME IsSeq(pointers), \A n \in 1 .. Len(pointers) : IsSeq(pointers[n]),
         NEW p, NEW n, Adds(p, n)
  PROVE  /\ IsSeq(ListOf(n)) /\ Range(ListOf(n)) \subseteq Listed
         /\ Len(pointers') \in Nat /\ Len(pointers) \in Nat /\ n \in Nat
         /\ \A m \in 1 .. Len(pointers') : m # n => m \in 1 .. Len(pointers)
         /\ \A m \in 1 .. Len(pointers') :
              /\ IsSeq(pointers'[m])
              /\ Range(pointers'[m]) = IF m = n THEN Range(ListOf(n)) \cup {p} ELSE Range(pointers[m])
  <1>1. Len(pointers) \in Nat /\ Len(pointers') \in Nat /\ n \in 1 .. Len(pointers) + 1
    BY SeqFacts DEF Adds
  <1>2. IsSeq(ListOf(n)) /\ Range(ListOf(n)) \subseteq Listed
    <2>1. CASE n <= Len(pointers)
      BY <1>1, <2>1 DEF ListOf, Listed
    <2>2. CASE ~(n <= Len(pointers))
      BY <2>2, EmptyFacts DEF ListOf
    <2> QED
      BY <2>1, <2>2
  <1>3. \A m \in 1 .. Len(pointers') : m # n => m \in 1 .. Len(pointers)
    BY <1>1 DEF Adds
  <1>4. ASSUME NEW m \in 1 .. Len(pointers')
        PROVE  /\ IsSeq(pointers'[m])
               /\ Range(pointers'[m]) = IF m = n THEN Range(ListOf(n)) \cup {p} ELSE Range(pointers[m])
    <2>1. CASE m = n
      BY <1>2, <2>1, AppendFacts DEF Adds
    <2>2. CASE m # n
      BY <1>3, <2>2 DEF Adds
    <2> QED
      BY <2>1, <2>2
  <1>5. n \in Nat
    BY <1>1
  <1> QED
    BY <1>1, <1>2, <1>3, <1>4, <1>5


\* The other steps leave the lists alone.
LEMMA PointersUnchanged ==
  ASSUME [Next]_vars, ~AddStorePointer, pc # "loads"
  PROVE  /\ pointers' = pointers /\ Listed' = Listed
         /\ pc' \notin Before => \/ EndStores
                                 \/ pc \notin Before /\ storeSet' = storeSet /\ loadSet' = loadSet
         /\ pc' = "scan" => pc = "scan"
  <1>1. CASE ProcessHeaderPHINode \/ SeeStore \/ SeeLoad \/ ProcessInvariants \/ EndScan
    BY <1>1 DEF ProcessHeaderPHINode, SeeStore, SeeLoad, ProcessInvariants, EndScan,
       Scanning, found,
                Before, Listed
  <1>2. CASE EndStores \/ LoadAliased \/ LoadMayAlias \/ LoadOnly
    BY <1>2 DEF EndStores, LoadAliased, LoadMayAlias, LoadOnly, found, Before, Listed
  <1>3. CASE ProcessFooterPHINode \/ EndFooter \/ AddValueEntry \/ AddPointerEntries \/ KeepLoop
    BY <1>3 DEF ProcessFooterPHINode, Footers, EndFooter, AddValueEntry,
       AddPointerEntries, KeepLoop,
                found, sets, Before, Listed
  <1>4. CASE StoreEntries \/ LoadResult \/ UpdateExit
    BY <1>4 DEF StoreEntries, LoadResult, UpdateExit, TakesFrom, found, sets, Before,
       Listed
  <1>5. CASE UNCHANGED vars
    BY <1>5 DEF vars, analysis, Before, Listed
  <1> QED
    BY <1>1, <1>2, <1>3, <1>4, <1>5 DEF Next, LoopNext

\* PointersInv is inductive.
LEMMA PointersInductive ==
  ASSUME PointersInv, [Next]_vars
  PROVE  PointersInv'
  <1>1. CASE pc = "loads"
    <2>1. pc' = "loads"
      BY <1>1 DEF Next, LoopNext, ProcessHeaderPHINode, SeeStore, SeeLoad,
         ProcessInvariants, EndScan,
        Scanning, AddStorePointer, EndStores, LoadAliased, LoadMayAlias, LoadOnly,
        ProcessFooterPHINode, Footers, EndFooter, AddValueEntry, AddPointerEntries, KeepLoop,
        StoreEntries, LoadResult, UpdateExit, Ended, vars, analysis
    <2> QED
      BY <2>1 DEF PointersInv
  <1>2. CASE pc # "loads" /\ ~AddStorePointer
    <2>1. /\ pointers' = pointers /\ Listed' = Listed
          /\ pc' \notin Before => \/ EndStores
                                  \/ pc \notin Before /\ storeSet' = storeSet /\ loadSet' = loadSet
          /\ pc' = "scan" => pc = "scan"
      BY <1>2, PointersUnchanged
    <2>3. CASE pc' \in Before
      <3>1. storeSet \subseteq storeSet'
        BY DEF Next, LoopNext, ProcessHeaderPHINode, SeeStore, SeeLoad,
           ProcessInvariants, EndScan,
          Scanning, AddStorePointer, EndStores, LoadAliased, LoadMayAlias, LoadOnly,
          ProcessFooterPHINode, Footers, EndFooter, AddValueEntry, AddPointerEntries, KeepLoop,
          StoreEntries, LoadResult, UpdateExit, Ended, vars, analysis, sets
      <3>2. Lists /\ Apart /\ (pc = "scan" => pointers = << >>)
        BY <1>2 DEF PointersInv
      <3>3. Before' = Before
        BY DEF Before
      <3>4. Lists'
        BY <2>1, <3>1, <3>2 DEF Lists
      <3>5. Apart'
        BY <2>1, <3>2 DEF Apart
      <3> QED
        BY <2>1, <2>3, <3>2, <3>3, <3>4, <3>5 DEF PointersInv
    <2>4. CASE pc' \notin Before
      <3>1. /\ Lists /\ Apart
            /\ pc \notin Before => storeSet \subseteq Listed /\ loadSet = {}
        BY <1>2 DEF PointersInv
      <3>2. storeSet' = storeSet /\ storeSet \subseteq Listed' /\ loadSet' = {}
        <4>1. CASE EndStores
          <5>1. storeSet \subseteq Listed /\ storeSet' = storeSet /\ loadSet' = loadSet
            BY <4>1 DEF EndStores
          <5>2. loadSet = {}
            BY <2>4, <4>1 DEF EndStores, Before
          <5> QED
            BY <2>1, <5>1, <5>2
        <4>2. CASE pc \notin Before /\ storeSet' = storeSet /\ loadSet' = loadSet
          BY <2>1, <3>1, <4>2
        <4> QED
          BY <2>1, <2>4, <4>1, <4>2
      <3>3. pc' # "scan"
        BY <2>4 DEF Before
      <3>4. Lists'
        BY <2>1, <3>1, <3>2 DEF Lists
      <3>5. Apart'
        BY <2>1, <3>1 DEF Apart
      <3> QED
        BY <2>1, <3>2, <3>3, <3>4, <3>5 DEF PointersInv
    <2> QED
      BY <2>3, <2>4
  <1>3. CASE AddStorePointer
    <2>1. /\ pc = "stores" /\ pc' = "stores" /\ storeSet' = storeSet
      BY <1>3 DEF AddStorePointer, sets
    <2>2. /\ IsSeq(pointers)
          /\ \A n \in 1 .. Len(pointers) : IsSeq(pointers[n]) /\ Range(pointers[n]) \subseteq storeSet
          /\ Apart
      BY <2>1 DEF PointersInv, Lists
    <2>3. \E p, n : Adds(p, n)
      BY <1>3, <2>2, AddsOne
    <2>4. PICK p, n : Adds(p, n)
      BY <2>3
    <2>5. /\ IsSeq(ListOf(n)) /\ Range(ListOf(n)) \subseteq Listed
          /\ \A m \in 1 .. Len(pointers') : m # n => m \in 1 .. Len(pointers)
          /\ \A m \in 1 .. Len(pointers') :
               /\ IsSeq(pointers'[m])
               /\ Range(pointers'[m]) = IF m = n THEN Range(ListOf(n)) \cup {p} ELSE Range(pointers[m])
      BY <2>2, <2>4, AfterAdding
    <2>6. p \in storeSet \ Listed /\ Listed \subseteq storeSet
      BY <2>2, <2>4 DEF Adds, Listed
    <2>7. \A m \in 1 .. Len(pointers') : Range(pointers'[m]) \subseteq storeSet
      BY <2>2, <2>5, <2>6
    <2>8. \A m \in 1 .. Len(pointers') :
            pointers'[m] = IF m = n THEN Append(ListOf(n), p) ELSE pointers[m]
      BY <2>4 DEF Adds
    \* What an entry of a list was before: the new one, or the same.
    <2> DEFINE IsNew(m, j) == m = n /\ j = Len(ListOf(n)) + 1 /\ pointers'[m][j] = p
               IsOld(m, j) == /\ m \in 1 .. Len(pointers) /\ j \in 1 .. Len(pointers[m])
                              /\ pointers'[m][j] = pointers[m][j]
    <2>9. ASSUME NEW m \in 1 .. Len(pointers'), NEW j \in 1 .. Len(pointers'[m])
          PROVE  IsNew(m, j) \/ IsOld(m, j)
      <3>1. CASE m # n
        BY <2>5, <2>8, <3>1
      <3>2. CASE m = n
        <4>1. pointers'[m] = Append(ListOf(n), p)
          BY <2>8, <3>2
        <4>2. /\ Len(pointers'[m]) = Len(ListOf(n)) + 1 /\ Len(ListOf(n)) \in Nat
              /\ \A i \in 1 .. Len(ListOf(n)) : pointers'[m][i] = ListOf(n)[i]
              /\ pointers'[m][Len(ListOf(n)) + 1] = p
          BY <2>5, <4>1, AppendFacts, SeqFacts
        <4>3. CASE j = Len(ListOf(n)) + 1
          BY <3>2, <4>2, <4>3
        <4>4. CASE j \in 1 .. Len(ListOf(n))
          <5>1. ListOf(n) = pointers[n] /\ n \in 1 .. Len(pointers)
            <6>1. CASE n <= Len(pointers)
              BY <2>2, <2>4, <6>1, SeqFacts DEF ListOf, Adds
            <6>2. CASE ~(n <= Len(pointers))
              BY <4>4, <6>2, EmptyFacts DEF ListOf
            <6> QED
              BY <6>1, <6>2
          <5> QED
            BY <3>2, <4>2, <4>4, <5>1
        <4> QED
          BY <4>2, <4>3, <4>4
      <3> QED
        BY <3>1, <3>2
    <2>10. \A m, j : IsOld(m, j) => pointers'[m][j] # p
      <3>1. ASSUME NEW m, NEW j, IsOld(m, j)
            PROVE  pointers'[m][j] \in Listed
        <4>1. pointers[m][j] \in Range(pointers[m]) /\ m \in 1 .. Len(pointers)
          BY <2>2, <3>1, SeqFacts
        <4> QED
          BY <3>1, <4>1 DEF Listed
      <3> QED
        BY <2>6, <3>1
    <2>11. ASSUME NEW m \in 1 .. Len(pointers'), NEW k \in 1 .. Len(pointers'),
                  NEW j \in 1 .. Len(pointers'[m]), NEW i \in 1 .. Len(pointers'[k]),
                  pointers'[m][j] = pointers'[k][i]
           PROVE  m = k /\ j = i
      <3>1. (IsNew(m, j) \/ IsOld(m, j)) /\ (IsNew(k, i) \/ IsOld(k, i))
        BY <2>9
      <3>2. CASE IsNew(m, j) /\ IsNew(k, i)
        BY <3>2
      <3>3. CASE IsOld(m, j) /\ IsOld(k, i)
        <4>1. pointers[m][j] = pointers[k][i]
          BY <2>11, <3>3
        <4> QED
          BY <2>2, <3>3, <4>1 DEF Apart
      <3>4. (IsNew(m, j) <=> IsNew(k, i)) \/ ~(IsOld(m, j) \/ IsOld(k, i))
        BY <2>10, <2>11
      <3> HIDE DEF IsNew, IsOld
      <3> QED
        BY <3>1, <3>2, <3>3, <3>4, <2>10, <2>11
    <2>12. Before = Before' /\ pc' \in Before
      BY <2>1 DEF Before
    <2>13. IsSeq(pointers')
      BY <2>4 DEF Adds
    <2>14. Lists'
      BY <2>1, <2>5, <2>7, <2>13 DEF Lists
    <2>15. Apart'
      BY <2>11 DEF Apart
    <2> QED
      BY <2>1, <2>12, <2>14, <2>15 DEF PointersInv
  <1> QED
    BY <1>1, <1>2, <1>3


-----------------------------------------------------------------------------
(* The entries                                                              *)

\* Neither does what is computed of a value.
LEMMA StaticValues ==
  ASSUME loop' = loop
  PROVE  /\ \A v : FindLoadPos(v)' = FindLoadPos(v) /\ FindStorePos(v)' = FindStorePos(v)
         /\ \A v : (LoadFaults(v)' <=> LoadFaults(v)) /\ (StoreFaults(v)' <=> StoreFaults(v))
         /\ Phis' = Phis /\ Feeds' = Feeds /\ \A v : Incoming(v)' = Incoming(v)
         /\ \A v : IsInstruction(v)' <=> IsInstruction(v)
  <1>1. /\ Blocks' = Blocks /\ AllInstructions' = AllInstructions
        /\ \A i : Instr(i)' = Instr(i)
    BY Static DEF AllInstructions
  <1>2. \A v : Uses(v)' = Uses(v)
    BY Static
  <1>3. \A v : IsInstruction(v)' <=> IsInstruction(v)
    BY <1>1 DEF IsInstruction
  <1>4. ASSUME NEW v
        PROVE  Definition(v)' = Definition(v)
    <2>1. {i \in AllInstructions' : Instr(i)'.name = v}
            = {i \in AllInstructions : Instr(i).name = v}
      BY <1>1
    <2> QED
      BY <2>1 DEF Definition
  <1>5. Phis' = Phis
    BY <1>1 DEF Phis
  <1>6. \A v : Incoming(v)' = Incoming(v)
    BY <1>1, <1>4 DEF Incoming
  <1>7. Feeds' = Feeds
    BY <1>5, <1>6 DEF Feeds
  <1>8. \A v : Visited(v)' = Visited(v)
    BY <1>5, <1>7 DEF Visited
  <1>9. \A v : Recurs(v)' <=> Recurs(v)
    BY <1>5, <1>7, <1>8 DEF Recurs
  <1>10. \A v : FindWriteInstructions(v)' = FindWriteInstructions(v)
    BY <1>3, <1>5, <1>6, <1>8 DEF FindWriteInstructions
  <1>11. \A v : (LoadFaults(v)' <=> LoadFaults(v)) /\ (StoreFaults(v)' <=> StoreFaults(v))
    <2>1. \A S : CommonPostDominators(S)' = CommonPostDominators(S)
      BY DEF CommonPostDominators, PostDominates
    <2>2. ASSUME NEW v
          PROVE  StoreFaults(v)' <=> StoreFaults(v)
      <3>1. {Definition(w)'[1] : w \in FindWriteInstructions(v)'}
              = {Definition(w)[1] : w \in FindWriteInstructions(v)}
        BY <1>4, <1>10
      <3> QED
        BY <1>3, <1>5, <1>9, <1>10, <2>1, <3>1 DEF StoreFaults
    <2> QED
      BY <1>2, <2>2 DEF LoadFaults
  <1>12. \A S : NearestCommonDominator(S)' = NearestCommonDominator(S)
    <2>1. ASSUME NEW S
          PROVE  NearestCommonDominator(S)' = NearestCommonDominator(S)
      <3>1. {b \in Blocks' : \A c \in S : <<b, c>> \in loop'.dom}
              = {b \in Blocks : \A c \in S : <<b, c>> \in loop.dom}
        BY <1>1
      <3> QED
        BY <3>1 DEF NearestCommonDominator, Dominates
    <2> QED
      BY <2>1
  <1>13. \A S : NearestCommonPostDominator(S)' = NearestCommonPostDominator(S)
    <2>1. \A S : CommonPostDominators(S)' = CommonPostDominators(S)
      BY DEF CommonPostDominators, PostDominates
    <2> QED
      BY <2>1 DEF NearestCommonPostDominator
  <1>14. \A v : FindLoadPos(v)' = FindLoadPos(v)
    <2>1. ASSUME NEW v
          PROVE  FindLoadPos(v)' = FindLoadPos(v)
      <3>1. PICK S : S = {i[1] : i \in Uses(v)}
        OBVIOUS
      <3>2. PICK b : b = NearestCommonDominator(S)
        OBVIOUS
      <3>3. PICK reads : reads = {k \in 1 .. Len(loop.code[b]) : <<b, k>> \in Uses(v)}
        OBVIOUS
      <3>4. FindLoadPos(v) = IF reads # {} THEN <<b, Min(reads) - 1>> ELSE <<b, Len(loop.code[b])>>
        BY <3>1, <3>2, <3>3 DEF FindLoadPos
      <3>5. {i[1] : i \in Uses(v)'} = S
        BY <1>2, <3>1
      <3>6. NearestCommonDominator(S)' = b
        BY <1>12, <3>2
      <3>7. {k \in 1 .. Len(loop'.code[b]) : <<b, k>> \in Uses(v)'} = reads
        BY <1>2, <3>3
      <3>8. FindLoadPos(v)' = IF reads # {} THEN <<b, Min(reads) - 1>>
                              ELSE <<b, Len(loop'.code[b])>>
        BY <3>5, <3>6, <3>7 DEF FindLoadPos
      <3> QED
        BY <3>4, <3>8
    <2> QED
      BY <2>1
  <1>15. \A v : FindStorePos(v)' = FindStorePos(v)
    <2>1. ASSUME NEW v
          PROVE  FindStorePos(v)' = FindStorePos(v)
      <3>1. PICK W : W = {Definition(w) : w \in FindWriteInstructions(v)}
        OBVIOUS
      <3>2. PICK S : S = {i[1] : i \in W}
        OBVIOUS
      <3>3. PICK b : b = NearestCommonPostDominator(S)
        OBVIOUS
      <3>4. PICK after : after = {i[2] : i \in {j \in W : j[1] = b}}
        OBVIOUS
      <3>5. FindStorePos(v) = IF after # {} THEN <<b, Max(after)>> ELSE <<b, 0>>
        BY <3>1, <3>2, <3>3, <3>4 DEF FindStorePos
      <3>6. {Definition(w)' : w \in FindWriteInstructions(v)'} = W
        BY <1>4, <1>10, <3>1
      <3>7. NearestCommonPostDominator(S)' = b
        BY <1>13, <3>3
      <3>8. FindStorePos(v)' = IF after # {} THEN <<b, Max(after)>> ELSE <<b, 0>>
        BY <3>2, <3>4, <3>6, <3>7 DEF FindStorePos
      <3> QED
        BY <3>5, <3>8
    <2> QED
      BY <2>1
  <1> QED
    BY <1>3, <1>5, <1>6, <1>7, <1>11, <1>14, <1>15


\* Nor the calls for a dependency.
LEMMA StaticCalls ==
  ASSUME loop' = loop
  PROVE  \A lv : /\ ValueFaults(lv)' <=> ValueFaults(lv)
                 /\ \A n : ValueInstrs(lv, n)' = ValueInstrs(lv, n)
  <1>1. \A x : ExitingValue(x)' = ExitingValue(x)
    BY Static
  <1>2. \A lv : StoredValues(lv)' = StoredValues(lv)
    BY <1>1 DEF StoredValues
  <1>3. \A lv, x : ValueOf(lv, x)' = ValueOf(lv, x)
    BY <1>1 DEF ValueOf
  <1>4. /\ \A v : FindLoadPos(v)' = FindLoadPos(v) /\ FindStorePos(v)' = FindStorePos(v)
        /\ \A v : (LoadFaults(v)' <=> LoadFaults(v)) /\ (StoreFaults(v)' <=> StoreFaults(v))
    BY StaticValues
  <1>5. \A lv : ValueFaults(lv)' <=> ValueFaults(lv)
    BY <1>2, <1>3, <1>4 DEF ValueFaults
  <1>6. \A lv, n : LoadInstrs(lv, n)' = LoadInstrs(lv, n)
    BY <1>4 DEF LoadInstrs
  <1>7. \A lv, n : StoreInstrs(lv, n)' = StoreInstrs(lv, n)
    BY <1>2, <1>3, <1>4 DEF StoreInstrs
  <1> QED
    BY <1>5, <1>6, <1>7 DEF ValueInstrs

\* The entries and calls of the dependencies before the m-th.
Entered(m) ==
  /\ \A n \in 1 .. m : entries[n] = [entry |-> deps[n].entry, exit |-> deps[n].footer] /\ ~ValueFaults(deps[n])
  /\ valueInstrs = UNION {ValueInstrs(deps[n], n - 1) : n \in 1 .. m}

\* AddValueEntry goes by one dependency.
LEMMA EntriesGrow ==
  ASSUME ScanInv, DepsInv, EntriesInv, AddValueEntry
  PROVE  EntriesInv'
  <1> DEFINE lv == deps[next]
             M == Len(entries)
  <1>1. /\ pc = "values" /\ loop' = loop /\ deps' = deps /\ next' = next + 1
        /\ IsSeq(entries) /\ M \in Nat /\ next = M + 1 /\ next <= Len(deps) /\ Len(deps) \in Nat
        /\ Entered(M)
    BY SeqFacts DEF AddValueEntry, EntriesInv, DepsInv, Entered, found
  <1>2. PICK e : e = [entry |-> lv.entry, exit |-> lv.footer]
    OBVIOUS
  <1>3. /\ entries' = Append(entries, e)
        /\ IF ValueFaults(lv) THEN pc' = "fault"
           ELSE pc' = "values" /\ valueInstrs' = valueInstrs \cup ValueInstrs(lv, next - 1)
    BY <1>1, <1>2 DEF AddValueEntry
  <1>4. /\ IsSeq(entries') /\ Len(entries') = M + 1
        /\ \A n \in 1 .. M : entries'[n] = entries[n]
        /\ entries'[M + 1] = e
    BY <1>1, <1>3, AppendFacts
  <1>5. \A d : /\ ValueFaults(d)' <=> ValueFaults(d)
               /\ \A n : ValueInstrs(d, n)' = ValueInstrs(d, n)
    BY <1>1, StaticCalls
  <1>6. CASE ValueFaults(lv)
    BY <1>1, <1>3, <1>4, <1>6 DEF EntriesInv, Before, Filled
  <1>7. CASE ~ValueFaults(lv)
    <2>1. pc' = "values" /\ valueInstrs' = valueInstrs \cup ValueInstrs(lv, M)
      BY <1>1, <1>3, <1>7
    <2>2. 1 .. M + 1 = (1 .. M) \cup {M + 1} /\ (M + 1) - 1 = M
      BY <1>1
    <2>3. ASSUME NEW n \in 1 .. M + 1
          PROVE  entries'[n] = [entry |-> deps[n].entry, exit |-> deps[n].footer] /\ ~ValueFaults(deps[n])
      <3>1. CASE n \in 1 .. M
        BY <1>1, <1>4, <3>1 DEF Entered
      <3>2. CASE n = M + 1
        BY <1>1, <1>2, <1>4, <1>7, <3>2
      <3> QED
        BY <2>2, <3>1, <3>2
    <2>4. valueInstrs' = UNION {ValueInstrs(deps[n], n - 1) : n \in 1 .. M + 1}
      <3>1. {ValueInstrs(deps[n], n - 1) : n \in 1 .. M + 1}
              = {ValueInstrs(deps[n], n - 1) : n \in 1 .. M} \cup {ValueInstrs(deps[M + 1], M)}
        BY <2>2
      <3> QED
        BY <1>1, <2>1, <3>1 DEF Entered
    <2>5. /\ \A n \in 1 .. Len(entries') :
               /\ entries'[n] = [entry |-> deps'[n].entry, exit |-> deps'[n].footer]
               /\ \A d : d = deps'[n] => ~ValueFaults(d)'
      BY <1>1, <1>4, <1>5, <2>3
    <2> QED
      BY <1>1, <1>4, <1>5, <2>1, <2>4, <2>5 DEF EntriesInv, Before, Filled
  <1> QED
    BY <1>6, <1>7


\* The other steps leave the entries alone.
LEMMA EntriesUnchanged ==
  ASSUME [Next]_vars, ~AddValueEntry
  PROVE  /\ entries' = entries /\ valueInstrs' = valueInstrs
         /\ \/ pc \in Before \cup {"footer"} /\ pc' \in Before \cup {"footer"}
            \/ EndFooter \/ AddPointerEntries
            \/ pc \in Filled /\ pc' \in Filled \cup {"fault"} /\ deps' = deps
            \/ UNCHANGED vars
  <1>1. CASE ProcessHeaderPHINode \/ SeeStore \/ SeeLoad \/ ProcessInvariants \/ EndScan
    BY <1>1 DEF ProcessHeaderPHINode, SeeStore, SeeLoad, ProcessInvariants, EndScan,
       Scanning, calls,
                Before
  <1>2. CASE AddStorePointer \/ EndStores \/ LoadAliased \/ LoadMayAlias \/ LoadOnly
    BY <1>2 DEF AddStorePointer, EndStores, LoadAliased, LoadMayAlias, LoadOnly, calls,
       Before
  <1>3. CASE ProcessFooterPHINode \/ EndFooter
    BY <1>3 DEF ProcessFooterPHINode, Footers, EndFooter, calls, Before
  <1>4. CASE AddPointerEntries
    BY <1>4 DEF AddPointerEntries
  <1>5. CASE KeepLoop \/ StoreEntries \/ LoadResult \/ UpdateExit
    BY <1>5 DEF KeepLoop, StoreEntries, LoadResult, UpdateExit, TakesFrom, calls, found,
       Filled
  <1>6. CASE UNCHANGED vars
    BY <1>6 DEF vars, analysis
  <1> QED
    BY <1>1, <1>2, <1>3, <1>4, <1>5, <1>6 DEF Next, LoopNext

\* EntriesInv is inductive.
LEMMA EntriesInductive ==
  ASSUME ScanInv, DepsInv, EntriesInv, [Next]_vars
  PROVE  EntriesInv'
  <1>1. CASE AddValueEntry
    BY <1>1, EntriesGrow
  <1>2. CASE ~AddValueEntry
    <2>1. /\ entries' = entries /\ valueInstrs' = valueInstrs /\ loop' = loop
          /\ Before' = Before /\ Filled' = Filled
          /\ IsSeq(entries) /\ Len(entries) \in Nat /\ Len(<< >>) = 0
      BY <1>2, EntriesUnchanged, SeenGrows, SeqFacts, EmptyFacts DEF Before, Filled,
         EntriesInv
    <2>2. \A d : /\ ValueFaults(d)' <=> ValueFaults(d)
                 /\ \A n : ValueInstrs(d, n)' = ValueInstrs(d, n)
      BY <2>1, StaticCalls
    <2>3. CASE \/ pc \in Before \cup {"footer"} /\ pc' \in Before \cup {"footer"}
               \/ EndFooter
      <3>1. pc \in Before \cup {"footer"}
        BY <2>3 DEF EndFooter
      <3>2. entries = << >> /\ 1 .. Len(entries) = {}
        BY <2>1, <3>1 DEF EntriesInv
      <3>3. valueInstrs = {}
        BY <2>1, <3>1, <3>2 DEF EntriesInv, Before
      <3>4. EndFooter => pc' = "values" /\ next' = 1
        BY DEF EndFooter
      <3>5. Len(deps') \in Nat
        BY DepsInductive, SeqFacts DEF DepsInv
      <3> QED
        BY <2>1, <2>3, <3>2, <3>3, <3>4, <3>5 DEF EntriesInv, Before, Filled
    <2>4. CASE AddPointerEntries
      <3>1. /\ pc = "values" /\ pc' = "keep" /\ deps' = deps /\ next > Len(deps)
        BY <2>4 DEF AddPointerEntries, found
      <3>2. Len(entries) = Len(deps)
        BY <2>1, <3>1, SeqFacts DEF EntriesInv, DepsInv
      <3> QED
        BY <2>1, <2>2, <3>1, <3>2 DEF EntriesInv, Before, Filled
    <2>5. CASE pc \in Filled /\ pc' \in Filled \cup {"fault"} /\ deps' = deps
      BY <2>1, <2>2, <2>5 DEF EntriesInv, Before, Filled
    <2>6. CASE UNCHANGED vars
      BY <2>1, <2>2, <2>6 DEF EntriesInv, vars, analysis
    <2> QED
      BY <1>2, <2>3, <2>4, <2>5, <2>6, EntriesUnchanged
  <1> QED
    BY <1>1, <1>2

\* KeepInv is inductive.
LEMMA KeepInductive ==
  ASSUME ScanInv, KeepInv, [Next]_vars
  PROVE  KeepInv'
  <1>1. loop' = loop
    BY SeenGrows
  <1>2. CASE AddPointerEntries
    <2>1. /\ pointers' = pointers /\ invariants' = invariants
          /\ pointerInstrs' = UNION {UNION {PointerInstrs(n, k) : k \in 1 .. Len(pointers[n])} :
                                       n \in 1 .. Len(pointers)}
          /\ passed' = {p \in Listed : ~InLoop(p)} \cup invariants
      BY <1>2 DEF AddPointerEntries, found
    <2>2. Listed' = Listed /\ \A p : InLoop(p)' <=> InLoop(p)
      BY <1>1, <2>1, Static DEF Listed
    <2>3. \A n, k : PointerInstrs(n, k)' = PointerInstrs(n, k)
      BY <1>1, <2>1, Static DEF PointerInstrs
    <2> QED
      BY <2>1, <2>2, <2>3 DEF KeepInv
  <1>3. CASE ~AddPointerEntries
    <2> SUFFICES ASSUME pc' \in Filled' PROVE KeepInv'
      BY DEF KeepInv
    <2>1. /\ pc \in Filled /\ pointers' = pointers /\ invariants' = invariants
          /\ pointerInstrs' = pointerInstrs /\ passed' = passed
      BY <1>3 DEF Filled, Next, LoopNext, ProcessHeaderPHINode, SeeStore, SeeLoad,
         ProcessInvariants,
        EndScan, Scanning, AddStorePointer, EndStores, LoadAliased, LoadMayAlias, LoadOnly,
        ProcessFooterPHINode, Footers, EndFooter, AddValueEntry, KeepLoop,
        StoreEntries, LoadResult, UpdateExit, Ended, vars, analysis, found, calls
    <2>2. Listed' = Listed /\ \A p : InLoop(p)' <=> InLoop(p)
      BY <1>1, <2>1, Static DEF Listed
    <2>3. \A n, k : PointerInstrs(n, k)' = PointerInstrs(n, k)
      BY <1>1, <2>1, Static DEF PointerInstrs
    <2> QED
      BY <2>1, <2>2, <2>3 DEF KeepInv
  <1> QED
    BY <1>2, <1>3

\* Inductive holds initially.
LEMMA InitInductive ==
  ASSUME Init
  PROVE  Inductive
  <1>1. /\ loop \in Loops /\ pc = "scan" /\ block = 1 /\ next = 1
        /\ loadSet = {} /\ storeSet = {} /\ deps = << >> /\ pointers = << >>
        /\ valueInstrs = {} /\ entries = << >>
    BY DEF Init, LoopInit
  <1>2. ScanInv
    <2>1. IsSeq(loop.order) /\ Len(loop.order) \in Nat
      BY <1>1, LoopFacts, SeqFacts
    <2>2. 1 <= Len(loop.order) => 1 \in 1 .. Len(loop.code[loop.order[1]])
      <3> SUFFICES ASSUME 1 <= Len(loop.order) PROVE 1 \in 1 .. Len(loop.code[loop.order[1]])
        OBVIOUS
      <3>1. loop.order[1] \in Blocks
        BY <2>1, SeqFacts DEF Blocks
      <3>2. Len(loop.code[loop.order[1]]) \in Nat /\ Len(loop.code[loop.order[1]]) >= 1
        BY <1>1, <3>1, LoopFacts, SeqFacts
      <3> QED
        BY <3>2
    <2> QED
      BY <1>1, <2>1, <2>2 DEF ScanInv
  <1>3. Seen = {}
    <2>1. ASSUME NEW i \in Seen
          PROVE  FALSE
      <3>1. PICK n \in 1 .. Len(loop.order) : n < 1 \/ (n = 1 /\ i[2] < 1)
        BY <1>1 DEF Seen
      <3>2. i[2] < 1 /\ i \in Instructions
        BY <3>1 DEF Seen
      <3>3. PICK b \in Blocks : \E k \in 1 .. Len(loop.code[b]) : i = <<b, k>>
        BY <3>2, InstructionIs
      <3> QED
        BY <3>2, <3>3
    <2> QED
      BY <2>1
  <1>4. SetsInv
    BY <1>1, <1>3 DEF SetsInv
  <1>5. DepsInv
    BY <1>1, <1>3, EmptyFacts DEF DepsInv
  <1>6. PointersInv
    BY <1>1, EmptyFacts DEF PointersInv, Lists, Apart, Before
  <1>7. EntriesInv
    BY <1>1, EmptyFacts DEF EntriesInv, Before, Filled
  <1>8. KeepInv
    BY <1>1 DEF KeepInv, Filled
  <1> QED
    BY <1>2, <1>4, <1>5, <1>6, <1>7, <1>8 DEF Inductive

\* What the analysis has collected is right, for every loop.
THEOREM Collected == Spec => []Inductive
  <1>1. Init => Inductive
    BY InitInductive
  <1>2. Inductive /\ [Next]_vars => Inductive'
    BY ScanInductive, SetsInductive, DepsInductive, PointersInductive, EntriesInductive,
       KeepInductive
    DEF Inductive
  <1> QED
    BY <1>1, <1>2, PTL DEF Spec


-----------------------------------------------------------------------------
(* Loads                                                                    *)

\* The hypotheses are about the loop, which never changes.
LEMMA StaticReads == loop' = loop /\ ReadsGathered => ReadsGathered'
  <1> SUFFICES ASSUME loop' = loop, ReadsGathered PROVE ReadsGathered'
    OBVIOUS
  <1>1. /\ HeaderPhis' = HeaderPhis
        /\ \A i : Instr(i)' = Instr(i)
        /\ \A v : Uses(v)' = Uses(v)
    BY Static
  <1> QED
    BY <1>1 DEF ReadsGathered, Dominates

\* Where a value is loaded whose reads are gathered.
LEMMA LoadPosRight ==
  ASSUME loop \in Loops, NEW v, NEW i \in Uses(v), \A j \in Uses(v) : Dominates(i[1], j[1])
  PROVE  \A j \in Uses(v) : Precedes(FindLoadPos(v), j)
  <1> DEFINE S == {j[1] : j \in Uses(v)}
             Common == {b \in Blocks : \A c \in S : Dominates(b, c)}
             b == i[1]
             reads == {k \in 1 .. Len(loop.code[b]) : <<b, k>> \in Uses(v)}
  <1>1. \A j \in Uses(v) : j[1] \in Blocks /\ j[2] \in 1 .. Len(loop.code[j[1]]) /\ j = <<j[1], j[2]>>
    BY InstructionIs DEF Uses
  <1>2. b \in Common /\ b \in S
    BY <1>1
  <1>3. \A c \in Common : Dominates(c, b)
    BY <1>2
  <1>4. NearestCommonDominator(S) = b
    <2> HIDE DEF S, b
    <2>1. NearestCommonDominator(S) = Nearest(Common, loop.dom)
      BY DEF NearestCommonDominator
    <2>2. ASSUME NEW c \in Common, \A d \in Common : <<d, c>> \in loop.dom
          PROVE  c = b
      <3>1. Dominates(b, c) /\ Dominates(c, b) /\ b \in Blocks /\ c \in Blocks
        BY <1>2, <1>3, <2>2 DEF Dominates
      <3> QED
        BY <3>1, LoopFacts
    <2>3. \A d \in Common : <<d, b>> \in loop.dom
      BY <1>3 DEF Dominates
    <2> HIDE DEF Common
    <2>4. Nearest(Common, loop.dom) = b
      BY <1>2, <2>2, <2>3 DEF Nearest
    <2> QED
      BY <2>1, <2>4
  <1>5. Len(loop.code[b]) \in Nat
    BY <1>1, LoopFacts, SeqFacts
  <1>6. i[2] \in reads /\ reads \subseteq 1 .. Len(loop.code[b])
    BY <1>1
  <1>7. Min(reads) \in reads /\ \A k \in reads : Min(reads) <= k
    BY <1>5, <1>6, MaxMin
  <1>8. FindLoadPos(v) = <<b, Min(reads) - 1>>
    BY <1>4, <1>6 DEF FindLoadPos
  <1> HIDE DEF S, b, Common
  <1>9. Min(reads) \in 1 .. Len(loop.code[b])
    BY <1>6, <1>7
  <1>10. ASSUME NEW j \in Uses(v)
         PROVE  IF b = j[1] THEN Min(reads) - 1 < j[2] ELSE Dominates(b, j[1])
    <2>1. CASE b = j[1]
      <3>1. j[2] \in reads
        BY <1>1, <2>1
      <3>2. Min(reads) <= j[2] /\ j[2] \in Int
        BY <1>1, <1>7, <3>1
      <3> HIDE DEF reads
      <3> QED
        BY <1>9, <2>1, <3>2
    <2>2. CASE b # j[1]
      BY <2>2 DEF b
    <2> QED
      BY <2>1, <2>2
  <1> HIDE DEF reads
  <1>11. Min(reads) - 1 < Len(loop.code[b])
    BY <1>5, <1>9
  <1> QED
    BY <1>8, <1>10, <1>11 DEF Precedes

\* The calls of a dependency, and what it stands for.
LEMMA CallIs ==
  ASSUME Inductive, pc # "fault", NEW c \in valueInstrs
  PROVE  \E n \in 1 .. Len(entries) :
           /\ n \in 1 .. Len(deps) /\ c.index = n - 1
           /\ ~ValueFaults(deps[n])
           /\ c.type = "load" => /\ FromHeader(deps[n])
                                 /\ c.value = deps[n].header /\ c.pos = FindLoadPos(deps[n].header)
  <1>0. /\ \A n \in 1 .. Len(entries) : ~ValueFaults(deps[n])
        /\ valueInstrs = UNION {ValueInstrs(deps[n], n - 1) : n \in 1 .. Len(entries)}
        /\ IsSeq(entries) /\ IsSeq(deps) /\ Len(entries) <= Len(deps)
    BY DEF Inductive, EntriesInv, DepsInv
  <1>1. PICK n \in 1 .. Len(entries) : c \in ValueInstrs(deps[n], n - 1) /\ ~ValueFaults(deps[n])
    BY <1>0
  <1>2. n \in 1 .. Len(deps)
    BY <1>0, <1>1, SeqFacts
  <1>3. c.index = n - 1
    BY <1>1 DEF ValueInstrs, LoadInstrs, StoreInstrs
  <1>4. c.type = "load" =>
          deps[n].entry # None /\ c.value = deps[n].header /\ c.pos = FindLoadPos(deps[n].header)
    BY <1>1 DEF ValueInstrs, LoadInstrs, StoreInstrs, IsExitOnly
  <1>5. FromHeader(deps[n]) \/ FromExit(deps[n])
    BY <1>2, SeqFacts DEF Inductive, DepsInv
  <1>6. FromExit(deps[n]) => deps[n].entry = None
    BY HeaderOf DEF Inductive, ScanInv
  <1> QED
    BY <1>1, <1>2, <1>3, <1>4, <1>5, <1>6


\* The loads are right as long as nothing has failed.
LEMMA LoadsRight ==
  ASSUME Inductive, ReadsGathered, pc # "fault"
  PROVE  LoadsDominate
  <1> SUFFICES ASSUME NEW c \in valueInstrs, c.type = "load"
               PROVE  \A i \in Uses(c.value) : Precedes(c.pos, i)
    BY DEF LoadsDominate
  <1>1. loop \in Loops
    BY DEF Inductive, ScanInv
  <1>2. PICK d : FromHeader(d) /\ c.value = d.header /\ c.pos = FindLoadPos(d.header)
    BY CallIs
  <1>3. PICK h \in Seen : IsHeaderPhi(h) /\ d.header = Instr(h).name
    BY <1>1, <1>2, HeaderOf
  <1>4. h \in HeaderPhis
    BY <1>3 DEF Seen, HeaderPhis
  <1>5. CASE Uses(c.value) = {}
    BY <1>5
  <1>6. CASE Uses(c.value) # {}
    <2>1. PICK i \in Uses(c.value) : \A j \in Uses(c.value) : Dominates(i[1], j[1])
      BY <1>2, <1>3, <1>4, <1>6 DEF ReadsGathered
    <2> QED
      BY <1>1, <1>2, <2>1, LoadPosRight
  <1> QED
    BY <1>5, <1>6

\* A fault adds no calls.
LEMMA FaultAddsNone ==
  ASSUME [Next]_vars, pc' = "fault", LoadsDominate, ScanInv
  PROVE  LoadsDominate'
  <1>1. loop' = loop
    BY SeenGrows
  <1>2. valueInstrs' = valueInstrs
    <2>1. CASE AddValueEntry
      BY <2>1 DEF AddValueEntry
    <2>2. CASE ~AddValueEntry
      BY <2>2, EntriesUnchanged
    <2> QED
      BY <2>1, <2>2
  <1>3. /\ \A v : Uses(v)' = Uses(v)
        /\ \A p, i : Precedes(p, i)' <=> Precedes(p, i)
    BY <1>1, Static DEF Precedes, Dominates
  <1> QED
    BY <1>2, <1>3 DEF LoadsDominate

\* If for every variable one of the blocks that read it precedes the others, the call that
\* loads its value runs before every use (findLoadPos).
THEOREM LoadsAreEarly == Spec /\ ReadsGathered => []LoadsDominate
  <1>1. Init => NoFault /\ Inductive
    BY InitInductive DEF Init, LoopInit, NoFault
  <1>2. Inductive /\ [Next]_vars => loop' = loop
    BY SeenGrows DEF Inductive
  <1>3. Inductive /\ ReadsGathered /\ [Next]_vars => ReadsGathered'
    BY <1>2, StaticReads
  <1>4. Inductive /\ ReadsGathered /\ NoFault => LoadsDominate
    BY LoadsRight DEF NoFault
  <1>5. Inductive /\ LoadsDominate /\ [Next]_vars /\ ~NoFault' => LoadsDominate'
    BY FaultAddsNone DEF Inductive, NoFault
  <1> QED
    BY <1>1, <1>3, <1>4, <1>5, Collected, PTL DEF Spec


-----------------------------------------------------------------------------
(* Indices                                                                  *)

\* A function has no more values than arguments.
LEMMA ImageFacts ==
  ASSUME NEW S, IsFiniteSet(S), NEW f
  PROVE  /\ IsFiniteSet({f[x] : x \in S})
         /\ Cardinality({f[x] : x \in S}) <= Cardinality(S)
  <1> DEFINE T == {f[x] : x \in S}
             g == [x \in S |-> f[x]]
  <1>1. g \in Surjection(S, T)
    BY DEF Surjection
  <1> HIDE DEF g
  <1> QED
    BY <1>1, FS_Surjection

\* An interval of indices is finite.
LEMMA RangeFinite == \A n \in Nat : IsFiniteSet(1 .. n)
  BY FS_Interval

\* There are finitely many exiting values.
LEMMA ExitsFinite ==
  ASSUME loop \in Loops
  PROVE  IsFiniteSet(Exits) /\ \A f \in DOMAIN loop.footer : IsFiniteSet(Exiting(f))
  <1>1. ASSUME NEW f \in DOMAIN loop.footer
        PROVE  IsFiniteSet(Exiting(f))
    <2> DEFINE D == {n \in DOMAIN loop.footer[f].args : InLoop(loop.footer[f].args[n])}
               F == [k \in D |-> <<f, k>>]
    <2>1. IsSeq(loop.footer[f].args)
      BY LoopFacts
    <2>2. DOMAIN loop.footer[f].args = 1 .. Len(loop.footer[f].args) /\ Len(loop.footer[f].args) \in Nat
      BY <2>1, SeqFacts
    <2>3. IsFiniteSet(DOMAIN loop.footer[f].args)
      BY <2>2, RangeFinite
    <2>4. D \in SUBSET DOMAIN loop.footer[f].args
      OBVIOUS
    <2>5. IsFiniteSet(D)
      <3> HIDE DEF D
      <3> QED
        BY <2>3, <2>4, FS_Subset
    <2>6. Exiting(f) = {F[k] : k \in D}
      BY DEF Exiting
    <2> HIDE DEF D, F
    <2> QED
      BY <2>5, <2>6, ImageFacts
  <1>2. IsFiniteSet(Exits)
    <2> DEFINE F == [f \in DOMAIN loop.footer |-> Exiting(f)]
               T == {F[f] : f \in DOMAIN loop.footer}
    <2>1. DOMAIN loop.footer = 1 .. Len(loop.footer) /\ Len(loop.footer) \in Nat
      BY LoopFacts, SeqFacts
    <2>2. IsFiniteSet(DOMAIN loop.footer)
      BY <2>1, RangeFinite
    <2>3. Exits = UNION T /\ \A t \in T : IsFiniteSet(t)
      BY <1>1 DEF Exits
    <2>4. IsFiniteSet(T)
      <3> HIDE DEF F
      <3> QED
        BY <2>2, ImageFacts
    <2> HIDE DEF T
    <2> QED
      BY <2>3, <2>4, FS_UNION
  <1> QED
    BY <1>1, <1>2

\* A dependency has finitely many calls, and one at least if each exiting value is computed.
LEMMA CallsOfOne ==
  ASSUME Inductive, NEW n \in 1 .. Len(deps), pc # "scan", NEW i
  PROVE  /\ IsFiniteSet(ValueInstrs(deps[n], i))
         /\ ExitsComputed => \E c \in ValueInstrs(deps[n], i) : c.index = i
  <1>1. loop \in Loops /\ (FromHeader(deps[n]) \/ FromExit(deps[n]))
    BY SeqFacts DEF Inductive, ScanInv, DepsInv
  <1>2. PICK lv : lv = deps[n]
    OBVIOUS
  <1>3. IsFiniteSet(lv.exiting)
    <2>1. CASE FromHeader(lv)
      <3>1. lv.exiting \in SUBSET Exits
        BY <2>1 DEF FromHeader
      <3> QED
        BY <1>1, <3>1, ExitsFinite, FS_Subset
    <2>2. CASE FromExit(lv)
      <3>1. PICK f \in DOMAIN loop.footer : lv.exiting = Exiting(f)
        BY <2>2 DEF FromExit, ExitOnly
      <3> QED
        BY <1>1, <3>1, ExitsFinite
    <2> QED
      BY <1>1, <1>2, <2>1, <2>2
  <1>4. IsFiniteSet(StoredValues(lv))
    <2>1. StoredValues(lv) \in SUBSET ({Iteration} \cup lv.exiting)
      BY DEF StoredValues
    <2>2. IsFiniteSet({Iteration} \cup lv.exiting)
      BY <1>3, FS_Singleton, FS_Union
    <2> QED
      BY <2>1, <2>2, FS_Subset
  <1>5. IsFiniteSet(StoreInstrs(lv, i))
    <2> DEFINE F == [x \in StoredValues(lv) |->
                       [type |-> "store", value |-> ValueOf(lv, x), pos |-> FindStorePos(ValueOf(lv, x)),
                        index |-> i, nth |-> x]]
    <2>1. StoreInstrs(lv, i) = {F[x] : x \in StoredValues(lv)}
      BY DEF StoreInstrs
    <2> HIDE DEF F
    <2> QED
      BY <1>4, <2>1, ImageFacts
  <1>6. IsFiniteSet(LoadInstrs(lv, i))
    BY FS_Singleton, FS_EmptySet DEF LoadInstrs
  <1>7. IsFiniteSet(ValueInstrs(lv, i))
    BY <1>5, <1>6, FS_Union DEF ValueInstrs
  <1>8. ASSUME ExitsComputed
        PROVE  \E c \in ValueInstrs(lv, i) : c.index = i
    <2>1. \E x : x \in StoredValues(lv)
      <3>1. CASE IsExitOnly(lv)
        <4>1. FromExit(lv)
          BY <1>1, <1>2, <3>1, HeaderOf DEF IsExitOnly
        <4>2. PICK f \in DOMAIN loop.footer : lv.exiting = Exiting(f)
          BY <4>1 DEF FromExit, ExitOnly
        <4> QED
          BY <1>8, <3>1, <4>2 DEF ExitsComputed, StoredValues
      <3>2. CASE ~IsExitOnly(lv)
        BY <3>2 DEF StoredValues
      <3> QED
        BY <3>1, <3>2
    <2>2. PICK x \in StoredValues(lv) : TRUE
      BY <2>1
    <2> DEFINE c == [type |-> "store", value |-> ValueOf(lv, x), pos |-> FindStorePos(ValueOf(lv, x)),
                     index |-> i, nth |-> x]
    <2>3. c \in ValueInstrs(lv, i) /\ c.index = i
      BY <2>2 DEF ValueInstrs, StoreInstrs
    <2> QED
      BY <2>3
  <1> QED
    BY <1>2, <1>7, <1>8


\* The table is large enough for every index.
LEMMA IndicesRight ==
  ASSUME Inductive, ExitsComputed
  PROVE  IndexInTable
  <1> SUFFICES ASSUME Analysed, NEW c \in valueInstrs
               PROVE  c.index < IndexSize
    BY DEF IndexInTable
  <1> DEFINE N == Len(deps)
             V == [n \in 1 .. N |-> ValueInstrs(deps[n], n - 1)]
             index == [d \in valueInstrs |-> d.index]
             T == {index[d] : d \in valueInstrs}
  <1>1. pc \in Filled /\ pc # "fault" /\ pc # "scan"
    BY DEF Analysed, Filled
  <1>2. N \in Nat /\ Len(entries) = N
    BY <1>1, SeqFacts DEF Inductive, DepsInv, EntriesInv
  <1>3. valueInstrs = UNION {V[n] : n \in 1 .. N}
    <2>1. valueInstrs = UNION {ValueInstrs(deps[n], n - 1) : n \in 1 .. N}
      BY <1>1, <1>2 DEF Inductive, EntriesInv
    <2> QED
      BY <2>1
  <1>4. \A n \in 1 .. N : IsFiniteSet(V[n]) /\ \E d \in V[n] : d.index = n - 1
    BY <1>1, CallsOfOne
  <1>5. IsFiniteSet(valueInstrs)
    <2> HIDE DEF V
    <2>1. IsFiniteSet({V[n] : n \in 1 .. N})
      BY <1>2, RangeFinite, ImageFacts
    <2>2. \A t \in {V[n] : n \in 1 .. N} : IsFiniteSet(t)
      BY <1>4
    <2> QED
      BY <1>3, <2>1, <2>2, FS_UNION
  <1>6. IsFiniteSet(T) /\ Cardinality(T) <= Cardinality(valueInstrs)
    <2> HIDE DEF index
    <2> QED
      BY <1>5, ImageFacts
  <1>7. 0 .. N - 1 \in SUBSET T
    <2>1. ASSUME NEW k \in 0 .. N - 1
          PROVE  k \in T
      <3>1. k + 1 \in 1 .. N /\ (k + 1) - 1 = k
        BY <1>2
      <3>2. PICK d \in V[k + 1] : d.index = k
        BY <1>4, <3>1
      <3>3. d \in valueInstrs
        BY <1>3, <3>1, <3>2
      <3>4. k = index[d]
        BY <3>2, <3>3
      <3> QED
        BY <3>3, <3>4
    <2> QED
      BY <2>1
  <1>8. Cardinality(0 .. N - 1) = N
    <2> HIDE DEF N
    <2>1. 0 \in Int /\ N - 1 \in Int
      BY <1>2
    <2>2. Cardinality(0 .. N - 1) = IF 0 > N - 1 THEN 0 ELSE (N - 1) - 0 + 1
      BY <2>1, FS_Interval
    <2> QED
      BY <1>2, <2>2
  <1>9. PICK n \in 1 .. N : c.index = n - 1
    BY <1>1, CallIs
  <1> HIDE DEF T, N
  <1>10. Cardinality(0 .. N - 1) <= Cardinality(T)
    BY <1>6, <1>7, FS_Subset
  <1>11. Cardinality(T) \in Nat /\ Cardinality(valueInstrs) \in Nat
    BY <1>5, <1>6, FS_CardinalityType
  <1> QED
    BY <1>2, <1>6, <1>8, <1>9, <1>10, <1>11 DEF IndexSize


-----------------------------------------------------------------------------
(* Aliases                                                                  *)

LEMMA StaticAliases == loop' = loop /\ AliasesConsistent => AliasesConsistent'
  <1> SUFFICES ASSUME loop' = loop, AliasesConsistent PROVE AliasesConsistent'
    OBVIOUS
  <1>1. StoredPointers' = StoredPointers
    BY Static
  <1> QED
    BY <1>1 DEF AliasesConsistent

\* To be known to be the same is an equivalence on the stored pointers.
LEMMA Equivalence ==
  ASSUME AliasesConsistent
  PROVE  /\ \A p, q \in StoredPointers : Related(p, q) => Related(q, p)
         /\ \A p, q, r \in StoredPointers : Related(p, q) /\ Related(q, r) => Related(p, r)
  BY DEF AliasesConsistent, Related

\* storeSet has stored pointers only.
LEMMA StoresStored ==
  ASSUME SetsInv
  PROVE  storeSet \subseteq StoredPointers
  <1>1. Seen \subseteq Instructions
    BY DEF Seen
  <1> QED
    BY <1>1 DEF SetsInv, StoredPointers, StoreInstructions

\* A pointer is added to the list of those that it aliases.
LEMMA AddsRelated ==
  ASSUME AliasesConsistent, SetsInv, Lists, AliasInv, pc = "stores", NEW p, NEW n, Adds(p, n),
         NEW m \in 1 .. Len(pointers), NEW q \in Range(pointers[m])
  PROVE  m = n <=> Related(p, q)
  <1>1. p \in storeSet \ Listed /\ q \in Listed /\ q \in storeSet
    BY DEF Adds, Listed, Lists
  <1>2. p \in StoredPointers /\ q \in StoredPointers /\ p # q
    BY <1>1, StoresStored
  <1>3. CASE n <= Len(pointers)
    <2>1. n \in 1 .. Len(pointers) /\ n \in KnownAlias(p, loop.must)
      BY <1>3 DEF Adds, KnownAlias
    <2>2. PICK s \in storeSet \cap Range(pointers[n]) : <<s, p>> \in loop.must
      BY <2>1 DEF KnownAlias
    <2>3. s \in StoredPointers /\ Related(s, p)
      BY <2>2, StoresStored DEF Related
    <2>4. n = m <=> Related(s, q)
      BY <2>1, <2>2 DEF AliasInv
    <2> QED
      BY <1>2, <2>3, <2>4, Equivalence
  <1>4. CASE ~(n <= Len(pointers))
    <2>1. KnownAlias(p, loop.must) = {}
      BY <1>4 DEF Adds
    <2>2. m # n
      BY <1>4, AfterAdding DEF Lists
    <2>3. <<q, p>> \notin loop.must
      BY <1>1, <2>1 DEF KnownAlias
    <2>4. ~Related(q, p)
      BY <1>2, <2>3 DEF Related
    <2> QED
      BY <1>2, <2>2, <2>4, Equivalence
  <1> QED
    BY <1>3, <1>4

\* AliasInv is inductive if the alias analysis is consistent.
LEMMA AliasInductive ==
  ASSUME Inductive, AliasInv, AliasesConsistent, [Next]_vars
  PROVE  AliasInv'
  <1>1. loop' = loop
    BY SeenGrows DEF Inductive
  <1>0. \A p, q : Related(p, q)' <=> Related(p, q)
    BY <1>1 DEF Related
  <1>2. CASE pc = "loads"
    <2>1. pc' = "loads"
      BY <1>2 DEF Next, LoopNext, ProcessHeaderPHINode, SeeStore, SeeLoad,
         ProcessInvariants, EndScan,
        Scanning, AddStorePointer, EndStores, LoadAliased, LoadMayAlias, LoadOnly,
        ProcessFooterPHINode, Footers, EndFooter, AddValueEntry, AddPointerEntries, KeepLoop,
        StoreEntries, LoadResult, UpdateExit, Ended, vars, analysis
    <2> QED
      BY <2>1 DEF AliasInv
  <1>3. CASE pc # "loads" /\ ~AddStorePointer
    <2>1. pointers' = pointers
      BY <1>3, PointersUnchanged
    <2> QED
      BY <1>0, <1>3, <2>1 DEF AliasInv
  <1>4. CASE AddStorePointer
    <2>1. pc = "stores" /\ Lists
      BY <1>4 DEF AddStorePointer, Inductive, PointersInv
    <2>2. \E p, n : Adds(p, n)
      BY <1>4, <2>1, AddsOne DEF Lists
    <2>3. PICK p, n : Adds(p, n)
      BY <2>2
    <2>4. \A m \in 1 .. Len(pointers') :
            /\ m # n => m \in 1 .. Len(pointers)
            /\ Range(pointers'[m]) = IF m = n THEN Range(ListOf(n)) \cup {p} ELSE Range(pointers[m])
      BY <2>1, <2>3, AfterAdding DEF Lists
    <2>5. ASSUME NEW x \in Range(ListOf(n))
          PROVE  n \in 1 .. Len(pointers) /\ ListOf(n) = pointers[n]
      <3>1. n <= Len(pointers)
        BY EmptyFacts DEF ListOf
      <3> QED
        BY <2>1, <2>3, <3>1, SeqFacts DEF ListOf, Adds, Lists
    <2>6. ASSUME NEW m \in 1 .. Len(pointers'), NEW x \in Range(pointers'[m])
          PROVE  (m = n /\ x = p) \/ (m \in 1 .. Len(pointers) /\ x \in Range(pointers[m]))
      BY <2>4, <2>5
    <2>7. \A m \in 1 .. Len(pointers) : \A q \in Range(pointers[m]) :
            /\ m = n <=> Related(p, q)
            /\ m = n <=> Related(q, p)
      <3>1. ASSUME NEW m \in 1 .. Len(pointers), NEW q \in Range(pointers[m])
            PROVE  (m = n <=> Related(p, q)) /\ (m = n <=> Related(q, p))
        <4>1. m = n <=> Related(p, q)
          BY <2>1, <2>3, AddsRelated DEF Inductive
        <4>2. p \in StoredPointers /\ q \in StoredPointers
          BY <2>1, <2>3, StoresStored DEF Adds, Lists, Inductive
        <4> QED
          BY <4>1, <4>2, Equivalence
      <3> QED
        BY <3>1
    <2>8. \A m, k \in 1 .. Len(pointers) : \A x \in Range(pointers[m]), y \in Range(pointers[k]) :
            m = k <=> Related(x, y)
      BY <2>1 DEF AliasInv
    <2>9. ASSUME NEW m \in 1 .. Len(pointers'), NEW k \in 1 .. Len(pointers'),
                 NEW x \in Range(pointers'[m]), NEW y \in Range(pointers'[k])
          PROVE  m = k <=> Related(x, y)
      <3>1. /\ (m = n /\ x = p) \/ (m \in 1 .. Len(pointers) /\ x \in Range(pointers[m]))
            /\ (k = n /\ y = p) \/ (k \in 1 .. Len(pointers) /\ y \in Range(pointers[k]))
        BY <2>6
      <3>2. Related(p, p)
        BY DEF Related
      <3> QED
        BY <2>7, <2>8, <3>1, <3>2
    <2> QED
      BY <1>0, <2>9 DEF AliasInv
  <1> QED
    BY <1>2, <1>3, <1>4


\* What a call for a pointer is.
LEMMA PointerCall ==
  ASSUME NEW n, NEW k, NEW c \in PointerInstrs(n, k)
  PROVE  /\ c = [alias |-> <<n, k>>, instr |-> c.instr, operand |-> c.operand]
         /\ c.instr \in Instructions /\ Instr(c.instr).op \in {"load", "store"}
         /\ c.operand \in DOMAIN Instr(c.instr).args
         /\ Instr(c.instr).args[c.operand] = pointers[n][k]
  <1>1. PICK u \in Uses(pointers[n][k]) \X {1, 2} :
          /\ c = [alias |-> <<n, k>>, instr |-> u[1], operand |-> u[2]]
          /\ Instr(u[1]).op \in {"load", "store"}
          /\ u[2] \in DOMAIN Instr(u[1]).args
          /\ Instr(u[1]).args[u[2]] = pointers[n][k]
    BY DEF PointerInstrs
  <1>2. u[1] \in Instructions /\ c.instr = u[1] /\ c.operand = u[2]
    BY <1>1 DEF Uses
  <1> QED
    BY <1>1, <1>2

\* Each access through a stored pointer is replaced once.
LEMMA AccessesOnce ==
  ASSUME Inductive, PointersNotStored, Analysed, NEW i \in Instructions,
         Instr(i).op \in {"load", "store"}, Instr(i).args[1] \in storeSet
  PROVE  Cardinality({c \in pointerInstrs : c.instr = i}) = 1
  <1> DEFINE p == Instr(i).args[1]
  <1>1. /\ loop \in Loops /\ Lists /\ Apart /\ storeSet \subseteq Listed
        /\ storeSet \subseteq StoredPointers
        /\ pointerInstrs = UNION {UNION {PointerInstrs(n, k) : k \in 1 .. Len(pointers[n])} :
                                    n \in 1 .. Len(pointers)}
    <2>1. pc \in Filled /\ pc \notin Before /\ pc # "loads"
      BY DEF Analysed, Filled, Before
    <2>2. KeepInv /\ PointersInv /\ SetsInv /\ ScanInv
      BY DEF Inductive
    <2> QED
      BY <2>1, <2>2, StoresStored DEF KeepInv, PointersInv, ScanInv
  <1>2. PICK n \in 1 .. Len(pointers) : p \in Range(pointers[n])
    BY <1>1 DEF Listed
  <1>3. PICK k \in 1 .. Len(pointers[n]) : pointers[n][k] = p
    BY <1>1, <1>2, SeqFacts DEF Lists
  <1>4. PICK d : d = [alias |-> <<n, k>>, instr |-> i, operand |-> 1]
    OBVIOUS
  <1>5. d \in pointerInstrs /\ d.instr = i
    <2>1. 1 \in DOMAIN Instr(i).args
      BY <1>1, InstructionFacts
    <2>2. i \in Uses(p)
      BY <2>1 DEF Uses, Range
    <2>3. d \in PointerInstrs(n, k)
      <3>1. <<i, 1>> \in Uses(p) \X {1, 2} /\ <<i, 1>>[1] = i /\ <<i, 1>>[2] = 1
        BY <2>2
      <3> QED
        BY <1>3, <1>4, <2>1, <3>1 DEF PointerInstrs
    <2> QED
      BY <1>1, <1>2, <1>3, <1>4, <2>3
  <1>6. ASSUME NEW c \in pointerInstrs, c.instr = i
        PROVE  c = d
    <2>1. PICK m \in 1 .. Len(pointers) : \E j \in 1 .. Len(pointers[m]) : c \in PointerInstrs(m, j)
      BY <1>1
    <2>2. PICK j \in 1 .. Len(pointers[m]) : c \in PointerInstrs(m, j)
      BY <2>1
    <2>3. /\ c = [alias |-> <<m, j>>, instr |-> i, operand |-> c.operand]
          /\ c.operand \in DOMAIN Instr(i).args
          /\ Instr(i).args[c.operand] = pointers[m][j]
      BY <1>6, <2>2, PointerCall
    <2>4. pointers[m][j] \in StoredPointers
      BY <1>1, <2>1, <2>2, SeqFacts DEF Lists
    <2>5. c.operand = 1
      BY <2>3, <2>4 DEF PointersNotStored
    <2>6. m = n /\ j = k
      BY <1>1, <1>3, <2>3, <2>5 DEF Apart
    <2> QED
      BY <1>4, <2>3, <2>5, <2>6
  <1>7. {c \in pointerInstrs : c.instr = i} = {d}
    BY <1>5, <1>6
  <1> QED
    BY <1>7, FS_Singleton

LEMMA StaticRecords ==
  loop' = loop /\ PointersNotStored /\ ExitsComputed => PointersNotStored' /\ ExitsComputed'
  <1> SUFFICES ASSUME loop' = loop, PointersNotStored, ExitsComputed
               PROVE  PointersNotStored' /\ ExitsComputed'
    OBVIOUS
  <1>1. /\ StoredPointers' = StoredPointers /\ Instructions' = Instructions
        /\ \A i : Instr(i)' = Instr(i)
        /\ \A f : Exiting(f)' = Exiting(f)
    BY Static
  <1> QED
    BY <1>1 DEF PointersNotStored, ExitsComputed

\* If the alias analysis is consistent, no stored-to pointer is itself stored, and what is
\* used after the loop is computed by it, every access that is replaced goes through one
\* record of the tracker: an access through a pointer has one call, and the index of a
\* value is one of the table (processPointers, processPointerInstrs, dependency.c:457-484).
THEOREM RecordsAreRight ==
  Spec /\ AliasesConsistent /\ PointersNotStored /\ ExitsComputed => []RecordsRight
  <1> DEFINE Hyp == AliasesConsistent /\ PointersNotStored /\ ExitsComputed
  <1>1. Init => AliasInv
    BY EmptyFacts DEF Init, LoopInit, AliasInv
  <1>2. Inductive /\ Hyp /\ [Next]_vars => Hyp'
    BY SeenGrows, StaticAliases, StaticRecords DEF Inductive
  <1>3. Inductive /\ Hyp /\ AliasInv /\ [Next]_vars => AliasInv'
    BY AliasInductive
  <1>4. Inductive /\ Hyp /\ AliasInv => RecordsRight
    <2> SUFFICES ASSUME Inductive, Hyp, AliasInv PROVE RecordsRight
      OBVIOUS
    <2>1. IndexInTable
      BY IndicesRight
    <2>2. PointersOnce
      <3> SUFFICES ASSUME Analysed PROVE PointersOnce
        BY DEF PointersOnce
      <3>1. pc # "loads"
        BY DEF Analysed
      <3> QED
        BY <3>1, AccessesOnce DEF PointersOnce, AliasInv, Related
    <2> QED
      BY <2>1, <2>2 DEF RecordsRight
  <1> QED
    BY <1>1, <1>2, <1>3, <1>4, Collected, PTL DEF Spec


-----------------------------------------------------------------------------
(* What is handed over                                                      *)

LEMMA StaticHandover ==
  loop' = loop /\ EntriesApart /\ StoredExamined => EntriesApart' /\ StoredExamined'
  <1> SUFFICES ASSUME loop' = loop, EntriesApart, StoredExamined
               PROVE  EntriesApart' /\ StoredExamined'
    OBVIOUS
  <1>1. /\ HeaderPhis' = HeaderPhis /\ StoredPointers' = StoredPointers
        /\ Instructions' = Instructions
        /\ \A i : Instr(i)' = Instr(i) /\ (IsHeaderPhi(i)' <=> IsHeaderPhi(i))
        /\ \A i : EntryOf(i)' = EntryOf(i)
        /\ \A v : IsLoopInvariant(v)' <=> IsLoopInvariant(v)
    BY Static
  <1>2. StoreInstructions' = StoreInstructions
    BY <1>1 DEF StoreInstructions
  <1>3. \A v : Examined(v)' <=> Examined(v)
    BY <1>1 DEF Examined
  <1>4. EntriesApart'
    BY <1>1 DEF EntriesApart
  <1>5. StoredExamined'
    BY <1>1, <1>2, <1>3 DEF StoredExamined
  <1> QED
    BY <1>4, <1>5

\* The function that runs the iterations gets what they need from outside.
LEMMA AllPassed ==
  ASSUME Inductive, StoredExamined
  PROVE  InvariantsPassed
  <1> SUFFICES ASSUME pc \in {"instrument", "results", "done"},
                      NEW i \in Instructions, NEW v \in Range(Instr(i).args),
                      IsLoopInvariant(v), ~IsHeaderPhi(i)
               PROVE  v \in passed
    BY DEF InvariantsPassed
  <1>1. pc \in Filled /\ pc \notin Before /\ pc # "loads" /\ pc # "scan"
    BY DEF Filled, Before
  <1>2. /\ loop \in Loops /\ storeSet \subseteq Listed /\ loadSet = {}
        /\ passed = {p \in Listed : ~InLoop(p)} \cup invariants
    BY <1>1 DEF Inductive, ScanInv, PointersInv, KeepInv
  <1>3. Seen = Instructions
    BY <1>1 DEF Seen
  <1>4. /\ StoredPointers = storeSet
        /\ \A j \in Instructions : Instr(j).op = "load" => Instr(j).args[1] \in storeSet
    BY <1>2, <1>3 DEF Inductive, SetsInv, StoredPointers, StoreInstructions
  <1>5. \A j \in Instructions : Instr(j).op \notin {"load", "store"} /\ ~IsHeaderPhi(j) =>
          \A w \in Range(Instr(j).args) : IsLoopInvariant(w) => w \in invariants
    BY <1>3 DEF Inductive, SetsInv
  <1>6. ASSUME NEW w \in storeSet, IsLoopInvariant(w)
        PROVE  w \in passed
    BY <1>2, <1>6 DEF IsLoopInvariant
  <1>7. CASE Instr(i).op \notin {"load", "store"}
    BY <1>2, <1>5, <1>7
  <1>8. CASE Instr(i).op = "load"
    BY <1>2, <1>4, <1>6, <1>8, InstructionFacts
  <1>9. CASE Instr(i).op = "store"
    <2>1. Examined(v)
      BY <1>9 DEF StoredExamined, StoreInstructions
    <2> QED
      BY <1>2, <1>4, <1>5, <1>6, <2>1 DEF Examined
  <1> QED
    BY <1>7, <1>8, <1>9


\* The dependencies with a header.
LEMMA HeaderDep ==
  ASSUME Inductive, EntriesApart, NEW n \in 1 .. Len(deps), deps[n].header # None,
         NEW m \in 1 .. Len(deps), deps[n].entry \in {deps[m].entry, deps[m].footer}
  PROVE  m = n
  <1>1. /\ loop \in Loops /\ IsSeq(deps)
        /\ \A k \in 1 .. Len(deps) : FromHeader(deps[k]) \/ FromExit(deps[k])
    BY SeqFacts DEF Inductive, ScanInv, DepsInv
  <1>2. PICK d, e : d = deps[n] /\ e = deps[m]
    OBVIOUS
  <1>3. FromHeader(d) /\ d.entry # None
    BY <1>1, <1>2, HeaderOf
  <1>4. PICK i \in Seen : IsHeaderPhi(i) /\ d.header = Instr(i).name /\ d.entry = EntryOf(i)
    BY <1>3 DEF FromHeader
  <1>5. i \in HeaderPhis
    BY <1>4 DEF Seen, HeaderPhis
  <1>6. ASSUME NEW f \in DOMAIN loop.footer
        PROVE  d.entry # loop.footer[f].name
    BY <1>4, <1>5 DEF EntriesApart
  <1>7. CASE FromExit(e)
    <2>1. PICK f \in DOMAIN loop.footer : e = ExitOnly(f)
      BY <1>7 DEF FromExit
    <2>2. e.entry = None /\ e.footer = loop.footer[f].name
      BY <2>1 DEF ExitOnly
    <2> QED
      BY <1>2, <1>3, <1>6, <2>2
  <1>8. CASE FromHeader(e)
    <2>1. PICK j \in Seen : /\ IsHeaderPhi(j) /\ e.header = Instr(j).name /\ e.entry = EntryOf(j)
                            /\ e.footer # None => \E f \in DOMAIN loop.footer : e.footer = loop.footer[f].name
      BY <1>8 DEF FromHeader
    <2>2. d.entry = e.entry
      BY <1>2, <1>3, <1>6, <2>1
    <2>3. i = j
      BY <1>4, <1>5, <2>1, <2>2 DEF EntriesApart, Seen, HeaderPhis
    <2>4. deps[m].header = deps[n].header
      BY <1>2, <1>4, <2>1, <2>3
    <2> QED
      BY <2>4 DEF Inductive, DepsInv
  <1> QED
    BY <1>1, <1>2, <1>7, <1>8

\* What a header phi takes if the n-th entry is read.
LEMMA TakesOwn ==
  ASSUME Inductive, EntriesApart, ResultInv, LoadResult
  PROVE  ResultInv'
  <1> DEFINE N == Len(deps)
             v == deps[next].entry
             having == {n \in 1 .. N : v \in {deps[n].entry, deps[n].footer}}
             lv == deps[Min(having)]
  <1>1. /\ pc = "results" /\ next \in 1 .. N /\ next' = next + 1 /\ N \in Nat /\ Len(entries) = N
        /\ deps' = deps /\ entries' = entries
        /\ entries[next].entry = v
    <2>1. pc = "results" /\ pc # "fault" /\ pc \in Filled
      BY DEF LoadResult, Filled
    <2>2. Len(entries) = N /\ IsSeq(deps)
      BY <2>1 DEF Inductive, EntriesInv, DepsInv
    <2>3. next \in 1 .. N
      BY <2>1, <2>2, SeqFacts DEF Inductive, ScanInv, LoadResult
    <2>4. entries[next] = [entry |-> deps[next].entry, exit |-> deps[next].footer]
      BY <2>1, <2>2, <2>3 DEF Inductive, EntriesInv
    <2> QED
      BY <2>1, <2>2, <2>3, <2>4, SeqFacts DEF LoadResult, found, calls
  <1>2. /\ next \in having /\ Min(having) \in having /\ \A n \in having : Min(having) <= n
    <2>1. next \in having /\ having \subseteq 1 .. N
      BY <1>1
    <2> HIDE DEF having
    <2> QED
      BY <1>1, <2>1, MaxMin
  <1>3. GetDependencyForValue(v) = {lv}
    <2>1. GetDependencyForValue(v) = IF having = {} THEN {} ELSE {lv}
      BY DEF GetDependencyForValue
    <2> QED
      BY <1>2, <2>1
  <1>4. /\ entryPhi' = [h \in Headers |-> IF entryPhi[h] = None /\ lv.header = h THEN next ELSE entryPhi[h]]
        /\ pc' = IF lv.header = None THEN "fault" ELSE "results"
    <2> HIDE DEF v, lv, having
    <2>1. TakesFrom(v, next)
      BY <1>1 DEF LoadResult
    <2> QED
      BY <1>1, <1>3, <2>1 DEF TakesFrom
  <1>5. CASE lv.header = None
    BY <1>4, <1>5 DEF ResultInv, FallbackStarts
  <1>6. CASE lv.header # None
    <2>1. pc' = "results" /\ Headers' = Headers
      BY <1>1, <1>4, <1>6 DEF Headers
    <2>2. /\ entryPhi \in [Headers -> Nat \cup {None}]
          /\ \A n \in 1 .. N : deps[n].header # None =>
               entryPhi[deps[n].header] = IF n < next THEN n ELSE None
      BY <1>1 DEF ResultInv
    <2>3. entryPhi' \in [Headers -> Nat \cup {None}]
      BY <1>1, <1>4, <2>2
    <2>4. PICK m : m = Min(having)
      OBVIOUS
    <2>5. m \in 1 .. N /\ lv = deps[m] /\ m <= next
      BY <1>2, <2>4
    <2>6. deps[next].header # None => m = next
      <3>1. ASSUME deps[next].header # None
            PROVE  m = next
        <4>1. v \in {deps[m].entry, deps[m].footer}
          BY <1>2, <2>4
        <4> QED
          BY <1>1, <2>5, <3>1, <4>1, HeaderDep
      <3> QED
        BY <3>1
    <2>7. ASSUME NEW n \in 1 .. N, deps[n].header # None
          PROVE  entryPhi'[deps[n].header] = IF n < next + 1 THEN n ELSE None
      <3>1. deps[n].header \in Headers
        BY <2>7 DEF Headers
      <3>2. deps[m].header = deps[n].header => m = n
        BY <2>5, <2>7 DEF Inductive, DepsInv
      <3>3. PICK t : t = entryPhi[deps[n].header]
        OBVIOUS
      <3>4. t = IF n < next THEN n ELSE None
        BY <2>2, <2>7, <3>3
      <3>5. entryPhi'[deps[n].header] = IF t = None /\ m = n THEN next ELSE t
        BY <1>4, <2>5, <3>1, <3>2, <3>3
      <3>6. n # None
        BY NoneAssumption
      <3>7. CASE n < next
        BY <1>1, <3>4, <3>5, <3>6, <3>7
      <3>8. CASE n = next
        BY <1>1, <2>6, <2>7, <3>4, <3>5, <3>8
      <3>9. CASE n > next
        <4>1. m # n /\ ~(n < next) /\ ~(n < next + 1)
          BY <1>1, <2>5, <3>9
        <4> HIDE DEF lv, v, having, N
        <4> QED
          BY <3>4, <3>5, <4>1
      <3> QED
        BY <1>1, <3>7, <3>8, <3>9
    <2>8. next + 1 \in 1 .. N + 1
      BY <1>1
    <2> HIDE DEF lv, v, having, N
    <2>9. /\ next' \in 1 .. Len(entries') + 1
          /\ \A n \in 1 .. Len(deps') : deps'[n].header # None =>
               entryPhi'[deps'[n].header] = IF n < next' THEN n ELSE None
      BY <1>1, <2>7, <2>8 DEF N
    <2> QED
      BY <2>1, <2>3, <2>9 DEF ResultInv, FallbackStarts
  <1> QED
    BY <1>5, <1>6


\* The other steps keep what the header phis take.
LEMMA ResultInductive ==
  ASSUME Inductive, EntriesApart, ResultInv, [Next]_vars
  PROVE  ResultInv'
  <1>1. CASE LoadResult
    BY <1>1, TakesOwn
  <1>2. CASE StoreEntries
    <2>1. /\ pc = "instrument" /\ pc' = "results" /\ next' = 1 /\ entries' = entries /\ deps' = deps
          /\ entryPhi' = [h \in Headers |-> None] /\ Headers' = Headers
      BY <1>2 DEF StoreEntries, found, calls, Headers
    <2>2. Len(entries) \in Nat
      BY SeqFacts DEF Inductive, EntriesInv
    <2>3. \A n \in 1 .. Len(deps) : deps[n].header # None => entryPhi'[deps[n].header] = None
      <3>1. \A n \in 1 .. Len(deps) : deps[n].header # None => deps[n].header \in Headers
        BY DEF Headers
      <3> QED
        BY <2>1, <3>1
    <2>4. \A n \in 1 .. Len(deps) : ~(n < 1)
      OBVIOUS
    <2> QED
      BY <2>1, <2>2, <2>3, <2>4 DEF ResultInv, FallbackStarts
  <1>3. CASE UpdateExit
    <2>1. /\ pc = "results" /\ pc' = "done" /\ next > Len(entries)
          /\ entryPhi' = entryPhi /\ deps' = deps
      BY <1>3 DEF UpdateExit, found
    <2>2. Len(entries) = Len(deps) /\ Len(deps) \in Nat /\ next \in Nat
      BY <2>1, SeqFacts DEF Inductive, DepsInv, EntriesInv, ScanInv, Filled
    <2>3. \A n \in 1 .. Len(deps) : n < next
      BY <2>1, <2>2
    <2>4. \A n \in 1 .. Len(deps) : deps[n].header # None => entryPhi[deps[n].header] = n
      BY <2>1, <2>3 DEF ResultInv
    <2> QED
      BY <2>1, <2>4 DEF ResultInv, FallbackStarts
  <1>4. CASE LoopNext
    <2>1. pc' # "results" /\ pc' # "done"
      BY <1>4 DEF LoopNext, ProcessHeaderPHINode, SeeStore, SeeLoad, ProcessInvariants,
         EndScan,
        Scanning, AddStorePointer, EndStores, LoadAliased, LoadMayAlias, LoadOnly,
        ProcessFooterPHINode, Footers, EndFooter, AddValueEntry, AddPointerEntries, KeepLoop
    <2> QED
      BY <2>1 DEF ResultInv, FallbackStarts
  <1>5. CASE UNCHANGED vars
    BY <1>5 DEF ResultInv, FallbackStarts, Headers, vars, analysis
  <1> QED
    BY <1>1, <1>2, <1>3, <1>4, <1>5 DEF Next

\* If no two variables start from the same value, nor from a value after the loop, and what
\* the loop stores it uses otherwise too, the array of entries carries all values there and
\* back: what the iterations need from outside, and what the loop goes on from if the call
\* fails (YarnLoopInfo.h:308-309, YarnInstrumentLoop.cpp:860-867 and 1025-1026).
THEOREM HandoverIsRight == Spec /\ EntriesApart /\ StoredExamined => []HandoverRight
  <1>1. Init => ResultInv
    BY DEF Init, LoopInit, ResultInv, FallbackStarts
  <1>2. Inductive /\ EntriesApart /\ StoredExamined /\ [Next]_vars
          => EntriesApart' /\ StoredExamined'
    BY SeenGrows, StaticHandover DEF Inductive
  <1>3. Inductive /\ EntriesApart /\ ResultInv /\ [Next]_vars => ResultInv'
    BY ResultInductive
  <1>4. Inductive /\ StoredExamined /\ ResultInv => HandoverRight
    BY AllPassed DEF HandoverRight, ResultInv
  <1> QED
    BY <1>1, <1>2, <1>3, <1>4, Collected, PTL DEF Spec


-----------------------------------------------------------------------------
(* Faults                                                                   *)

\* What findWriteInstructions visits is closed under what leads into it.
LEMMA VisitedClosed ==
  ASSUME NEW v \in Phis
  PROVE  v \in Visited(v) /\ \A p \in Visited(v) : Feeds[p] \subseteq Visited(v)
  <1>1. ASSUME NEW p \in Visited(v), NEW q \in Feeds[p]
        PROVE  q \in Visited(v)
    <2>1. p \in Phis /\ q \in Phis
      BY <1>1 DEF Visited, Feeds
    <2>2. ASSUME NEW S \in SUBSET Phis, v \in S, \A r \in S : Feeds[r] \subseteq S
          PROVE  q \in S
      BY <1>1, <2>2 DEF Visited
    <2> QED
      BY <2>1, <2>2 DEF Visited
  <1> QED
    BY <1>1 DEF Visited

\* The search for the writes of a value ends with one at least, which lead to one block.
LEMMA StoreFound ==
  ASSUME PhisFounded, PhisComputed, OneEnd, NEW v, IsInstruction(v)
  PROVE  ~StoreFaults(v)
  <1>1. ASSUME v \in Phis
        PROVE  ~Recurs(v)
    <2>1. Visited(v) \subseteq Phis
      BY DEF Visited
    <2> QED
      BY <2>1 DEF Recurs, PhisFounded
  <1>2. FindWriteInstructions(v) # {}
    <2>1. CASE v \in Phis
      <3>1. Visited(v) \in SUBSET Phis /\ Visited(v) # {}
        BY <2>1, VisitedClosed DEF Visited
      <3>2. PICK p \in Visited(v) : Feeds[p] \cap Visited(v) = {}
        BY <3>1 DEF PhisFounded
      <3>3. Feeds[p] = {} /\ p \in Phis
        BY <2>1, <3>1, <3>2, VisitedClosed
      <3>4. PICK w \in Incoming(p) : IsInstruction(w)
        BY <3>3 DEF PhisComputed
      <3>5. w \notin Phis
        BY <3>3, <3>4 DEF Feeds
      <3> QED
        BY <2>1, <3>2, <3>4, <3>5 DEF FindWriteInstructions
    <2>2. CASE v \notin Phis
      BY <2>2 DEF FindWriteInstructions
    <2> QED
      BY <2>1, <2>2
  <1>3. \A w \in FindWriteInstructions(v) : IsInstruction(w)
    BY DEF FindWriteInstructions
  <1>4. \A w \in FindWriteInstructions(v) : Definition(w)[1] \in DOMAIN loop.code
    <2>1. ASSUME NEW w \in FindWriteInstructions(v)
          PROVE  Definition(w) \in AllInstructions
      BY <1>3, <2>1 DEF IsInstruction, Definition, OneOf
    <2>2. \A i \in AllInstructions : i[1] \in DOMAIN loop.code
      BY DEF AllInstructions
    <2> QED
      BY <2>1, <2>2
  <1>5. PICK b : \A c \in DOMAIN loop.code : <<b, c>> \in loop.pdom
    BY DEF OneEnd, CommonPostDominators, PostDominates
  <1>6. \A w \in FindWriteInstructions(v) : <<b, Definition(w)[1]>> \in loop.pdom
    BY <1>4, <1>5
  <1>7. b \in {e[1] : e \in loop.pdom}
    <2>1. PICK w \in FindWriteInstructions(v) : <<b, Definition(w)[1]>> \in loop.pdom
      BY <1>2, <1>6
    <2>2. <<b, Definition(w)[1]>>[1] = b
      OBVIOUS
    <2> QED
      BY <2>1, <2>2
  <1>8. b \in CommonPostDominators({Definition(w)[1] : w \in FindWriteInstructions(v)})
    BY <1>6, <1>7 DEF CommonPostDominators, PostDominates
  <1> QED
    BY <1>1, <1>2, <1>8 DEF StoreFaults

LEMMA StaticFaults ==
  loop' = loop /\ UpdatesFound /\ ExitsLed => UpdatesFound' /\ ExitsLed'
  <1> SUFFICES ASSUME loop' = loop, UpdatesFound, ExitsLed PROVE UpdatesFound' /\ ExitsLed'
    OBVIOUS
  <1>1. /\ HeaderPhis' = HeaderPhis
        /\ \A i : Instr(i)' = Instr(i)
        /\ \A i : IterationOf(i)' = IterationOf(i)
        /\ \A v : Uses(v)' = Uses(v)
        /\ \A f, i : Continues(f, i)' <=> Continues(f, i)
    BY Static
  <1>2. /\ Phis' = Phis /\ Feeds' = Feeds /\ \A v : Incoming(v)' = Incoming(v)
        /\ \A v : IsInstruction(v)' <=> IsInstruction(v)
    BY StaticValues
  <1>3. VariablesUpdated'
    BY <1>1, <1>2 DEF UpdatesFound, VariablesUpdated
  <1>4. PhisFounded' /\ PhisComputed'
    BY <1>2 DEF UpdatesFound, PhisFounded, PhisComputed
  <1>5. OneEnd'
    BY DEF UpdatesFound, OneEnd, CommonPostDominators, PostDominates
  <1>6. ExitsLed'
    BY <1>1 DEF ExitsLed
  <1> QED
    BY <1>3, <1>4, <1>5, <1>6 DEF UpdatesFound

\* The positions of the calls for a dependency are found.
LEMMA NoValueFault ==
  ASSUME Inductive, UpdatesFound, NEW d, FromHeader(d) \/ FromExit(d)
  PROVE  ~ValueFaults(d)
  <1>1. loop \in Loops
    BY DEF Inductive, ScanInv
  <1>2. \A x \in Exits : ~StoreFaults(ExitingValue(x)) /\ x # Iteration
    <2>1. ASSUME NEW x \in Exits
          PROVE  x # Iteration
      <3>1. PICK f \in DOMAIN loop.footer : x[1] = f
        BY DEF Exits, Exiting
      <3>2. f \in Nat \ {0}
        BY <1>1, LoopFacts, SeqFacts
      <3> QED
        BY <3>1, <3>2 DEF Iteration
    <2>2. ASSUME NEW x \in Exits
          PROVE  ~StoreFaults(ExitingValue(x))
      <3>1. InLoop(ExitingValue(x))
        BY DEF Exits, Exiting, ExitingValue
      <3>2. IsInstruction(ExitingValue(x))
        BY <1>1, <3>1, LoopFacts DEF InLoop, IsInstruction
      <3> QED
        BY <3>2, StoreFound DEF UpdatesFound
    <2> QED
      BY <2>1, <2>2
  <1>3. CASE FromHeader(d)
    <2>1. PICK i \in Seen : /\ IsHeaderPhi(i) /\ d.header = Instr(i).name
                            /\ d.iteration = IterationOf(i) /\ d.exiting \subseteq Exits
      BY <1>3 DEF FromHeader
    <2>2. i \in HeaderPhis
      BY <2>1 DEF Seen, HeaderPhis
    <2>3. ~LoadFaults(d.header) /\ ~StoreFaults(d.iteration)
      <3>1. Uses(d.header) # {} /\ IsInstruction(d.iteration)
        BY <2>1, <2>2 DEF UpdatesFound, VariablesUpdated
      <3> QED
        BY <3>1, StoreFound DEF UpdatesFound, LoadFaults
    <2>4. ASSUME NEW x \in StoredValues(d)
          PROVE  ~StoreFaults(ValueOf(d, x))
      <3>1. x = Iteration \/ x \in Exits
        BY <2>1 DEF StoredValues
      <3> QED
        BY <1>2, <2>3, <3>1 DEF ValueOf
    <2> QED
      BY <2>3, <2>4 DEF ValueFaults
  <1>4. CASE FromExit(d)
    <2>1. PICK f \in DOMAIN loop.footer : d.exiting = Exiting(f)
      BY <1>4 DEF FromExit, ExitOnly
    <2>2. d.exiting \subseteq Exits /\ IsExitOnly(d)
      BY <1>1, <1>4, <2>1, HeaderOf DEF Exits, IsExitOnly
    <2>3. \A x \in StoredValues(d) : ~StoreFaults(ValueOf(d, x))
      BY <1>2, <2>2 DEF StoredValues, ValueOf
    <2> QED
      BY <2>2, <2>3 DEF ValueFaults
  <1> QED
    BY <1>3, <1>4

\* The dependency that an entry is taken for has a header phi.
LEMMA TakesLed ==
  ASSUME Inductive, ExitsLed, LoadResult
  PROVE  pc' # "fault"
  <1> DEFINE N == Len(deps)
             v == deps[next].entry
             having == {n \in 1 .. N : v \in {deps[n].entry, deps[n].footer}}
  <1>1. /\ pc = "results" /\ next \in 1 .. N /\ N \in Nat /\ entries[next].entry = v
        /\ loop \in Loops /\ IsSeq(deps) /\ Seen = Instructions
    <2>1. pc = "results" /\ pc # "fault" /\ pc \in Filled
      BY DEF LoadResult, Filled
    <2>2. Len(entries) = N /\ IsSeq(deps) /\ loop \in Loops
      BY <2>1 DEF Inductive, EntriesInv, DepsInv, ScanInv
    <2>3. next \in 1 .. N
      BY <2>1, <2>2, SeqFacts DEF Inductive, ScanInv, LoadResult
    <2>4. entries[next] = [entry |-> deps[next].entry, exit |-> deps[next].footer]
      BY <2>1, <2>2, <2>3 DEF Inductive, EntriesInv
    <2> QED
      BY <2>1, <2>2, <2>3, <2>4, SeqFacts DEF Seen
  <1>2. /\ next \in having /\ Min(having) \in having /\ \A n \in having : Min(having) <= n
    <2>1. next \in having /\ having \subseteq 1 .. N
      BY <1>1
    <2> HIDE DEF having
    <2> QED
      BY <1>1, <2>1, MaxMin
  <1>3. PICK m : m = Min(having)
    OBVIOUS
  <1>4. GetDependencyForValue(v) = {deps[m]}
    <2>1. GetDependencyForValue(v) = IF having = {} THEN {} ELSE {deps[Min(having)]}
      BY DEF GetDependencyForValue
    <2> QED
      BY <1>2, <1>3, <2>1
  <1>5. \A d \in Range(deps) : FromHeader(d) \/ FromExit(d)
    BY DEF Inductive, DepsInv
  <1>6. \E k \in having : deps[k].header # None
    <2>1. CASE deps[next].header # None
      BY <1>2, <2>1
    <2>2. CASE deps[next].header = None
      <3>1. FromExit(deps[next])
        BY <1>1, <1>5, <2>2, SeqFacts, HeaderOf
      <3>2. v = None
        BY <1>1, <3>1, HeaderOf
      <3>3. PICK i \in HeaderPhis : \A f \in DOMAIN loop.footer : ~Continues(f, i)
        BY <3>1 DEF FromExit, ExitsLed
      <3>4. i \in Seen /\ IsHeaderPhi(i) /\ i \in Instructions
        BY <1>1, <3>3 DEF HeaderPhis
      <3>5. PICK k \in 1 .. N : deps[k].header = Instr(i).name
        BY <3>4 DEF Inductive, DepsInv
      <3>6. deps[k].header # None
        BY <1>1, <3>4, <3>5, InstructionFacts
      <3>7. PICK e : e = deps[k]
        OBVIOUS
      <3>8. FromHeader(e)
        BY <1>1, <1>5, <3>6, <3>7, SeqFacts, HeaderOf
      <3>9. PICK j \in Seen :
              /\ e.header = Instr(j).name
              /\ e.footer # None => \E f \in DOMAIN loop.footer : Continues(f, j)
        BY <3>8 DEF FromHeader
      <3>10. j = i
        BY <1>1, <3>4, <3>5, <3>7, <3>9, LoopFacts
      <3>11. e.footer = None
        BY <3>3, <3>9, <3>10
      <3> QED
        BY <3>2, <3>5, <3>6, <3>7, <3>11
    <2> QED
      BY <2>1, <2>2
  <1>7. PICK k \in having : deps[k].header # None
    BY <1>6
  <1>8. m \in 1 .. N /\ k \in 1 .. N /\ m <= k
    BY <1>2, <1>3
  <1>9. deps[m].header # None
    <2>1. CASE m = k
      BY <1>7, <2>1
    <2>2. CASE m < k
      BY <1>7, <1>8, <2>2 DEF Inductive, DepsInv
    <2> QED
      BY <1>1, <1>8, <2>1, <2>2
  <1>10. TakesFrom(v, next)
    BY <1>1 DEF LoadResult
  <1> HIDE DEF v, having, N
  <1> QED
    BY <1>1, <1>4, <1>9, <1>10 DEF TakesFrom

\* If each variable is read in the loop and updated by an instruction, no phi takes its value
\* from itself nor from constants only, the function has one end, and a variable is not used
\* after the loop if another is used only there, the compiler asserts nothing that is wrong,
\* and follows no null pointer and no recursion without end (findLoadPos,
\* findWriteInstructions, findStorePos, instrumentSrcFct).
THEOREM NothingFaults == Spec /\ UpdatesFound /\ ExitsLed => []NoFault
  <1>1. Init => NoFault
    BY DEF Init, LoopInit, NoFault
  <1>2. Inductive /\ UpdatesFound /\ ExitsLed /\ [Next]_vars => UpdatesFound' /\ ExitsLed'
    BY SeenGrows, StaticFaults DEF Inductive
  <1>3. Inductive /\ UpdatesFound /\ ExitsLed /\ NoFault /\ [Next]_vars => NoFault'
    <2> SUFFICES ASSUME Inductive, UpdatesFound, ExitsLed, NoFault, [Next]_vars
                 PROVE  pc' # "fault"
      BY DEF NoFault
    <2>1. CASE AddValueEntry
      <3>1. /\ pc = "values" /\ next <= Len(deps) /\ next \in Nat \ {0} /\ IsSeq(deps)
            /\ \A d \in Range(deps) : FromHeader(d) \/ FromExit(d)
        BY <2>1 DEF AddValueEntry, Inductive, ScanInv, DepsInv
      <3>2. FromHeader(deps[next]) \/ FromExit(deps[next])
        BY <3>1, SeqFacts
      <3>3. ~ValueFaults(deps[next])
        BY <3>2, NoValueFault
      <3> QED
        BY <2>1, <3>1, <3>3 DEF AddValueEntry
    <2>2. CASE LoadResult
      BY <2>2, TakesLed
    <2>3. CASE LoopNext /\ ~AddValueEntry
      BY <2>3 DEF LoopNext, ProcessHeaderPHINode, SeeStore, SeeLoad, ProcessInvariants,
         EndScan,
        Scanning, AddStorePointer, EndStores, LoadAliased, LoadMayAlias, LoadOnly, NoFault,
        ProcessFooterPHINode, Footers, EndFooter, AddPointerEntries, KeepLoop
    <2>4. CASE StoreEntries \/ UpdateExit \/ UNCHANGED vars
      BY <2>4 DEF StoreEntries, UpdateExit, NoFault, vars, analysis
    <2> QED
      BY <2>1, <2>2, <2>3, <2>4 DEF Next
  <1> QED
    BY <1>1, <1>2, <1>3, Collected, PTL DEF Spec
=============================================================================
