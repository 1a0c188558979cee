------------------------------- MODULE MCLoop -------------------------------
(***************************************************************************)
(* Small loops for the module InstrumentLoop.  Their blocks are             *)
(*                                                                         *)
(*      H -> A -> L -> H,  H -> B -> L,  L -> X  and, with a break,  A -> X *)
(*                                                                         *)
(* and the block P -> H in front of them, which computes what the          *)
(* variables start from and what they may be reset to.                     *)
(*                                                                         *)
(* A plan says for a variable where it is updated and read, and whether it *)
(* is used after the loop; a loop is made of the plans of its variables    *)
(* and of its accesses to memory.                                          *)
(***************************************************************************)
EXTENDS InstrumentLoop, SequencesExt, Graphs

CONSTANTS
  Updates,     \* forms of update: "H", "L", "both", "reset", "maybe", "constant", "last", "flag"
  Scattered,   \* may the reads be in blocks none of which precedes the others?
  SameEntry,   \* do all variables start from the same constant?
  Accesses     \* the sets of accesses to memory

Order == <<"H", "A", "B", "L">>

\* Every value is a triple: the variable, what it is of it, and the block it is from.
In(v) == <<v, "phi", "H">>
Out(v, b) == <<v, "next", b>>
Merge(v) == <<v, "merge", "L">>
Outer(name) == <<name, "", "">>
Entry(v) == IF SameEntry THEN Outer("zero") ELSE <<v, "entry", "P">>
Reset(v) == <<v, "reset", "P">>

\* The blocks where the value of a plan is read, the updates included.
UpdateBlocks(plan) ==
  CASE plan.update \in {"H", "L"} -> {plan.update}
    [] plan.update = "both"       -> {"A", "B"}
    [] plan.update = "maybe"      -> {"A", "L"}
    [] plan.update = "reset"      -> {"A"}
    [] OTHER                      -> {}
Gathered(plan) ==
  LET B == plan.reads \cup UpdateBlocks(plan) IN Cardinality(B) <= 1 \/ "H" \in B

Plans == {p \in [update : Updates, reads : SUBSET {"H", "A", "L"}, live : BOOLEAN] :
            /\ p.update \in {"last", "flag"} => p.reads = {} /\ p.live
            /\ p.update = "constant" => p.reads # {}
            /\ Scattered \/ Gathered(p)}

HasPhi(plan) == plan.update \notin {"last", "flag"}

\* The value of variable v at the end of the latch, and of block A.
AtLatch(v, plan) ==
  CASE plan.update \in {"H", "L"}                 -> Out(v, plan.update)
    [] plan.update \in {"both", "reset", "maybe"} -> Merge(v)
    [] plan.update = "constant"                   -> Outer("one")
    [] plan.update = "last"                       -> Out(v, "H")
    [] OTHER                                      -> Outer("zero")
AtA(v, plan) ==
  CASE plan.update \in {"L", "constant"} -> In(v)
    [] plan.update = "flag"              -> Outer("one")
    [] plan.update \in {"H", "last"}     -> Out(v, "H")
    [] OTHER                             -> Out(v, "A")

Instruction(name, op, args) == [name |-> name, op |-> op, args |-> args]
If(condition, instr) == IF condition THEN <<instr>> ELSE << >>

PhisOf(v, plan, b) ==
  If(b = "H" /\ HasPhi(plan), Instruction(In(v), "phi", <<Entry(v), AtLatch(v, plan)>>))
  \o If(b = "L" /\ plan.update = "both",
        Instruction(Merge(v), "phi", <<Out(v, "A"), Out(v, "B")>>))
  \o If(b = "L" /\ plan.update = "maybe",
        Instruction(Merge(v), "phi", <<Out(v, "A"), In(v)>>))
  \o If(b = "L" /\ plan.update = "reset",
        Instruction(Merge(v), "phi", <<Out(v, "A"), Reset(v)>>))

Body(v, plan, b) ==
  If(b = "P" /\ ~SameEntry, Instruction(Entry(v), "op", <<Outer("start")>>))
  \o If(b = "P", Instruction(Reset(v), "op", <<Outer("start")>>))
  \o If(b \in plan.reads, Instruction(<<v, "read", b>>, "op", <<In(v)>>))
  \o If(b = "H" /\ plan.update = "last", Instruction(Out(v, b), "op", <<Outer("step")>>))
  \o If(b \in UpdateBlocks(plan) /\ ~(plan.update = "maybe" /\ b = "L"),
        Instruction(Out(v, b), "op", <<In(v), Outer("step")>>))

\* An access is <<operation, pointer, block, value stored>>.
Memory(M, b) ==
  LET here == SetToSeq({m \in M : m[3] = b})
  IN  [n \in 1 .. Len(here) |->
         Instruction(<<here[n][1], here[n][2], b>>, here[n][1],
                     IF here[n][1] = "store" THEN <<Outer(here[n][2]), here[n][4]>>
                     ELSE <<Outer(here[n][2])>>)]

BlockNames == {"H", "A", "B", "L"}
Nodes == BlockNames \cup {"P", "X"}
Targets(breaks) == [b \in BlockNames \cup {"P"} |->
                         CASE b = "P" -> {"H"}
                           [] b = "H" -> {"A", "B"}
                           [] b = "L" -> {"H", "X"}
                           [] b = "A" /\ breaks -> {"L", "X"}
                           [] OTHER -> {"L"}]

\* Does every path from one node to another pass through b?
Separates(b, from, to, breaks) ==
  LET G == [node |-> Nodes \ {b},
            edge |-> {e \in (Nodes \ {b, "X"}) \X (Nodes \ {b}) : e[2] \in Targets(breaks)[e[1]]}]
  IN  b \in {from, to} \/ ~ConnectionsIn(G)[from, to]

\* The dominator trees of the two graphs.
Dom == [breaks \in BOOLEAN |->
          {<<b, c>> \in Nodes \X Nodes : Separates(b, "P", c, breaks)}]
PostDom == [breaks \in BOOLEAN |->
              {<<b, c>> \in Nodes \X Nodes : Separates(b, c, "X", breaks)}]

\* The plans of the variables in a sequence; the sources of the phis of the exit block.
Loop(plans, M, breaks) ==
  LET Vars == 1 .. Len(plans)
      Name(v) == <<"w", "x", "y", "z">>[v]
      Code(b) == FlattenSeq([v \in Vars |-> PhisOf(Name(v), plans[v], b)])
                 \o FlattenSeq([v \in Vars |-> Body(Name(v), plans[v], b)])
                 \o Memory(M, b) \o <<Instruction(<<b, "end", b>>, "br", << >>)>>
      live == SelectSeq([v \in Vars |-> v], LAMBDA v : plans[v].live)
  IN  [order |-> Order,
       code |-> [b \in BlockNames \cup {"P"} |-> Code(b)],
       succ |-> Targets(breaks),
       dom |-> Dom[breaks],
       pdom |-> PostDom[breaks],
       footer |-> [n \in 1 .. Len(live) |->
                     LET v == Name(live[n])
                         plan == plans[live[n]]
                     IN  [name |-> <<v, "exit", "">>,
                          from |-> IF breaks THEN <<"A", "L">> ELSE <<"L">>,
                          args |-> IF breaks THEN <<AtA(v, plan), AtLatch(v, plan)>>
                                   ELSE <<AtLatch(v, plan)>>]],
       constants |-> {Outer("zero"), Outer("one")},
       must |-> {<<Outer(p), Outer(p)>> : p \in {"p", "q", "r"}}
                \cup {<<Outer("p"), Outer("q")>>, <<Outer("q"), Outer("p")>>},
       may |-> LET P == {Outer("p"), Outer("q")}
                  R == {Outer("r")}
              IN  (P \X R) \cup (R \X P)]

\* A value that a loop without a break leaves unset, or a break that skips a merge, is
\* not a loop of the source language after LLVM's passes, or is left out.
Sensible(s) ==
  \A v \in 1 .. 2 : LET u == s.plans[v].update
                    IN  IF s.breaks THEN u \notin {"both", "reset", "maybe"} ELSE u # "flag"

\* The dependency that is asked for a value used only after the loop is the first one
\* without a phi in the exit block: here it is that of a variable with a header phi.
Led(s) == "last" \in {s.plans[1].update, s.plans[2].update} =>
             HasPhi(s.plans[1]) /\ ~s.plans[1].live

\* The second variable is read where it is updated and in the header at most, and in a loop
\* with accesses to memory it is only updated.
LoopPlans == {s \in [plans : Plans \X {p \in Plans : p.reads \subseteq {"H"}},
                     M : Accesses, breaks : BOOLEAN] :
                s.M # {} => LET p == s.plans[2]
                            IN  p.reads = {} /\ (p.live => p.update = "last")}

LoopsOf(S) == {Loop(s.plans, s.M, s.breaks) : s \in S}

\* As many calls as instructions.
Crowded ==
  LET plan == [update |-> "L", reads |-> {}, live |-> TRUE]
  IN  [plans |-> <<plan, plan, plan, plan>>, M |-> {}, breaks |-> TRUE]

AnyLoops == LoopsOf({s \in LoopPlans : Sensible(s)})
LedLoops == LoopsOf({s \in LoopPlans : Sensible(s) /\ Led(s)})
SoundLoops == LoopsOf({s \in LoopPlans : Sensible(s) /\ Led(s)} \cup {Crowded})

\* The accesses to memory: p and q always alias, r may alias both.
StoreOf(p, b) == <<"store", p, b, Outer("one")>>
LoadOf(p, b) == <<"load", p, b>>
Stores == {{}, {StoreOf("p", "A"), LoadOf("p", "L")},
           {LoadOf("p", "H"), StoreOf("q", "L"), StoreOf("p", "L")},
           {StoreOf("r", "A"), StoreOf("p", "B"), StoreOf("q", "L")}}
Reads == {{LoadOf("q", "L"), StoreOf("p", "L")}, {LoadOf("r", "H"), StoreOf("p", "B")},
          {LoadOf("p", "A")}}
Both == Stores \cup Reads
Argument == {{<<"store", "p", "L", Outer("value")>>}}
NoMemory == {{}}
=============================================================================
