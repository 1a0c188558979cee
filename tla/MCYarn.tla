------------------------------- MODULE MCYarn -------------------------------
(***************************************************************************)
(* Loops for the module Yarn, and the symmetry of its threads.             *)
(***************************************************************************)
EXTENDS Yarn, TLC

CONSTANTS x, y

\* Iterations of different addresses: a load of what the iteration stored, a second
\* store to the same address, an address only some iterations store to, and a last
\* iteration that stores why it breaks, as in test/check_yarn.c.
Mixed == << << <<"load", x>>, <<"store", x>>, <<"store", x>> >>,
            << <<"load", x>>, <<"store", y>> >>,
            << <<"load", y>>, <<"store", x>>, <<"load", x>>, <<"store", y>> >>,
            << <<"load", x>>, <<"store", y>> >> >>

\* x is an index: the execution that misreads it stores to another address.
Branching == << << <<"load", x>>, <<"store", x>> >>,
                << <<"load", x>>, <<"store", x>> >>,
                << <<"load", y>>, <<"store", y>> >> >>

\* An iteration that stores twice, so that a write can be delayed.
Straying == << << <<"load", x>>, <<"store", x>> >>,
               << <<"load", x>>, <<"store", x>>, <<"store", x>> >> >>

Symmetry == Permutations(Thread)
=============================================================================
