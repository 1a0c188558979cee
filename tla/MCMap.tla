-------------------------------- MODULE MCMap --------------------------------
(***************************************************************************)
(* Hash functions for the module Map.                                      *)
(***************************************************************************)
EXTENDS Map, TLC

CONSTANTS k1, k2, k3

\* Two keys collide in a small table and part in a larger one; the third meets
\* them by linear probing, which wraps around the end of the table.
Colliding == k1 :> 3 @@ k2 :> 7 @@ k3 :> 0

Symmetry == Permutations(Thread)
=============================================================================
