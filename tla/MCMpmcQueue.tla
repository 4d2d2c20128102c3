---------------------------- MODULE MCMpmcQueue ----------------------------
(***************************************************************************)
(* An instance of MpmcQueue with threads and items that are alike.         *)
(***************************************************************************)
EXTENDS MpmcQueue, TLC

CONSTANTS p1, p2, c1, c2, x, y

Alike == Permutations(Producers) \cup Permutations(Consumers) \cup Permutations(Items)
=============================================================================
