---------------------------- MODULE BoundedFifo ----------------------------
(***************************************************************************)
(* What a bounded queue promises, whatever its threads do: items are taken *)
(* in the order in which they were accepted, each once, and no more than   *)
(* Capacity of them are in the queue.                                      *)
(***************************************************************************)
EXTENDS Naturals, Sequences

CONSTANTS
  Items,     \* what may be put into the queue
  Capacity   \* how many items it holds

ASSUME CapacityAssumption == Capacity \in Nat \ {0}

VARIABLES
  accepted,  \* history: every item the queue accepted, in order
  taken      \* how many of them have been taken

fifoVars == <<accepted, taken>>

FifoInit ==
  /\ accepted = << >>
  /\ taken = 0

Full == Len(accepted) - taken >= Capacity

Put(x) ==
  /\ ~Full
  /\ accepted' = Append(accepted, x)
  /\ UNCHANGED taken

Take ==
  /\ taken < Len(accepted)
  /\ taken' = taken + 1
  /\ UNCHANGED accepted

FifoNext ==
  \/ \E x \in Items : Put(x)
  \/ Take

FifoSpec == FifoInit /\ [][FifoNext]_fifoVars
=============================================================================
