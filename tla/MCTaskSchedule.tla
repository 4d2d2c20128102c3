--------------------------- MODULE MCTaskSchedule ---------------------------
(* Instances of the scheduler for TLC.                                     *)
EXTENDS TaskScheduleProps

CONSTANTS c1, c2, n1, n2, w1, w2

(* Both clients use every name: the same image uploaded twice.             *)
SharedNames == [c \in Clients |-> Names]

(* One name for both clients, and one that only c1 uses.                   *)
MixedNames == [c \in Clients |-> IF c = c1 THEN {n1, n2} ELSE {n2}]
=============================================================================
