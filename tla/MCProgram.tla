----------------------------- MODULE MCProgram -----------------------------
(***************************************************************************)
(* Instances of Program.                                                   *)
(***************************************************************************)
EXTENDS Program

CONSTANTS c1, c2, a1, a2
=============================================================================
