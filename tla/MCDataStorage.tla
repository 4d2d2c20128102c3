--------------------------- MODULE MCDataStorage ---------------------------
(***************************************************************************)
(* Instances of DataStorage.                                               *)
(***************************************************************************)
EXTENDS DataStorage

CONSTANT c1
=============================================================================
