--------------------------- MODULE MCAsyncLogger ---------------------------
(***************************************************************************)
(* An instance of AsyncLogger whose messages fill a file exactly, by two,  *)
(* or are larger than a file.                                              *)
(***************************************************************************)
EXTENDS AsyncLogger

CONSTANTS t1, t2

Sizes == [m \in 1..MaxMsg |-> << 1, 2, 2, 1, 4, 3 >>[m]]
QueueItems == 0..MaxMsg
=============================================================================
