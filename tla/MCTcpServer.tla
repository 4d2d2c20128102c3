---------------------------- MODULE MCTcpServer ----------------------------
(***************************************************************************)
(* Instances of TcpServer: connections whose clients use file names of     *)
(* their own, or the same one.                                             *)
(***************************************************************************)
EXTENDS TcpServerProps

CONSTANTS c1, c2

OwnParts == [c \in Conns |-> IF c = c1 THEN {"a"} ELSE {"b"}]
SameParts == [c \in Conns |-> {"a"}]
=============================================================================
