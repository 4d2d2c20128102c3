--------------------------- MODULE TcpServerProps ---------------------------
(***************************************************************************)
(* What must hold between the clients of the server, its connection        *)
(* threads, the image files and the scheduler.                             *)
(***************************************************************************)
EXTENDS TcpServer

(* The recognition reads files that are complete: at the time a task can   *)
(* be run, the file of its name holds all the bytes of one upload and      *)
(* nobody has it open (RecvData closes it before AddTask).                 *)
RunsReadWholeFiles ==
  /\ \A n \in DOMAIN input : \E u \in DOMAIN sizeOf : input[n] = Contents(u)
  /\ \A n \in Names : slot[n].st \in {"NewAdd", "Processing"} => openBy[n] = NoConn

(* The result that a client is sent was recognised from the file it        *)
(* uploaded last, whatever the other connections do: the name is the only  *)
(* link between the file, the task and the result.                         *)
OwnResult ==
  \A c \in Conns : up[c] => \A i \in DOMAIN replies[c] :
    replies[c][i].kind = "Recog" => inputOf[replies[c][i].res] = Contents(upload[c])

(* TcpServer.cpp:180, "replies follow receptions": a client is sent what   *)
(* answers the request it waits for, once, and nothing else.               *)
RepliesAnswer ==
  \A c \in Conns : up[c] =>
    /\ Len(replies[c]) <= 1
    /\ \A i \in DOMAIN replies[c] : replies[c][i].kind \in Answers(expects[c])

(* A client that pauses after the header, and does not send an empty file, *)
(* has each upload confirmed.                                              *)
UploadsConfirmed ==
  \A c \in Conns : expects[c] = "ConfirmRecog" ~> expects[c] # "ConfirmRecog" \/ ~up[c]

(* A client that polls after its upload gets the result of that upload.    *)
ResultsDelivered ==
  \A c \in Conns, u \in Uploads :
    pc[c] = "add" /\ upload[c] = u
      ~> \/ ~up[c] \/ upload[c] # u
         \/ \E i \in DOMAIN replies[c] : replies[c][i].kind = "Recog"

(* scan.py:122: the name of a picture in Images must be unique.            *)
UniqueNames ==
  \A i, j \in DOMAIN requested : requested[i] = requested[j] => i = j
=============================================================================
