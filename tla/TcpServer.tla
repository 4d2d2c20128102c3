----------------------------- MODULE TcpServer -----------------------------
(***************************************************************************)
(* The threads that serve client connections (TcpServer::ClientComm), with *)
(* the streams of bytes they read, the image files they write and the      *)
(* scheduler they hand the files to.                                       *)
(*                                                                         *)
(* A request to recognise a file is a header with the size of the file and *)
(* its name, followed by the contents.  The header gets no reply, so the   *)
(* two may arrive in one call of recv.  The thread counts what it receives *)
(* after the header; when the count equals the size it closes the file,    *)
(* replies ConfirmRecog and adds a task.  The client then polls with       *)
(* GetRecog until the reply is the result.                                 *)
(*                                                                         *)
(* The scheduler is OcrService, which module TaskSchedule implements: a    *)
(* connection sees of it the slot of a name and nothing else.  External:   *)
(* the clients, which keep to the protocol but may close a connection at   *)
(* any time, and the recognition, which reads the image file of its task.  *)
(***************************************************************************)
EXTENDS Naturals, Sequences, FiniteSets

CONSTANTS
  Conns,        \* connections
  NoConn,
  PartsOf,      \* connection -> the file names its client may ask for
  Sizes,        \* file sizes, in pieces that one call of send transmits
  Paced,        \* does a client start at most one upload per second?
  Pauses,       \* does a client wait until the header has been received?
  OpenMayFail,  \* may fopen_s fail although nobody has the file open?
  MaxClock,     \* bound: seconds of the clock
  MaxUploads    \* bound: uploads begun, by all clients together

\* fileName is empty until a header gives it a name
NoPart == ""

ASSUME TcpAssumption ==
  /\ NoConn \notin Conns
  /\ \A c \in Conns : NoPart \notin PartsOf[c]
  /\ Sizes \subseteq Nat
  /\ Paced \in BOOLEAN /\ Pauses \in BOOLEAN /\ OpenMayFail \in BOOLEAN
  /\ MaxClock \in Nat
  /\ MaxUploads \in Nat

VARIABLES
  clock,        \* the second of the day
  \* each connection: its thread ...
  pc,           \* "none", "recv", "add", "close", "ended"
  bContinueAccept, fileSize, accpetedSize, fileName,
  fp,           \* is fp not null?
  \* ... its client ...
  up,           \* has the client not closed the connection?
  expects,      \* the kind of the reply the client waits for
  toSend,       \* pieces of the file it has still to send
  upload,       \* history: the number of its last upload
  \* ... and what is in transit
  stream, replies,
  \* the directory Images
  files,        \* name -> pieces written, for the names that exist
  openBy,       \* name -> connection that has the file open for writing
  \* the scheduler, and the recognition
  slot, produced, recorded,
  input,        \* name -> pieces its run has read, once it has
  \* history
  inputOf,      \* result -> pieces the run had read
  sizeOf,       \* upload -> size
  requested     \* names given to uploads, in order

threadVars == <<pc, bContinueAccept, fileSize, accpetedSize, fileName, fp>>
clientVars == <<up, expects, toSend, upload, sizeOf>>
diskVars == <<files, openBy>>
schedVars == <<slot, produced, recorded>>
runVars == <<input, inputOf>>
vars == <<clock, threadVars, clientVars, stream, replies, diskVars, schedVars,
          runVars, requested>>
-----------------------------------------------------------------------------
(* A name is the time of the request, to the second, and the name the      *)
(* client gave the file (the date is not part of it).                      *)
Parts == UNION {PartsOf[c] : c \in Conns}
Names == [sec : 0..MaxClock, part : Parts]
NoName == [sec |-> 0, part |-> NoPart]

Uploads == 1..MaxUploads
Results == [name : Names, run : Uploads]
NoResult == [name |-> NoName, run |-> 0]

Scheduler == INSTANCE OcrService

(* What travels to the server, and back.                                   *)
Header(u, p, s) == [kind |-> "RequestRecog", upload |-> u, part |-> p, size |-> s]
Piece(u) == [kind |-> "data", upload |-> u]
Command(k) == [kind |-> k]
Reply(k) == [kind |-> k, res |-> NoResult]
Answer(r) == [kind |-> "Recog", res |-> r]

(* The contents of upload u.                                               *)
Contents(u) == [i \in 1..sizeOf[u] |-> Piece(u)]

(* The replies that answer a request for which the client waits.           *)
Answers(k) == IF k = "Recog" THEN {"Recog", "WaitRecog"} ELSE {k}

Init ==
  /\ clock = 0
  /\ pc = [c \in Conns |-> "none"]
  /\ bContinueAccept = [c \in Conns |-> FALSE]
  /\ fileSize = [c \in Conns |-> 0]
  /\ accpetedSize = [c \in Conns |-> 0]
  /\ fileName = [c \in Conns |-> NoName]
  /\ fp = [c \in Conns |-> FALSE]
  /\ up = [c \in Conns |-> FALSE]
  /\ expects = [c \in Conns |-> "nothing"]
  /\ toSend = [c \in Conns |-> 0]
  /\ upload = [c \in Conns |-> 0]
  /\ stream = [c \in Conns |-> <<>>]
  /\ replies = [c \in Conns |-> <<>>]
  /\ files = <<>>
  /\ openBy = [n \in Names |-> NoConn]
  /\ Scheduler!SvcInit
  /\ input = <<>> /\ inputOf = <<>>
  /\ sizeOf = <<>>
  /\ requested = <<>>
-----------------------------------------------------------------------------
(***************************************************************************)
(* The clients.                                                            *)
(***************************************************************************)
ToServer(c, m) == stream' = [stream EXCEPT ![c] = Append(@, m)]

ClientRequest(c, p, s) ==
  /\ up[c] /\ expects[c] = "nothing"
  /\ Len(sizeOf) < MaxUploads
  /\ Paced /\ upload[c] # 0 => clock > fileName[c].sec
  /\ LET u == Len(sizeOf) + 1
     IN  /\ sizeOf' = Append(sizeOf, s)
         /\ upload' = [upload EXCEPT ![c] = u]
         /\ ToServer(c, Header(u, p, s))
  /\ toSend' = [toSend EXCEPT ![c] = s]
  /\ expects' = [expects EXCEPT ![c] = "ConfirmRecog"]
  /\ UNCHANGED <<clock, threadVars, up, replies, diskVars, schedVars, runVars, requested>>

ClientPiece(c) ==
  /\ up[c] /\ toSend[c] > 0
  /\ Pauses => \A i \in DOMAIN stream[c] : stream[c][i].kind # "RequestRecog"
  /\ ToServer(c, Piece(upload[c]))
  /\ toSend' = [toSend EXCEPT ![c] = @ - 1]
  /\ UNCHANGED <<clock, threadVars, up, expects, upload, sizeOf, replies, diskVars,
                 schedVars, runVars, requested>>

ClientAsks(c, command, k) ==
  /\ up[c] /\ expects[c] = "nothing"
  /\ ToServer(c, Command(command))
  /\ expects' = [expects EXCEPT ![c] = k]
  /\ UNCHANGED <<clock, threadVars, up, toSend, upload, sizeOf, replies, diskVars,
                 schedVars, runVars, requested>>

ClientGet(c) == upload[c] # 0 /\ ClientAsks(c, "GetRecog", "Recog")

ClientSelect(c) ==
  \/ ClientAsks(c, "RequestSelect", "ConfirmSelect")
  \/ ClientAsks(c, "GetSelect", "Rows")

ClientReads(c) ==
  /\ up[c] /\ replies[c] # <<>>
  /\ replies' = [replies EXCEPT ![c] = Tail(@)]
  /\ expects' = [expects EXCEPT ![c] = "nothing"]
  /\ UNCHANGED <<clock, threadVars, up, toSend, upload, sizeOf, stream, diskVars,
                 schedVars, runVars, requested>>

Disconnect(c) ==
  /\ up[c]
  /\ up' = [up EXCEPT ![c] = FALSE]
  /\ UNCHANGED <<clock, threadVars, expects, toSend, upload, sizeOf, stream, replies,
                 diskVars, schedVars, runVars, requested>>
-----------------------------------------------------------------------------
(* Start accepts every connection and gives it a thread.                   *)
AcceptConnection(c) ==
  /\ pc[c] = "none"
  /\ pc' = [pc EXCEPT ![c] = "recv"]
  /\ up' = [up EXCEPT ![c] = TRUE]
  /\ UNCHANGED <<clock, bContinueAccept, fileSize, accpetedSize, fileName, fp, expects,
                 toSend, upload, sizeOf, stream, replies, diskVars, schedVars, runVars,
                 requested>>

(* A call of recv takes any number of the pieces that have arrived.        *)
Recv(c, k) ==
  /\ pc[c] = "recv"
  /\ k \in 1..Len(stream[c])
  /\ stream' = [stream EXCEPT ![c] = SubSeq(@, k + 1, Len(@))]
  /\ UNCHANGED <<clock, clientVars, schedVars, runVars>>

(* recv returns 0 or an error: the loop is left, and fp is not closed.     *)
RecvClosed(c) ==
  /\ pc[c] = "recv"
  /\ ~up[c]
  /\ pc' = [pc EXCEPT ![c] = "ended"]
  /\ UNCHANGED <<clock, bContinueAccept, fileSize, accpetedSize, fileName, fp, clientVars,
                 stream, replies, diskVars, schedVars, runVars, requested>>

(* The thread sends m and goes on at p; if send fails it leaves the loop.  *)
Send(c, m, p) ==
  \/ /\ replies' = [replies EXCEPT ![c] = Append(@, m)]
     /\ pc' = [pc EXCEPT ![c] = p]
  \/ /\ ~up[c]
     /\ pc' = [pc EXCEPT ![c] = "ended"]
     /\ UNCHANGED replies

CloseFile(c) ==
  /\ fp' = [fp EXCEPT ![c] = FALSE]
  /\ openBy' = IF fp[c] THEN [openBy EXCEPT ![fileName[c]] = NoConn] ELSE openBy

(* Mutant: the file is not closed.                                         *)
RecvData_NotClosed(c, k) ==
  /\ bContinueAccept[c]
  /\ Recv(c, k)
  /\ files' = IF fp[c]
                THEN [files EXCEPT ![fileName[c]] = @ \o SubSeq(stream[c], 1, k)]
                ELSE files
  /\ accpetedSize' = [accpetedSize EXCEPT ![c] = @ + k]
  /\ IF accpetedSize[c] + k = fileSize[c]
       THEN Send(c, Reply("ConfirmRecog"), "add")
       ELSE UNCHANGED <<pc, replies>>
  /\ UNCHANGED <<bContinueAccept, fileSize, fileName, fp, openBy, requested>>

(* Mutant: every part of the file is confirmed.                            *)
RecvData_EachPart(c, k) ==
  /\ bContinueAccept[c]
  /\ Recv(c, k)
  /\ files' = IF fp[c]
                THEN [files EXCEPT ![fileName[c]] = @ \o SubSeq(stream[c], 1, k)]
                ELSE files
  /\ accpetedSize' = [accpetedSize EXCEPT ![c] = @ + k]
  /\ IF accpetedSize[c] + k = fileSize[c]
       THEN CloseFile(c) /\ Send(c, Reply("ConfirmRecog"), "add")
       ELSE Send(c, Reply("ConfirmRecog"), "recv") /\ UNCHANGED <<fp, openBy>>
  /\ UNCHANGED <<bContinueAccept, fileSize, fileName, requested>>

(* Whatever arrives while bContinueAccept is set belongs to the file.      *)
RecvData(c, k) ==
  /\ bContinueAccept[c]
  /\ Recv(c, k)
  /\ files' = IF fp[c]
                THEN [files EXCEPT ![fileName[c]] = @ \o SubSeq(stream[c], 1, k)]
                ELSE files
  /\ accpetedSize' = [accpetedSize EXCEPT ![c] = @ + k]
  /\ IF accpetedSize[c] + k = fileSize[c]
       THEN CloseFile(c) /\ Send(c, Reply("ConfirmRecog"), "add")
       ELSE UNCHANGED <<pc, fp, openBy, replies>>
  /\ UNCHANGED <<bContinueAccept, fileSize, fileName, requested>>

(* Mutant: bContinueAccept stays set.                                      *)
AddTask_StillAccepts(c) ==
  /\ pc[c] = "add"
  /\ IF slot[fileName[c]] = Scheduler!Empty
       THEN Scheduler!Accept(fileName[c])
       ELSE UNCHANGED schedVars
  /\ pc' = [pc EXCEPT ![c] = "recv"]
  /\ UNCHANGED <<clock, bContinueAccept, fileSize, accpetedSize, fileName, fp, clientVars,
                 stream, replies, diskVars, runVars, requested>>

(* AddTask does nothing if the scheduler has a task of that name.          *)
AddTask(c) ==
  /\ pc[c] = "add"
  /\ IF slot[fileName[c]] = Scheduler!Empty
       THEN Scheduler!Accept(fileName[c])
       ELSE UNCHANGED schedVars
  /\ bContinueAccept' = [bContinueAccept EXCEPT ![c] = FALSE]
  /\ pc' = [pc EXCEPT ![c] = "recv"]
  /\ UNCHANGED <<clock, fileSize, accpetedSize, fileName, fp, clientVars, stream, replies,
                 diskVars, runVars, requested>>

(* Outside a file the command is what the first piece says; the rest of    *)
(* what recv returned is dropped.                                          *)
RecvCommand(c, k, kind) ==
  /\ ~bContinueAccept[c]
  /\ Recv(c, k)
  /\ stream[c][1].kind = kind

(* fopen_s opens the file for this thread alone and empties it.            *)
OpenFile(c, n) ==
  \/ /\ openBy[n] = NoConn
     /\ files' = [x \in DOMAIN files \cup {n} |-> IF x = n THEN <<>> ELSE files[x]]
     /\ openBy' = [openBy EXCEPT ![n] = c]
     /\ fp' = [fp EXCEPT ![c] = TRUE]
  \/ /\ OpenMayFail \/ openBy[n] # NoConn
     /\ fp' = [fp EXCEPT ![c] = FALSE]
     /\ UNCHANGED <<files, openBy>>

(* Mutant: a connection keeps its first file name.                         *)
RequestRecog_NameKept(c, k) ==
  /\ RecvCommand(c, k, "RequestRecog")
  /\ LET h == stream[c][1]
         n == IF fileName[c] = NoName THEN [sec |-> clock, part |-> h.part] ELSE fileName[c]
     IN  /\ fileSize' = [fileSize EXCEPT ![c] = h.size]
         /\ fileName' = [fileName EXCEPT ![c] = n]
         /\ requested' = Append(requested, n)
         /\ OpenFile(c, n)
  /\ bContinueAccept' = [bContinueAccept EXCEPT ![c] = TRUE]
  /\ accpetedSize' = [accpetedSize EXCEPT ![c] = 0]
  /\ UNCHANGED <<pc, replies>>

(* Mutant: the count of received bytes is not reset.                       *)
RequestRecog_CountKept(c, k) ==
  /\ RecvCommand(c, k, "RequestRecog")
  /\ LET h == stream[c][1]
         n == [sec |-> clock, part |-> h.part]
     IN  /\ fileSize' = [fileSize EXCEPT ![c] = h.size]
         /\ fileName' = [fileName EXCEPT ![c] = n]
         /\ requested' = Append(requested, n)
         /\ OpenFile(c, n)
  /\ bContinueAccept' = [bContinueAccept EXCEPT ![c] = TRUE]
  /\ UNCHANGED <<pc, accpetedSize, replies>>

RequestRecog(c, k) ==
  /\ RecvCommand(c, k, "RequestRecog")
  /\ LET h == stream[c][1]
         n == [sec |-> clock, part |-> h.part]
     IN  /\ fileSize' = [fileSize EXCEPT ![c] = h.size]
         /\ fileName' = [fileName EXCEPT ![c] = n]
         /\ requested' = Append(requested, n)
         /\ OpenFile(c, n)
  /\ bContinueAccept' = [bContinueAccept EXCEPT ![c] = TRUE]
  /\ accpetedSize' = [accpetedSize EXCEPT ![c] = 0]
  /\ UNCHANGED <<pc, replies>>

(* GetService returns its default for anything it does not know, and the   *)
(* default is the command whose number is 0, RequestRecog, of size 0 and   *)
(* without a name: the thread starts to receive a file that cannot end.    *)
UnknownCommand(c, k) ==
  /\ RecvCommand(c, k, "data")
  /\ fileSize' = [fileSize EXCEPT ![c] = 0]
  /\ fileName' = [fileName EXCEPT ![c] = NoName]
  /\ fp' = [fp EXCEPT ![c] = FALSE]
  /\ bContinueAccept' = [bContinueAccept EXCEPT ![c] = TRUE]
  /\ accpetedSize' = [accpetedSize EXCEPT ![c] = 0]
  /\ UNCHANGED <<pc, replies, diskVars, requested>>

(* GetResult is asked for the last name of this connection.                *)
GetRecog(c, k) ==
  /\ RecvCommand(c, k, "GetRecog")
  /\ IF fileName[c] \in Names /\ slot[fileName[c]].st = "Processed"
       THEN Send(c, Answer(slot[fileName[c]].res), "close")
       ELSE Send(c, Reply("WaitRecog"), "recv")
  /\ UNCHANGED <<bContinueAccept, fileSize, accpetedSize, fileName, fp, diskVars, requested>>

CloseTask(c) ==
  /\ pc[c] = "close"
  /\ IF slot[fileName[c]].st = "Processed"
       THEN Scheduler!Close(fileName[c])
       ELSE UNCHANGED schedVars
  /\ pc' = [pc EXCEPT ![c] = "recv"]
  /\ UNCHANGED <<clock, bContinueAccept, fileSize, accpetedSize, fileName, fp, clientVars,
                 stream, replies, diskVars, runVars, requested>>

(* The two selections differ in their replies; the rows are not modelled.  *)
Select(c, k) ==
  /\ \/ RecvCommand(c, k, "RequestSelect") /\ Send(c, Reply("ConfirmSelect"), "recv")
     \/ RecvCommand(c, k, "GetSelect") /\ Send(c, Reply("Rows"), "recv")
  /\ UNCHANGED <<bContinueAccept, fileSize, accpetedSize, fileName, fp, diskVars, requested>>
-----------------------------------------------------------------------------
(***************************************************************************)
(* The scheduler and the recognition.  A run reads the image file of its   *)
(* task, which must exist and not be open for writing; a run that cannot   *)
(* read it never ends.                                                     *)
(***************************************************************************)
OcrStart(n) ==
  /\ Scheduler!Start(n)
  /\ UNCHANGED <<clock, threadVars, clientVars, stream, replies, diskVars, runVars, requested>>

ReadImage(n) ==
  /\ slot[n].st = "Processing"
  /\ n \notin DOMAIN input
  /\ n \in DOMAIN files /\ openBy[n] = NoConn
  /\ input' = [x \in DOMAIN input \cup {n} |-> IF x = n THEN files[n] ELSE input[x]]
  /\ UNCHANGED <<clock, threadVars, clientVars, stream, replies, diskVars, schedVars,
                 inputOf, requested>>

OcrFinish(n) ==
  /\ n \in DOMAIN input
  /\ LET r == [name |-> n, run |-> Cardinality(produced) + 1]
     IN  /\ Scheduler!Finish(r)
         /\ inputOf' = [x \in DOMAIN inputOf \cup {r} |->
                          IF x = r THEN input[n] ELSE inputOf[x]]
  /\ input' = [x \in DOMAIN input \ {n} |-> input[x]]
  /\ UNCHANGED <<clock, threadVars, clientVars, stream, replies, diskVars, requested>>

StoreRecord(r) ==
  /\ Scheduler!Record(r)
  /\ UNCHANGED <<clock, threadVars, clientVars, stream, replies, diskVars, runVars, requested>>

Tick ==
  /\ clock < MaxClock
  /\ clock' = clock + 1
  /\ UNCHANGED <<threadVars, clientVars, stream, replies, diskVars, schedVars, runVars,
                 requested>>
-----------------------------------------------------------------------------
ClientStep(c) ==
  \/ \E p \in PartsOf[c], s \in Sizes : ClientRequest(c, p, s)
  \/ ClientPiece(c) \/ ClientGet(c) \/ ClientSelect(c) \/ ClientReads(c)
  \/ Disconnect(c)

ThreadStep(c) ==
  \/ \E k \in 1..Len(stream[c]) :
       \/ RecvData(c, k) \/ RequestRecog(c, k) \/ UnknownCommand(c, k)
       \/ GetRecog(c, k) \/ Select(c, k)
  \/ RecvClosed(c) \/ AddTask(c) \/ CloseTask(c)

OcrStep(n) == OcrStart(n) \/ ReadImage(n) \/ OcrFinish(n)

Next ==
  \/ \E c \in Conns : AcceptConnection(c) \/ ClientStep(c) \/ ThreadStep(c)
  \/ \E n \in Names : OcrStep(n)
  \/ \E r \in produced : StoreRecord(r)
  \/ Tick

Spec == Init /\ [][Next]_vars

(* Threads and the recognition run on.  A client sends its file, reads     *)
(* the replies and, while it has nothing else to wait for, polls.          *)
FairSpec ==
  /\ Spec
  /\ \A c \in Conns :
       /\ WF_vars(ThreadStep(c))
       /\ WF_vars(ClientPiece(c)) /\ WF_vars(ClientReads(c)) /\ SF_vars(ClientGet(c))
  /\ \A n \in Names : WF_vars(OcrStep(n))
=============================================================================
