-------------------------- MODULE TcpServerProofs ---------------------------
(***************************************************************************)
(* Proofs about the connections: the replies a client gets, the files the  *)
(* recognition reads, and the results that come back.                      *)
(***************************************************************************)
EXTENDS TcpServerProps, SequenceTheorems, TLAPS

(***************************************************************************)
(* The conversation of one connection.  What is under way to the server    *)
(* is nothing, an upload whose header has not been received, the rest of a *)
(* file that is being received, or one command.                            *)
(***************************************************************************)
Commands == {"GetRecog", "RequestSelect", "GetSelect"}
AnswerTo(x) == CASE x = "GetRecog" -> "Recog"
                 [] x = "RequestSelect" -> "ConfirmSelect"
                 [] x = "GetSelect" -> "Rows"

Headers(c) == {Header(upload[c], p, sizeOf[upload[c]]) : p \in PartsOf[c]}
Quiet(c) == expects[c] = "ConfirmRecog" /\ replies[c] = << >>

Still(c) ==
  /\ stream[c] = << >> /\ toSend[c] = 0
  /\ bContinueAccept[c] => pc[c] = "add"
  /\ up[c] => IF expects[c] = "nothing"
               THEN replies[c] = << >>
               ELSE /\ replies[c] # << >> /\ replies[c] = <<replies[c][1]>>
                    /\ replies[c][1].kind \in Answers(expects[c])

Offered(c) ==
  /\ upload[c] \in 1..Len(sizeOf)
  /\ stream[c] \in Seq(Headers(c) \cup {Piece(upload[c])}) /\ stream[c] # << >>
  /\ stream[c][1] \in Headers(c)
  /\ \A i \in 2..Len(stream[c]) : stream[c][i] = Piece(upload[c])
  /\ Len(stream[c]) + toSend[c] <= sizeOf[upload[c]] + 1
  /\ bContinueAccept[c] => pc[c] = "add"
  /\ up[c] => Quiet(c)

Receiving(c) ==
  /\ upload[c] \in 1..Len(sizeOf)
  /\ bContinueAccept[c] /\ pc[c] = "recv"
  /\ stream[c] \in Seq({Piece(upload[c])})
  /\ fileSize[c] = sizeOf[upload[c]]
  /\ accpetedSize[c] + Len(stream[c]) + toSend[c] <= fileSize[c]
  /\ up[c] => Quiet(c)

Asked(c) ==
  /\ \E x \in Commands : /\ stream[c] = <<Command(x)>>
                         /\ up[c] => expects[c] = AnswerTo(x) /\ replies[c] = << >>
  /\ toSend[c] = 0
  /\ bContinueAccept[c] => pc[c] = "add"

TalkOK ==
  /\ sizeOf \in Seq(Nat)
  /\ pc \in [Conns -> {"none", "recv", "add", "close", "ended"}]
  /\ up \in [Conns -> BOOLEAN]
  /\ bContinueAccept \in [Conns -> BOOLEAN]
  /\ upload \in [Conns -> 0..Len(sizeOf)]
  /\ toSend \in [Conns -> Nat]
  /\ fileSize \in [Conns -> Nat] /\ accpetedSize \in [Conns -> Nat]
  /\ DOMAIN stream = Conns /\ DOMAIN replies = Conns /\ DOMAIN expects = Conns

Talk(c) ==
  /\ up[c] => pc[c] \notin {"none", "ended"}
  /\ pc[c] = "none" => Still(c) /\ expects[c] = "nothing" /\ replies[c] = << >>
  /\ pc[c] # "ended" => Still(c) \/ Offered(c) \/ Receiving(c) \/ Asked(c)

TalkInv == TalkOK /\ \A c \in Conns : Talk(c)

(***************************************************************************)
(* The files.  Clients that wait a second between uploads, under names of  *)
(* their own.                                                              *)
(***************************************************************************)
Separate ==
  /\ Paced
  /\ \A c, d \in Conns : c # d => PartsOf[c] \cap PartsOf[d] = {}

(* The header of the last upload has been received.                        *)
Handled(c) == stream[c] # << >> => stream[c][1].kind # "RequestRecog"

(* The thread receives a file.                                             *)
Filling(c) == bContinueAccept[c] /\ pc[c] = "recv"

FirstPieces(u, k) == [i \in 1..k |-> Piece(u)]

FilesOK ==
  /\ clock \in 0..MaxClock
  /\ fp \in [Conns -> BOOLEAN]
  /\ fileName \in [Conns -> Names \cup {NoName}]
  /\ DOMAIN files \subseteq Names
  /\ openBy \in [Names -> Conns \cup {NoConn}]
  /\ DOMAIN slot = Names
  /\ DOMAIN input \subseteq Names
  /\ DOMAIN inputOf \subseteq produced

(* Each connection: its name is its own and not from the future, and the   *)
(* file of that name has what was received of its last upload.             *)
FileOfConn(c) ==
  /\ fileName[c] # NoName => /\ fileName[c].part \in PartsOf[c]
                             /\ fileName[c].sec <= clock /\ upload[c] # 0
  /\ fp[c] => /\ fileName[c] # NoName /\ fileName[c] \in DOMAIN files
              /\ openBy[fileName[c]] = c
              /\ pc[c] = "ended" \/ Filling(c)
  /\ pc[c] \in {"add", "close"} => fileName[c] # NoName
  /\ pc[c] # "ended" =>
       IF Handled(c)
         THEN upload[c] # 0 =>
                /\ fileName[c] # NoName
                /\ fileName[c] \in DOMAIN files =>
                     files[fileName[c]] = IF fp[c] THEN FirstPieces(upload[c], accpetedSize[c])
                                                   ELSE Contents(upload[c])
                /\ Filling(c) /\ ~fp[c] => fileName[c] \notin DOMAIN files
         ELSE fileName[c] # NoName => fileName[c].sec < clock

(* Each name: only its connection has used it, its file is whole when it   *)
(* is closed, and a task, a run and a result of that name have that file.  *)
FileOfName(n) ==
  /\ n \in DOMAIN files \/ slot[n] # Scheduler!Empty =>
       \E c \in Conns : /\ n.part \in PartsOf[c]
                        /\ fileName[c] # NoName /\ n.sec <= fileName[c].sec
  /\ \A c \in Conns : openBy[n] = c => fp[c] /\ fileName[c] = n
  /\ n \in DOMAIN files /\ openBy[n] = NoConn =>
       \E u \in DOMAIN sizeOf : files[n] = Contents(u)
  /\ slot[n] # Scheduler!Empty => openBy[n] = NoConn
  /\ n \in DOMAIN input =>
       n \in DOMAIN files /\ openBy[n] = NoConn /\ input[n] = files[n]
  /\ slot[n].st = "Processed" =>
       /\ n \in DOMAIN files
       /\ slot[n].res \in DOMAIN inputOf /\ inputOf[slot[n].res] = files[n]

Delivered(c) ==
  up[c] => \A i \in DOMAIN replies[c] : replies[c][i].kind = "Recog" =>
    /\ upload[c] # 0 /\ replies[c][i].res \in DOMAIN inputOf
    /\ inputOf[replies[c][i].res] = Contents(upload[c])

FilesInv ==
  /\ FilesOK
  /\ \A c \in Conns : FileOfConn(c) /\ Delivered(c)
  /\ \A n \in Names : FileOfName(n)

(***************************************************************************)
(* The conversation.  A step of one connection leaves the others as they   *)
(* were, and can only add an upload to the list.                           *)
(***************************************************************************)
Alike(d) ==
  /\ stream'[d] = stream[d] /\ replies'[d] = replies[d] /\ expects'[d] = expects[d]
  /\ toSend'[d] = toSend[d] /\ upload'[d] = upload[d] /\ up'[d] = up[d]
  /\ pc'[d] = pc[d] /\ bContinueAccept'[d] = bContinueAccept[d]
  /\ fileSize'[d] = fileSize[d] /\ accpetedSize'[d] = accpetedSize[d]

Grown ==
  /\ Len(sizeOf) <= Len(sizeOf')
  /\ \A u \in 1..Len(sizeOf) : sizeOf'[u] = sizeOf[u]

LEMMA OthersTalk ==
  ASSUME TalkOK, TalkOK', Grown, NEW d \in Conns, Talk(d), Alike(d)
  PROVE  Talk(d)'
<1>1. Still(d) => Still(d)'
  BY DEF Still, Alike, Quiet
<1>2. /\ Len(sizeOf) \in Nat /\ Len(sizeOf') \in Nat
      /\ upload[d] \in 1..Len(sizeOf) =>
            /\ upload'[d] \in 1..Len(sizeOf') /\ sizeOf'[upload'[d]] = sizeOf[upload[d]]
            /\ Headers(d)' = Headers(d)
  BY DEF TalkOK, Grown, Alike, Headers
<1>3. Quiet(d) /\ up'[d] => Quiet(d)'
  BY DEF Quiet, Alike
<1>4. Offered(d) => Offered(d)'
  BY <1>2, <1>3 DEF Offered, Alike
<1>5. Receiving(d) => Receiving(d)'
  BY <1>2, <1>3 DEF Receiving, Alike
<1>6. Asked(d) => Asked(d)'
  BY DEF Asked, Alike
<1> QED BY <1>1, <1>4, <1>5, <1>6 DEF Talk, Alike

LEMMA OneTalks ==
  ASSUME TalkInv, TalkOK', Grown, NEW c \in Conns, Talk(c)',
         \A d \in Conns \ {c} : Alike(d)
  PROVE  TalkInv'
BY OthersTalk DEF TalkInv

LEMMA Unlisted == UNCHANGED sizeOf => Grown
BY SMT DEF Grown

LEMMA AcceptTalks ==
  ASSUME TalkInv, NEW c \in Conns, AcceptConnection(c)
  PROVE  TalkInv'
<1>1. TalkOK'
  BY DEF TalkInv, TalkOK, AcceptConnection
<1>2. Still(c) /\ expects[c] = "nothing" /\ replies[c] = << >> /\ ~bContinueAccept[c]
  BY DEF TalkInv, TalkOK, Talk, Still, AcceptConnection
<1>3. Talk(c)'
  BY <1>2 DEF TalkInv, TalkOK, Talk, Still, AcceptConnection
<1>4. \A d \in Conns \ {c} : Alike(d)
  BY DEF TalkInv, TalkOK, Alike, AcceptConnection
<1> QED BY <1>1, <1>3, <1>4, OneTalks, Unlisted DEF AcceptConnection

(* A client that waits for nothing has sent nothing that is under way.     *)
LEMMA IdleClient ==
  ASSUME TalkInv, NEW c \in Conns, up[c], expects[c] = "nothing"
  PROVE  Still(c) /\ replies[c] = << >> /\ pc[c] \notin {"none", "ended"}
BY DEF TalkInv, TalkOK, Talk, Still, Offered, Receiving, Asked, Quiet, AnswerTo, Commands

LEMMA RequestTalks ==
  ASSUME TcpAssumption, TalkInv, NEW c \in Conns, NEW p \in PartsOf[c], NEW s \in Sizes,
         ClientRequest(c, p, s)
  PROVE  TalkInv'
<1> DEFINE u == Len(sizeOf) + 1
<1>1. Still(c) /\ replies[c] = << >> /\ pc[c] \notin {"none", "ended"}
  BY IdleClient DEF ClientRequest
<1>2. s \in Nat /\ sizeOf \in Seq(Nat) /\ Len(sizeOf) \in Nat /\ u \in Nat
  <2>1. s \in Nat /\ sizeOf \in Seq(Nat)
    BY DEF TcpAssumption, TalkInv, TalkOK
  <2>2. Len(sizeOf) \in Nat
    BY <2>1, LenProperties
  <2> QED BY <2>1, <2>2
<1>3. /\ sizeOf' \in Seq(Nat) /\ Len(sizeOf') = u /\ sizeOf'[u] = s
      /\ \A i \in 1..Len(sizeOf) : sizeOf'[i] = sizeOf[i]
  <2>1. sizeOf' = Append(sizeOf, s)
    BY DEF ClientRequest
  <2> QED BY <1>2, <2>1, AppendProperties
<1>4. upload' = [upload EXCEPT ![c] = u] /\ upload'[c] = u
  BY DEF ClientRequest, TalkInv, TalkOK
<1>5. TalkOK'
  <2>1. upload' \in [Conns -> 0..Len(sizeOf')]
    <3>1. \A d \in Conns : upload[d] \in 0..u
      BY <1>2 DEF TalkInv, TalkOK
    <3>2. u \in 0..u
      BY <1>2
    <3>3. upload' \in [Conns -> 0..u]
      <4> HIDE DEF u
      <4> QED BY <1>4, <3>1, <3>2 DEF TalkInv, TalkOK
    <3> QED BY <1>3, <3>3
  <2>2. toSend' \in [Conns -> Nat]
    BY <1>2 DEF TalkInv, TalkOK, ClientRequest
  <2>3. DOMAIN stream' = Conns /\ DOMAIN replies' = Conns /\ DOMAIN expects' = Conns
    BY DEF TalkInv, TalkOK, ClientRequest, ToServer
  <2> QED BY <1>3, <2>1, <2>2, <2>3 DEF TalkInv, TalkOK, ClientRequest, threadVars
<1>6. Offered(c)'
  <2>1. stream'[c] = <<Header(u, p, s)>>
    <3>1. stream[c] = << >> /\ stream'[c] = Append(stream[c], Header(u, p, s))
      BY <1>1 DEF ClientRequest, ToServer, Still, TalkInv, TalkOK
    <3> QED BY <3>1
  <2>2. Header(u, p, s) \in Headers(c)'
    BY <1>3, <1>4 DEF Headers
  <2>3. /\ stream'[c] # << >> /\ Len(stream'[c]) = 1 /\ stream'[c][1] \in Headers(c)'
        /\ stream'[c] \in Seq(Headers(c)' \cup {Piece(upload'[c])})
    <3> DEFINE h == Header(u, p, s)
               H == Headers(c)'
               S == H \cup {Piece(upload'[c])}
    <3>1. h \in H /\ h \in S /\ stream'[c] = <<h>>
      BY <2>1, <2>2
    <3> HIDE DEF h, H, S
    <3>2. stream'[c] # << >> /\ Len(stream'[c]) = 1 /\ stream'[c][1] \in H /\ stream'[c] \in Seq(S)
      BY <3>1
    <3> QED BY <3>2 DEF H, S
  <2>4. toSend'[c] = s /\ expects'[c] = "ConfirmRecog" /\ replies'[c] = << >>
    BY <1>1 DEF ClientRequest, TalkInv, TalkOK
  <2>5. bContinueAccept'[c] => pc'[c] = "add"
    BY <1>1 DEF Still, ClientRequest, threadVars
  <2>6. upload'[c] \in 1..Len(sizeOf') /\ sizeOf'[upload'[c]] = s
    BY <1>2, <1>3, <1>4
  <2>7. Len(stream'[c]) + toSend'[c] <= sizeOf'[upload'[c]] + 1
    BY <1>2, <2>3, <2>4, <2>6
  <2>8. \A i \in 2..Len(stream'[c]) : stream'[c][i] = Piece(upload'[c])
    BY <2>3
  <2> QED BY <2>3, <2>4, <2>5, <2>6, <2>7, <2>8 DEF Offered, Quiet
<1>7. Talk(c)'
  BY <1>1, <1>6 DEF Talk, ClientRequest, threadVars
<1>8. \A d \in Conns \ {c} : Alike(d)
  BY DEF TalkInv, TalkOK, Alike, ClientRequest, ToServer, threadVars
<1>9. Grown
  BY <1>2, <1>3 DEF Grown
<1> QED BY <1>5, <1>7, <1>8, <1>9, OneTalks

LEMMA PieceTalks ==
  ASSUME TalkInv, NEW c \in Conns, ClientPiece(c)
  PROVE  TalkInv'
<1> DEFINE q == Piece(upload[c])
<1>1. TalkOK'
  BY DEF TalkInv, TalkOK, ClientPiece, ToServer, threadVars
<1>2. stream'[c] = Append(stream[c], q) /\ toSend'[c] = toSend[c] - 1
  BY DEF TalkInv, TalkOK, ClientPiece, ToServer
<1>3. /\ toSend[c] \in Nat /\ toSend[c] # 0 /\ up[c]
      /\ accpetedSize[c] \in Nat /\ fileSize[c] \in Nat
      /\ upload[c] \in 1..Len(sizeOf) => sizeOf[upload[c]] \in Nat
  BY DEF TalkInv, TalkOK, ClientPiece
<1>4. Offered(c) \/ Receiving(c)
  BY <1>3 DEF TalkInv, Talk, Still, Asked
<1>5. ASSUME Offered(c) PROVE Talk(c)'
  <2> DEFINE S == Headers(c) \cup {q}
  <2>1. stream[c] \in Seq(S) /\ q \in S /\ stream[c] # << >>
    BY <1>5 DEF Offered
  <2>2. /\ stream'[c] \in Seq(S) /\ stream'[c] # << >> /\ Len(stream'[c]) = Len(stream[c]) + 1
        /\ \A i \in 1..Len(stream[c]) : stream'[c][i] = stream[c][i]
        /\ stream'[c][Len(stream[c]) + 1] = q
    <3> HIDE DEF S, q
    <3> QED BY <1>2, <2>1, AppendProperties
  <2>3. Len(stream[c]) \in Nat \ {0}
    <3> HIDE DEF S
    <3> QED BY <2>1, EmptySeq
  <2>4. stream'[c][1] \in Headers(c) /\ \A i \in 2..Len(stream'[c]) : stream'[c][i] = q
    BY <1>5, <2>2, <2>3 DEF Offered
  <2>5. Headers(c)' = Headers(c)
    BY DEF ClientPiece, Headers
  <2>6. Len(stream'[c]) + toSend'[c] <= sizeOf[upload[c]] + 1
    <3>1. Len(stream[c]) + toSend[c] <= sizeOf[upload[c]] + 1 /\ sizeOf[upload[c]] \in Nat
      BY <1>3, <1>5 DEF Offered
    <3>2. sizeOf[upload[c]] \in Nat /\ Len(stream'[c]) + toSend'[c] = Len(stream[c]) + toSend[c]
      <4>1. toSend[c] \in Nat /\ toSend'[c] = toSend[c] - 1
        BY <1>2, <1>3
      <4>2. Len(stream'[c]) = Len(stream[c]) + 1
        BY <2>2
      <4> QED BY <2>3, <3>1, <4>1, <4>2
    <3> QED BY <3>1, <3>2
  <2>7. Quiet(c)' /\ (bContinueAccept'[c] => pc'[c] = "add")
    BY <1>3, <1>5 DEF Offered, Quiet, ClientPiece, threadVars
  <2>8. Offered(c)'
    BY <1>5, <2>2, <2>4, <2>5, <2>6, <2>7 DEF Offered, ClientPiece
  <2> QED BY <2>8, <1>3 DEF Talk, TalkInv, ClientPiece, threadVars
<1>6. ASSUME Receiving(c) PROVE Talk(c)'
  <2> DEFINE S == {q}
  <2>1. stream[c] \in Seq(S) /\ q \in S
    BY <1>6 DEF Receiving
  <2>2. stream'[c] \in Seq(S) /\ Len(stream'[c]) = Len(stream[c]) + 1
    <3> HIDE DEF S, q
    <3> QED BY <1>2, <2>1, AppendProperties
  <2>3. Len(stream[c]) \in Nat
    <3> HIDE DEF S
    <3> QED BY <2>1, LenProperties
  <2>4. accpetedSize[c] + Len(stream'[c]) + toSend'[c] <= fileSize[c]
    BY <1>2, <1>3, <1>6, <2>2, <2>3 DEF Receiving
  <2>5. Quiet(c)'
    BY <1>3, <1>6 DEF Receiving, Quiet, ClientPiece, threadVars
  <2>6. Receiving(c)'
    BY <1>6, <2>2, <2>4, <2>5 DEF Receiving, ClientPiece, threadVars
  <2> QED BY <2>6, <1>3 DEF Talk, TalkInv, ClientPiece, threadVars
<1>7. \A d \in Conns \ {c} : Alike(d)
  BY DEF TalkInv, TalkOK, Alike, ClientPiece, ToServer, threadVars
<1> QED BY <1>1, <1>4, <1>5, <1>6, <1>7, OneTalks, Unlisted DEF ClientPiece

LEMMA AsksTalks ==
  ASSUME TalkInv, NEW c \in Conns, NEW x \in Commands, ClientAsks(c, x, AnswerTo(x))
  PROVE  TalkInv'
<1>1. TalkOK'
  BY DEF TalkInv, TalkOK, ClientAsks, ToServer, threadVars
<1>2. Still(c) /\ replies[c] = << >> /\ pc[c] \notin {"none", "ended"}
  BY IdleClient DEF ClientAsks
<1>3. stream'[c] = <<Command(x)>>
  BY <1>2 DEF ClientAsks, ToServer, Still, TalkInv, TalkOK
<1>4. expects'[c] = AnswerTo(x)
  BY DEF ClientAsks, TalkInv, TalkOK
<1>5. Asked(c)'
  BY <1>2, <1>3, <1>4 DEF Asked, Still, ClientAsks, threadVars
<1>6. Talk(c)'
  BY <1>2, <1>5 DEF Talk, ClientAsks, threadVars
<1>7. \A d \in Conns \ {c} : Alike(d)
  BY DEF TalkInv, TalkOK, Alike, ClientAsks, ToServer, threadVars
<1> QED BY <1>1, <1>6, <1>7, OneTalks, Unlisted DEF ClientAsks

LEMMA ReadsTalks ==
  ASSUME TalkInv, NEW c \in Conns, ClientReads(c)
  PROVE  TalkInv'
<1>1. TalkOK'
  BY DEF TalkInv, TalkOK, ClientReads, threadVars
<1>2. /\ Still(c) /\ pc[c] \notin {"none", "ended"} /\ up[c]
      /\ replies[c] = <<replies[c][1]>>
  BY DEF TalkInv, Talk, Still, Offered, Receiving, Asked, Quiet, ClientReads
<1>3. replies'[c] = << >>
  <2> DEFINE m == replies[c][1]
  <2>1. replies'[c] = Tail(<<m>>)
    BY <1>2 DEF ClientReads, TalkInv, TalkOK
  <2> HIDE DEF m
  <2> QED BY <2>1
<1>4. expects'[c] = "nothing"
  BY DEF ClientReads, TalkInv, TalkOK
<1>5. Still(c)'
  BY <1>2, <1>3, <1>4 DEF Still, ClientReads, threadVars
<1>6. Talk(c)'
  BY <1>2, <1>5 DEF Talk, ClientReads, threadVars
<1>7. \A d \in Conns \ {c} : Alike(d)
  BY DEF TalkInv, TalkOK, Alike, ClientReads, threadVars
<1> QED BY <1>1, <1>6, <1>7, OneTalks, Unlisted DEF ClientReads

(* Steps that change only the thread and the client's presence.            *)
LEMMA DisconnectTalks ==
  ASSUME TalkInv, NEW c \in Conns, Disconnect(c)
  PROVE  TalkInv'
<1>1. TalkOK' /\ ~up'[c]
  BY DEF TalkInv, TalkOK, Disconnect, threadVars
<1>2. /\ Still(c) => Still(c)'
      /\ Offered(c) => Offered(c)'
      /\ Receiving(c) => Receiving(c)'
      /\ Asked(c) => Asked(c)'
  BY <1>1 DEF Disconnect, threadVars, Still, Offered, Receiving, Asked, Headers, Quiet
<1>3. Talk(c)'
  BY <1>1, <1>2 DEF TalkInv, Talk, Disconnect, threadVars
<1>4. \A d \in Conns \ {c} : Alike(d)
  BY DEF TalkInv, TalkOK, Alike, Disconnect, threadVars
<1> QED BY <1>1, <1>3, <1>4, OneTalks, Unlisted DEF Disconnect

LEMMA ClosedTalks ==
  ASSUME TalkInv, NEW c \in Conns, RecvClosed(c)
  PROVE  TalkInv'
<1>1. TalkOK'
  BY DEF TalkInv, TalkOK, RecvClosed, clientVars
<1>2. Talk(c)'
  BY DEF TalkInv, TalkOK, Talk, RecvClosed, clientVars
<1>3. \A d \in Conns \ {c} : Alike(d)
  BY DEF TalkInv, TalkOK, Alike, RecvClosed, clientVars
<1> QED BY <1>1, <1>2, <1>3, OneTalks, Unlisted DEF RecvClosed, clientVars

(* What is left of a sequence when its first k elements are taken.         *)
LEMMA RestOf ==
  ASSUME NEW S, NEW s \in Seq(S), NEW k \in 1..Len(s), NEW t, t = SubSeq(s, k + 1, Len(s))
  PROVE  /\ t \in Seq(S) /\ Len(t) = Len(s) - k
         /\ \A i \in 1..Len(t) : t[i] = s[i + k]
         /\ t = << >> <=> Len(s) = k
<1>1. Len(s) \in Nat /\ k \in 1..Len(s)
  BY LenProperties
<1>2. \A i \in k + 1..Len(s) : s[i] \in S
  BY <1>1, ElementOfSeq
<1>3. /\ t \in Seq(S)
      /\ Len(t) = IF k + 1 <= Len(s) THEN Len(s) - (k + 1) + 1 ELSE 0
      /\ \A i \in 1..Len(s) - (k + 1) + 1 : t[i] = s[k + 1 + i - 1]
  BY <1>1, <1>2, SubSeqProperties
<1>4. Len(t) = Len(s) - k
  BY <1>1, <1>3
<1>5. \A i \in 1..Len(t) : t[i] = s[i + k]
  BY <1>1, <1>3, <1>4
<1>6. t = << >> <=> Len(t) = 0
  BY <1>3, EmptySeq
<1> QED BY <1>1, <1>3, <1>4, <1>5, <1>6

(* The thread has sent m and goes on at p, or send has failed.             *)
LEMMA SendTalks ==
  ASSUME TalkInv, TalkOK', NEW c \in Conns, NEW m, NEW p \in {"add", "close", "recv"},
         Send(c, m, p), stream'[c] = << >>, toSend'[c] = 0, pc[c] = "recv",
         up'[c] = up[c], expects' = expects, bContinueAccept' = bContinueAccept,
         bContinueAccept[c] => p = "add",
         up[c] => replies[c] = << >> /\ m.kind \in Answers(expects[c]) /\ expects[c] # "nothing"
  PROVE  Talk(c)'
<1>1. CASE pc' = [pc EXCEPT ![c] = p] /\ replies' = [replies EXCEPT ![c] = Append(@, m)]
  <2>1. pc'[c] = p /\ replies'[c] = Append(replies[c], m)
    BY <1>1 DEF TalkInv, TalkOK
  <2>2. up[c] => replies'[c] = <<m>>
    <3>1. Append(<< >>, m) = <<m>>
      OBVIOUS
    <3> QED BY <2>1, <3>1
  <2>3. up[c] => /\ replies'[c] # << >> /\ replies'[c] = <<replies'[c][1]>>
                 /\ replies'[c][1].kind \in Answers(expects[c])
    BY <2>2
  <2>4. Still(c)'
    BY <2>1, <2>3 DEF Still
  <2> QED BY <2>1, <2>4 DEF Talk
<1>2. CASE pc' = [pc EXCEPT ![c] = "ended"] /\ ~up[c]
  <2>1. pc'[c] = "ended"
    BY <1>2 DEF TalkInv, TalkOK
  <2> QED BY <1>2, <2>1 DEF Talk
<1> QED BY <1>1, <1>2 DEF Send

LEMMA SendOK ==
  ASSUME TalkOK, NEW c \in Conns, NEW m, NEW p \in {"add", "close", "recv"}, Send(c, m, p)
  PROVE  /\ pc' \in [Conns -> {"none", "recv", "add", "close", "ended"}]
         /\ DOMAIN replies' = Conns
         /\ \A d \in Conns \ {c} : pc'[d] = pc[d] /\ replies'[d] = replies[d]
BY DEF TalkOK, Send

LEMMA DataTalks ==
  ASSUME TalkInv, NEW c \in Conns, NEW k \in 1..Len(stream[c]), RecvData(c, k)
  PROVE  TalkInv'
<1> DEFINE S == {Piece(upload[c])}
<1>1. bContinueAccept[c] /\ pc[c] = "recv" /\ Receiving(c)
  BY DEF TalkInv, Talk, RecvData, Recv, Still, Offered, Asked
<1>2. /\ Len(stream[c]) \in Nat /\ k \in Nat \ {0} /\ k <= Len(stream[c])
      /\ stream'[c] \in Seq(S) /\ Len(stream'[c]) = Len(stream[c]) - k
      /\ stream'[c] = << >> <=> Len(stream[c]) = k
  <2>1. stream[c] \in Seq(S)
    BY <1>1 DEF Receiving
  <2>2. stream'[c] = SubSeq(stream[c], k + 1, Len(stream[c]))
    BY DEF RecvData, Recv, TalkInv, TalkOK
  <2> HIDE DEF S
  <2>3. Len(stream[c]) \in Nat
    BY <2>1, LenProperties
  <2>4. k \in Nat \ {0} /\ k <= Len(stream[c])
    BY <2>3
  <2>5. /\ stream'[c] \in Seq(S) /\ Len(stream'[c]) = Len(stream[c]) - k
        /\ stream'[c] = << >> <=> Len(stream[c]) = k
    <3> DEFINE s == stream[c]
               t == stream'[c]
    <3>1. s \in Seq(S) /\ k \in 1..Len(s) /\ t = SubSeq(s, k + 1, Len(s))
      BY <2>1, <2>2
    <3> HIDE DEF s, t
    <3>2. t \in Seq(S) /\ Len(t) = Len(s) - k /\ (t = << >> <=> Len(s) = k)
      BY <3>1, RestOf
    <3> QED BY <3>2 DEF s, t
  <2> QED BY <2>3, <2>4, <2>5
<1>3. /\ accpetedSize' = [accpetedSize EXCEPT ![c] = @ + k]
      /\ accpetedSize'[c] = accpetedSize[c] + k
      /\ accpetedSize[c] \in Nat /\ toSend[c] \in Nat /\ fileSize[c] \in Nat
  BY DEF RecvData, TalkInv, TalkOK
<1>4. accpetedSize[c] + Len(stream[c]) + toSend[c] <= fileSize[c]
  BY <1>1 DEF Receiving
<1>5. TalkOK' /\ \A d \in Conns \ {c} : Alike(d)
  <2>1. accpetedSize' \in [Conns -> Nat]
    BY <1>2, <1>3 DEF TalkInv, TalkOK
  <2>2. /\ pc' \in [Conns -> {"none", "recv", "add", "close", "ended"}]
        /\ DOMAIN replies' = Conns
        /\ \A d \in Conns \ {c} : pc'[d] = pc[d] /\ replies'[d] = replies[d]
    <3>1. CASE accpetedSize[c] + k = fileSize[c]
      BY <3>1, SendOK DEF TalkInv, RecvData
    <3>2. CASE accpetedSize[c] + k # fileSize[c]
      BY <3>2 DEF TalkInv, TalkOK, RecvData
    <3> QED BY <3>1, <3>2
  <2>3. \A d \in Conns \ {c} : accpetedSize'[d] = accpetedSize[d] /\ stream'[d] = stream[d]
    BY <1>3 DEF TalkInv, TalkOK, RecvData, Recv
  <2>4. DOMAIN stream' = Conns
    BY DEF TalkInv, TalkOK, RecvData, Recv
  <2>5. TalkOK'
    BY <2>1, <2>2, <2>4 DEF TalkInv, TalkOK, RecvData, Recv, clientVars
  <2>6. \A d \in Conns \ {c} : Alike(d)
    BY <2>2, <2>3 DEF Alike, RecvData, Recv, clientVars
  <2> QED BY <2>5, <2>6
<1>6. CASE accpetedSize[c] + k = fileSize[c]
  <2>1. stream'[c] = << >> /\ toSend[c] = 0
    <3>1. Len(stream[c]) = k /\ toSend[c] = 0
      BY <1>2, <1>3, <1>4, <1>6
    <3> QED BY <1>2, <3>1
  <2>2. Send(c, Reply("ConfirmRecog"), "add")
    BY <1>6 DEF RecvData
  <2>3. up[c] => Quiet(c)
    BY <1>1 DEF Receiving
  <2>4. up[c] => /\ replies[c] = << >> /\ expects[c] # "nothing"
                 /\ Reply("ConfirmRecog").kind \in Answers(expects[c])
    BY <2>3 DEF Quiet, Reply, Answers
  <2>5. /\ up'[c] = up[c] /\ expects' = expects /\ toSend'[c] = toSend[c]
        /\ bContinueAccept' = bContinueAccept
    BY DEF RecvData, Recv, clientVars
  <2> HIDE DEF S
  <2>6. Talk(c)'
    BY <1>1, <1>5, <2>1, <2>2, <2>4, <2>5, SendTalks
  <2> QED BY <1>5, <2>6, OneTalks, Unlisted DEF RecvData, Recv, clientVars
<1>7. CASE accpetedSize[c] + k # fileSize[c]
  <2>1. accpetedSize'[c] + Len(stream'[c]) + toSend'[c] <= fileSize'[c]
    BY <1>2, <1>3, <1>4 DEF RecvData, Recv, clientVars
  <2>2. pc' = pc /\ replies' = replies
    BY <1>7 DEF RecvData
  <2>3. Receiving(c)'
    BY <1>1, <1>2, <2>1, <2>2 DEF Receiving, Quiet, RecvData, Recv, clientVars
  <2>4. Talk(c)'
    BY <1>1, <2>2, <2>3 DEF Talk
  <2> QED BY <1>5, <2>4, OneTalks, Unlisted DEF RecvData, Recv, clientVars
<1> QED BY <1>6, <1>7

LEMMA AddTalks ==
  ASSUME TalkInv, NEW c \in Conns, AddTask(c)
  PROVE  TalkInv'
<1>1. TalkOK'
  BY DEF TalkInv, TalkOK, AddTask, clientVars
<1>2. Still(c) \/ Offered(c) \/ Asked(c)
  BY DEF TalkInv, Talk, Receiving, AddTask
<1>3. pc'[c] = "recv" /\ bContinueAccept'[c] = FALSE
  BY DEF TalkInv, TalkOK, AddTask
<1>4. Still(c)' \/ Offered(c)' \/ Asked(c)'
  BY <1>2, <1>3 DEF Still, Offered, Asked, Quiet, Headers, AddTask, clientVars
<1>5. Talk(c)'
  BY <1>3, <1>4 DEF Talk
<1>6. \A d \in Conns \ {c} : Alike(d)
  BY DEF TalkInv, TalkOK, Alike, AddTask, clientVars
<1> QED BY <1>1, <1>5, <1>6, OneTalks, Unlisted DEF AddTask, clientVars

LEMMA CloseTalks ==
  ASSUME TalkInv, NEW c \in Conns, CloseTask(c)
  PROVE  TalkInv'
<1>1. TalkOK'
  BY DEF TalkInv, TalkOK, CloseTask, clientVars
<1>2. (Still(c) \/ Offered(c) \/ Asked(c)) /\ ~bContinueAccept[c]
  BY DEF TalkInv, Talk, Receiving, Still, Offered, Asked, CloseTask
<1>3. pc'[c] = "recv" /\ bContinueAccept'[c] = bContinueAccept[c]
  BY DEF TalkInv, TalkOK, CloseTask
<1>4. Still(c)' \/ Offered(c)' \/ Asked(c)'
  BY <1>2, <1>3 DEF Still, Offered, Asked, Quiet, Headers, CloseTask, clientVars
<1>5. Talk(c)'
  BY <1>3, <1>4 DEF Talk
<1>6. \A d \in Conns \ {c} : Alike(d)
  BY DEF TalkInv, TalkOK, Alike, CloseTask, clientVars
<1> QED BY <1>1, <1>5, <1>6, OneTalks, Unlisted DEF CloseTask, clientVars

(* What a thread reads as a command is the header of an upload, or one of  *)
(* the three others; it is never a piece of a file.                        *)
LEMMA Commanded ==
  ASSUME TalkInv, NEW c \in Conns, NEW k \in 1..Len(stream[c]), NEW kind,
         RecvCommand(c, k, kind)
  PROVE  /\ pc[c] = "recv" /\ ~bContinueAccept[c]
         /\ \/ Offered(c) /\ kind = "RequestRecog"
            \/ Asked(c) /\ kind \in Commands /\ stream[c] = <<Command(kind)>> /\ k = 1
<1>1. pc[c] = "recv" /\ ~bContinueAccept[c] /\ stream[c][1].kind = kind
  BY DEF RecvCommand, Recv
<1>2. Still(c) \/ Offered(c) \/ Asked(c)
  BY <1>1 DEF TalkInv, Talk, Receiving
<1>3. ~Still(c)
  <2>1. stream[c] = << >> => Len(stream[c]) = 0
    OBVIOUS
  <2> QED BY <2>1 DEF Still
<1>4. CASE Offered(c)
  BY <1>1, <1>4 DEF Offered, Headers, Header
<1>5. CASE Asked(c)
  <2>1. PICK x \in Commands : stream[c] = <<Command(x)>>
    BY <1>5 DEF Asked
  <2>2. Len(stream[c]) = 1 /\ stream[c][1] = Command(x)
    BY <2>1
  <2>3. k = 1
    BY <2>2
  <2> QED BY <1>1, <1>5, <2>1, <2>2, <2>3 DEF Command
<1> QED BY <1>1, <1>2, <1>3, <1>4, <1>5

LEMMA HeaderTalks ==
  ASSUME TalkInv, NEW c \in Conns, NEW k \in 1..Len(stream[c]), RequestRecog(c, k)
  PROVE  TalkInv'
<1> DEFINE S == Headers(c) \cup {Piece(upload[c])}
           Q == {Piece(upload[c])}
           h == stream[c][1]
<1>1. pc[c] = "recv" /\ ~bContinueAccept[c] /\ Offered(c)
  <2>1. RecvCommand(c, k, "RequestRecog") /\ "RequestRecog" \notin Commands
    BY DEF RequestRecog, Commands
  <2> QED BY <2>1, Commanded
<1>2. /\ stream[c] \in Seq(S) /\ h \in Headers(c)
      /\ \A i \in 2..Len(stream[c]) : stream[c][i] \in Q
      /\ Len(stream[c]) + toSend[c] <= sizeOf[upload[c]] + 1
  BY <1>1 DEF Offered
<1>3. Len(stream[c]) \in Nat /\ k \in Nat \ {0} /\ k <= Len(stream[c])
  <2> HIDE DEF S
  <2>1. Len(stream[c]) \in Nat
    BY <1>2, LenProperties
  <2> QED BY <2>1
<1>4. stream'[c] = SubSeq(stream[c], k + 1, Len(stream[c]))
  BY DEF RequestRecog, RecvCommand, Recv, TalkInv, TalkOK
<1>5. stream'[c] \in Seq(Q) /\ Len(stream'[c]) = Len(stream[c]) - k
  <2> DEFINE s == stream[c]
             t == stream'[c]
  <2> HIDE DEF Q
  <2>1. \A i \in k + 1..Len(s) : s[i] \in Q
    BY <1>2, <1>3
  <2>2. t = SubSeq(s, k + 1, Len(s)) /\ Len(s) \in Nat /\ k \in Nat \ {0} /\ k <= Len(s)
    BY <1>3, <1>4
  <2> HIDE DEF s, t
  <2>3. t \in Seq(Q) /\ Len(t) = IF k + 1 <= Len(s) THEN Len(s) - (k + 1) + 1 ELSE 0
    BY <2>1, <2>2, SubSeqProperties
  <2>4. Len(t) = Len(s) - k
    BY <2>2, <2>3
  <2> QED BY <2>3, <2>4 DEF s, t
<1>6. /\ sizeOf[upload[c]] \in Nat /\ toSend[c] \in Nat /\ h.size = sizeOf[upload[c]]
      /\ upload[c] \in 1..Len(sizeOf)
  BY <1>1, <1>2 DEF Offered, Headers, Header, TalkInv, TalkOK
<1>7. /\ fileSize' = [fileSize EXCEPT ![c] = h.size]
      /\ fileSize'[c] = sizeOf[upload[c]] /\ accpetedSize'[c] = 0
      /\ bContinueAccept'[c] /\ pc' = pc /\ replies' = replies
  BY <1>6 DEF RequestRecog, TalkInv, TalkOK
<1>8. TalkOK'
  <2>1. fileSize' \in [Conns -> Nat] /\ accpetedSize' \in [Conns -> Nat]
    BY <1>6, <1>7 DEF RequestRecog, TalkInv, TalkOK
  <2>2. bContinueAccept' \in [Conns -> BOOLEAN] /\ DOMAIN stream' = Conns
    BY DEF RequestRecog, RecvCommand, Recv, TalkInv, TalkOK
  <2> QED BY <1>7, <2>1, <2>2 DEF RequestRecog, RecvCommand, Recv, TalkInv, TalkOK, clientVars
<1>9. accpetedSize'[c] + Len(stream'[c]) + toSend'[c] <= fileSize'[c]
  <2>1. toSend' = toSend
    BY DEF RequestRecog, RecvCommand, Recv, clientVars
  <2> QED BY <1>2, <1>3, <1>5, <1>6, <1>7, <2>1
<1>10. Receiving(c)'
  <2>1. up[c] => Quiet(c)
    BY <1>1 DEF Offered
  <2> QED BY <1>1, <1>5, <1>6, <1>7, <1>9, <2>1
          DEF Receiving, Quiet, RequestRecog, RecvCommand, Recv, clientVars
<1>11. Talk(c)'
  BY <1>1, <1>7, <1>10 DEF Talk
<1>12. \A d \in Conns \ {c} : Alike(d)
  BY DEF TalkInv, TalkOK, Alike, RequestRecog, RecvCommand, Recv, clientVars
<1> QED BY <1>8, <1>11, <1>12, OneTalks, Unlisted DEF RequestRecog, RecvCommand, Recv, clientVars

LEMMA NoUnknown ==
  ASSUME TalkInv, NEW c \in Conns, NEW k \in 1..Len(stream[c])
  PROVE  ~UnknownCommand(c, k)
BY Commanded DEF UnknownCommand, Commands

(* A command that is answered at once.                                     *)
LEMMA AnswerTalks ==
  ASSUME TalkInv, NEW c \in Conns, NEW k \in 1..Len(stream[c]), NEW x \in Commands,
         RecvCommand(c, k, x), NEW m, NEW p \in {"close", "recv"}, Send(c, m, p),
         m.kind \in Answers(AnswerTo(x)),
         UNCHANGED <<bContinueAccept, fileSize, accpetedSize, fileName, fp, diskVars, requested>>
  PROVE  TalkInv'
<1>1. /\ pc[c] = "recv" /\ ~bContinueAccept[c] /\ k = 1 /\ Asked(c)
      /\ stream[c] = <<Command(x)>>
  BY Commanded DEF Commands
<1>2. stream' = [stream EXCEPT ![c] = SubSeq(@, k + 1, Len(@))]
  BY DEF RecvCommand, Recv
<1>3. stream'[c] = << >>
  <2>1. Len(stream[c]) = 1
    BY <1>1
  <2>2. stream'[c] = SubSeq(stream[c], 2, 1)
    BY <1>1, <1>2, <2>1 DEF TalkInv, TalkOK
  <2> QED BY <2>2, SubSeqEmpty
<1>4. /\ p \in {"add", "close", "recv"}
      /\ up' = up /\ expects' = expects /\ toSend' = toSend /\ sizeOf' = sizeOf
      /\ upload' = upload
  BY DEF RecvCommand, Recv, clientVars
<1>5. /\ pc' \in [Conns -> {"none", "recv", "add", "close", "ended"}]
      /\ DOMAIN replies' = Conns
      /\ \A d \in Conns \ {c} : pc'[d] = pc[d] /\ replies'[d] = replies[d]
  BY <1>4, SendOK DEF TalkInv
<1>6. TalkOK'
  BY <1>2, <1>4, <1>5 DEF TalkInv, TalkOK
<1>7. \A d \in Conns \ {c} : Alike(d)
  BY <1>2, <1>4, <1>5 DEF TalkInv, TalkOK, Alike
<1>8. up[c] => /\ replies[c] = << >> /\ m.kind \in Answers(expects[c])
               /\ expects[c] # "nothing"
  <2>1. PICK y \in Commands : /\ stream[c] = <<Command(y)>>
                              /\ up[c] => expects[c] = AnswerTo(y) /\ replies[c] = << >>
    BY <1>1 DEF Asked
  <2>2. x = y
    <3>1. <<Command(x)>> = <<Command(y)>>
      BY <1>1, <2>1
    <3>2. Command(x) = Command(y)
      BY <3>1
    <3>3. Command(x).kind = x /\ Command(y).kind = y
      BY DEF Command
    <3> QED BY <3>2, <3>3
  <2>3. AnswerTo(x) # "nothing"
    BY DEF AnswerTo, Commands
  <2> QED BY <2>1, <2>2, <2>3
<1>9. toSend[c] = 0
  BY <1>1 DEF Asked
<1>10. Talk(c)'
  BY <1>1, <1>3, <1>4, <1>6, <1>8, <1>9, SendTalks
<1> QED BY <1>4, <1>6, <1>7, <1>10, OneTalks, Unlisted

LEMMA GetTalks ==
  ASSUME TalkInv, NEW c \in Conns, NEW k \in 1..Len(stream[c]), GetRecog(c, k)
  PROVE  TalkInv'
<1> DEFINE x == "GetRecog"
<1>1. x \in Commands /\ RecvCommand(c, k, x)
  BY DEF GetRecog, Commands
<1>2. Answers(AnswerTo(x)) = {"Recog", "WaitRecog"}
  BY DEF Answers, AnswerTo
<1>3. CASE Send(c, Answer(slot[fileName[c]].res), "close")
  <2>1. Answer(slot[fileName[c]].res).kind \in Answers(AnswerTo(x))
    BY <1>2 DEF Answer
  <2> HIDE DEF x
  <2> QED BY <1>1, <1>3, <2>1, AnswerTalks DEF GetRecog
<1>4. CASE Send(c, Reply("WaitRecog"), "recv")
  <2>1. Reply("WaitRecog").kind \in Answers(AnswerTo(x))
    BY <1>2 DEF Reply
  <2> HIDE DEF x
  <2> QED BY <1>1, <1>4, <2>1, AnswerTalks DEF GetRecog
<1> QED BY <1>3, <1>4 DEF GetRecog

LEMMA SelectTalks ==
  ASSUME TalkInv, NEW c \in Conns, NEW k \in 1..Len(stream[c]), Select(c, k)
  PROVE  TalkInv'
<1>1. CASE RecvCommand(c, k, "RequestSelect") /\ Send(c, Reply("ConfirmSelect"), "recv")
  <2>1. /\ "RequestSelect" \in Commands
        /\ Reply("ConfirmSelect").kind \in Answers(AnswerTo("RequestSelect"))
    BY DEF Commands, Answers, AnswerTo, Reply
  <2> QED BY <1>1, <2>1, AnswerTalks DEF Select
<1>2. CASE RecvCommand(c, k, "GetSelect") /\ Send(c, Reply("Rows"), "recv")
  <2>1. "GetSelect" \in Commands /\ Reply("Rows").kind \in Answers(AnswerTo("GetSelect"))
    BY DEF Commands, Answers, AnswerTo, Reply
  <2> QED BY <1>2, <2>1, AnswerTalks DEF Select
<1> QED BY <1>1, <1>2 DEF Select

talkVars == <<sizeOf, pc, up, bContinueAccept, upload, toSend, fileSize, accpetedSize,
              stream, replies, expects>>

LEMMA StillTalks ==
  ASSUME TalkInv, UNCHANGED talkVars
  PROVE  TalkInv'
<1>1. TalkOK'
  BY DEF TalkInv, TalkOK, talkVars
<1>2. \A d \in Conns : Alike(d)
  BY DEF Alike, talkVars
<1>3. Grown
  BY Unlisted DEF talkVars
<1> QED BY <1>1, <1>2, <1>3, OthersTalk DEF TalkInv

LEMMA TalkInit ==
  ASSUME Init
  PROVE  TalkInv
<1>1. TalkOK
  BY DEF Init, TalkOK
<1>2. \A c \in Conns : Talk(c)
  BY DEF Init, Talk, Still
<1> QED BY <1>1, <1>2 DEF TalkInv

LEMMA ClientTalks ==
  ASSUME TcpAssumption, TalkInv, NEW c \in Conns, ClientStep(c)
  PROVE  TalkInv'
<1>1. ASSUME NEW p \in PartsOf[c], NEW s \in Sizes, ClientRequest(c, p, s) PROVE TalkInv'
  BY <1>1, RequestTalks
<1>2. CASE ClientPiece(c)
  BY <1>2, PieceTalks
<1>3. CASE ClientGet(c)
  BY <1>3, AsksTalks DEF ClientGet, Commands, AnswerTo
<1>4. CASE ClientSelect(c)
  BY <1>4, AsksTalks DEF ClientSelect, Commands, AnswerTo
<1>5. CASE ClientReads(c)
  BY <1>5, ReadsTalks
<1>6. CASE Disconnect(c)
  BY <1>6, DisconnectTalks
<1> QED BY <1>1, <1>2, <1>3, <1>4, <1>5, <1>6 DEF ClientStep

LEMMA ThreadTalks ==
  ASSUME TalkInv, NEW c \in Conns, ThreadStep(c)
  PROVE  TalkInv'
<1>1. ASSUME NEW k \in 1..Len(stream[c]),
             RecvData(c, k) \/ RequestRecog(c, k) \/ UnknownCommand(c, k)
               \/ GetRecog(c, k) \/ Select(c, k)
      PROVE  TalkInv'
  BY <1>1, DataTalks, HeaderTalks, NoUnknown, GetTalks, SelectTalks
<1>2. CASE RecvClosed(c)
  BY <1>2, ClosedTalks
<1>3. CASE AddTask(c)
  BY <1>3, AddTalks
<1>4. CASE CloseTask(c)
  BY <1>4, CloseTalks
<1> QED BY <1>1, <1>2, <1>3, <1>4 DEF ThreadStep

LEMMA TalkNext ==
  ASSUME TcpAssumption, TalkInv, [Next]_vars
  PROVE  TalkInv'
<1>1. ASSUME NEW c \in Conns, AcceptConnection(c) \/ ClientStep(c) \/ ThreadStep(c)
      PROVE  TalkInv'
  BY <1>1, AcceptTalks, ClientTalks, ThreadTalks
<1>2. ASSUME NEW n \in Names, OcrStep(n) PROVE TalkInv'
  <2>1. UNCHANGED talkVars
    BY <1>2 DEF OcrStep, OcrStart, ReadImage, OcrFinish, threadVars, clientVars, talkVars
  <2> QED BY <2>1, StillTalks
<1>3. ASSUME NEW r \in produced, StoreRecord(r) PROVE TalkInv'
  <2>1. UNCHANGED talkVars
    BY <1>3 DEF StoreRecord, threadVars, clientVars, talkVars
  <2> QED BY <2>1, StillTalks
<1>4. CASE Tick
  <2>1. UNCHANGED talkVars
    BY <1>4 DEF Tick, threadVars, clientVars, talkVars
  <2> QED BY <2>1, StillTalks
<1>5. CASE UNCHANGED vars
  <2>1. UNCHANGED talkVars
    BY <1>5 DEF vars, threadVars, clientVars, talkVars
  <2> QED BY <2>1, StillTalks
<1> QED BY <1>1, <1>2, <1>3, <1>4, <1>5 DEF Next

LEMMA Conversation == Spec => []TalkInv
BY TalkInit, TalkNext, TcpAssumption, PTL DEF Spec

(* A client is sent one answer to what it waits for and nothing else, with *)
(* any number of connections, whatever their clients ask for and however   *)
(* the calls of recv cut the stream.                                       *)
THEOREM RepliesFollow == Spec => []RepliesAnswer
<1>1. ASSUME TalkInv PROVE RepliesAnswer
  <2> SUFFICES ASSUME NEW c \in Conns, up[c]
               PROVE  /\ Len(replies[c]) <= 1
                      /\ \A i \in DOMAIN replies[c] : replies[c][i].kind \in Answers(expects[c])
    BY DEF RepliesAnswer
  <2>1. Still(c) \/ Offered(c) \/ Receiving(c) \/ Asked(c)
    BY <1>1 DEF TalkInv, Talk
  <2>2. \/ replies[c] = << >>
        \/ replies[c] = <<replies[c][1]>> /\ replies[c][1].kind \in Answers(expects[c])
    BY <2>1 DEF Still, Offered, Receiving, Asked, Quiet
  <2>3. CASE replies[c] = << >>
    BY <2>3
  <2>4. CASE replies[c] = <<replies[c][1]>> /\ replies[c][1].kind \in Answers(expects[c])
    <3>1. PICK m : m = replies[c][1]
      OBVIOUS
    <3>2. replies[c] = <<m>> /\ m.kind \in Answers(expects[c])
      BY <2>4, <3>1
    <3>3. Len(replies[c]) = 1 /\ DOMAIN replies[c] = 1..1
      BY <3>2
    <3> QED BY <2>4, <3>3
  <2> QED BY <2>2, <2>3, <2>4
<1> QED BY <1>1, Conversation, PTL

(* A piece of a file is never taken for a command: what the thread reads   *)
(* outside a file is a header or one of the other commands, however the    *)
(* calls of recv cut the stream.  (GetService would take a piece for the   *)
(* header of a file of size 0 without a name.)                             *)
THEOREM PiecesAreNoCommands ==
  Spec => [][\A c \in Conns : \A k \in 1..Len(stream[c]) : ~UnknownCommand(c, k)]_vars
<1>1. TalkInv /\ [Next]_vars =>
        [\A c \in Conns : \A k \in 1..Len(stream[c]) : ~UnknownCommand(c, k)]_vars
  BY NoUnknown
<1> QED BY <1>1, Conversation, PTL DEF Spec

(***************************************************************************)
(* The files.  What the pieces of one upload add up to.                    *)
(***************************************************************************)
LEMMA PiecesAdd ==
  ASSUME NEW u, NEW m \in Nat, NEW s \in Seq({Piece(u)}), NEW k \in 1..Len(s)
  PROVE  FirstPieces(u, m) \o SubSeq(s, 1, k) = FirstPieces(u, m + k)
<1> DEFINE Q == {Piece(u)}
           a == FirstPieces(u, m)
           b == SubSeq(s, 1, k)
           d == FirstPieces(u, m + k)
<1>1. Len(s) \in Nat /\ k \in Nat /\ k # 0 /\ k <= Len(s)
  <2>1. Len(s) \in Nat
    BY LenProperties
  <2> QED BY <2>1
<1>2. \A n \in Nat : /\ FirstPieces(u, n) \in Seq(Q) /\ Len(FirstPieces(u, n)) = n
                     /\ \A i \in 1..n : FirstPieces(u, n)[i] = Piece(u)
  BY DEF FirstPieces
<1>3. a \in Seq(Q) /\ Len(a) = m /\ d \in Seq(Q) /\ Len(d) = m + k
  <2>1. m + k \in Nat
    BY <1>1
  <2> HIDE DEF Q
  <2> QED BY <1>2, <2>1
<1>4. b \in Seq(Q) /\ Len(b) = k
  <2>1. \A i \in 1..k : s[i] \in Q
    BY <1>1, ElementOfSeq
  <2> HIDE DEF Q
  <2>2. b \in Seq(Q) /\ Len(b) = IF 1 <= k THEN k - 1 + 1 ELSE 0
    BY <1>1, <2>1, SubSeqProperties
  <2>3. 1 <= k
    BY <1>1
  <2>4. Len(b) = k
    BY <1>1, <2>2, <2>3
  <2> QED BY <2>2, <2>4
<1>5. a \o b \in Seq(Q) /\ Len(a \o b) = m + k
  <2> HIDE DEF a, b, Q
  <2> QED BY <1>3, <1>4, ConcatProperties
<1>6. \A t \in Seq(Q) : \A i \in 1..Len(t) : t[i] = Piece(u)
  BY ElementOfSeq
<1>7. \A i \in 1..Len(a \o b) : (a \o b)[i] = d[i]
  <2> HIDE DEF a, b, d, Q
  <2> QED BY <1>3, <1>5, <1>6
<1> HIDE DEF a, b, d, Q
<1>8. a \o b = d
  BY <1>3, <1>5, <1>7, SeqEqual
<1> QED BY <1>8 DEF a, b, d

LEMMA NoPieces == \A u : FirstPieces(u, 0) = << >>
BY DEF FirstPieces

LEMMA ContentsKept ==
  ASSUME TalkOK, TalkOK', Grown
  PROVE  /\ \A u \in 1..Len(sizeOf) : Contents(u)' = Contents(u)
         /\ \A u \in DOMAIN sizeOf : u \in DOMAIN sizeOf'
         /\ DOMAIN sizeOf = 1..Len(sizeOf)
<1>1. DOMAIN sizeOf = 1..Len(sizeOf) /\ DOMAIN sizeOf' = 1..Len(sizeOf')
  BY DEF TalkOK
<1>2. Len(sizeOf) \in Nat /\ Len(sizeOf') \in Nat
  BY LenProperties DEF TalkOK
<1>3. \A u \in DOMAIN sizeOf : u \in DOMAIN sizeOf'
  BY <1>1, <1>2 DEF Grown
<1>4. \A u \in 1..Len(sizeOf) : Contents(u)' = Contents(u)
  BY DEF Contents, Grown
<1> QED BY <1>1, <1>3, <1>4

(* In which phases the header of the last upload has been received.        *)
LEMMA WhenHandled ==
  ASSUME NEW c \in Conns
  PROVE  /\ Still(c) \/ Receiving(c) \/ Asked(c) => Handled(c)
         /\ Offered(c) => ~Handled(c)
<1>1. Still(c) => Handled(c)
  BY DEF Still, Handled
<1>2. Offered(c) => ~Handled(c)
  BY DEF Offered, Handled, Headers, Header
<1>3. ASSUME Receiving(c) PROVE Handled(c)
  <2> DEFINE Q == {Piece(upload[c])}
  <2>1. stream[c] \in Seq(Q)
    BY <1>3 DEF Receiving
  <2>2. ASSUME stream[c] # << >> PROVE stream[c][1] \in Q
    <3> HIDE DEF Q
    <3>1. Len(stream[c]) \in Nat \ {0}
      BY <2>1, <2>2, EmptySeq
    <3> QED BY <2>1, <3>1, ElementOfSeq
  <2> QED BY <2>2 DEF Handled, Piece
<1>4. ASSUME Asked(c) PROVE Handled(c)
  <2>1. PICK x \in Commands : stream[c] = <<Command(x)>>
    BY <1>4 DEF Asked
  <2>2. stream[c][1] = Command(x)
    BY <2>1
  <2> QED BY <2>2 DEF Handled, Command, Commands
<1> QED BY <1>1, <1>2, <1>3, <1>4

LEMMA NamesAreNames ==
  ASSUME TcpAssumption, NEW c \in Conns, NEW p \in PartsOf[c]
  PROVE  /\ p \in Parts
         /\ \A n : n.part = p => n # NoName
         /\ \A n \in Names : n # NoName
<1>1. p \in Parts
  BY DEF Parts
<1>2. NoPart \notin Parts
  BY DEF TcpAssumption, Parts
<1> QED BY <1>1, <1>2 DEF NoName, Names

(***************************************************************************)
(* What a step that concerns other connections, and other names, leaves as *)
(* it was.                                                                 *)
(***************************************************************************)
ResultsKept ==
  \A r \in DOMAIN inputOf : r \in DOMAIN inputOf' /\ inputOf'[r] = inputOf[r]

NameAlike(n) ==
  /\ n \in DOMAIN files' <=> n \in DOMAIN files
  /\ n \in DOMAIN files => files'[n] = files[n]
  /\ openBy'[n] = openBy[n] /\ slot'[n] = slot[n]
  /\ n \in DOMAIN input' => n \in DOMAIN input /\ input'[n] = input[n]

ConnAlike(d) ==
  /\ Alike(d)
  /\ fp'[d] = fp[d] /\ fileName'[d] = fileName[d]
  /\ fileName[d] # NoName =>
       /\ fileName[d] \in DOMAIN files' <=> fileName[d] \in DOMAIN files
       /\ fileName[d] \in DOMAIN files => files'[fileName[d]] = files[fileName[d]]
       /\ fp[d] => openBy'[fileName[d]] = openBy[fileName[d]]

LEMMA ConnKept ==
  ASSUME TalkOK, TalkOK', Grown, FilesOK, clock' \in Nat, clock <= clock',
         NEW d \in Conns, FileOfConn(d), ConnAlike(d)
  PROVE  FileOfConn(d)'
<1>1. clock \in Nat /\ (fileName[d] # NoName => fileName[d].sec \in Nat)
  BY TcpAssumption DEF FilesOK, Names, TcpAssumption
<1>2. Handled(d)' <=> Handled(d)
  BY DEF Handled, ConnAlike, Alike
<1>3. Filling(d)' <=> Filling(d)
  BY DEF Filling, ConnAlike, Alike
<1>4. upload[d] # 0 => upload[d] \in 1..Len(sizeOf)
  BY DEF TalkOK
<1>5. upload[d] # 0 => sizeOf'[upload'[d]] = sizeOf[upload[d]]
  BY <1>4 DEF ConnAlike, Alike, Grown
<1>6. upload[d] # 0 => Contents(upload[d])' = Contents(upload[d])
  BY <1>5 DEF ConnAlike, Alike, Contents
<1>7. /\ upload'[d] = upload[d] /\ pc'[d] = pc[d] /\ accpetedSize'[d] = accpetedSize[d]
      /\ fp'[d] = fp[d] /\ fileName'[d] = fileName[d]
  BY DEF ConnAlike, Alike
<1>8. fileName[d] # NoName =>
       /\ fileName[d] \in DOMAIN files' <=> fileName[d] \in DOMAIN files
       /\ fileName[d] \in DOMAIN files => files'[fileName[d]] = files[fileName[d]]
       /\ fp[d] => openBy'[fileName[d]] = openBy[fileName[d]]
  BY DEF ConnAlike
<1> QED BY <1>1, <1>2, <1>3, <1>6, <1>7, <1>8 DEF FileOfConn, FirstPieces

LEMMA NameKept ==
  ASSUME TalkOK, TalkOK', Grown, ResultsKept, NEW n \in Names, FileOfName(n), NameAlike(n),
         UNCHANGED <<fp, fileName>>
  PROVE  FileOfName(n)'
<1>1. n \in DOMAIN files' /\ openBy'[n] = NoConn =>
        \E u \in DOMAIN sizeOf' : files'[n] = Contents(u)'
  BY ContentsKept DEF FileOfName, NameAlike
<1>2. slot'[n].st = "Processed" =>
       /\ n \in DOMAIN files'
       /\ slot'[n].res \in DOMAIN inputOf' /\ inputOf'[slot'[n].res] = files'[n]
  BY DEF FileOfName, NameAlike, ResultsKept
<1> QED BY <1>1, <1>2 DEF FileOfName, NameAlike, Scheduler!Empty

LEMMA DeliveredKept ==
  ASSUME TalkOK, TalkOK', Grown, ResultsKept, NEW d \in Conns, Delivered(d),
         upload'[d] = upload[d], up'[d] => up[d], replies'[d] = replies[d]
  PROVE  Delivered(d)'
<1>1. upload[d] # 0 => upload[d] \in 1..Len(sizeOf)
  BY DEF TalkOK
<1>2. upload[d] # 0 => Contents(upload[d])' = Contents(upload[d])
  BY <1>1 DEF Contents, Grown
<1> QED BY <1>2 DEF Delivered, ResultsKept

fileVars == <<clock, fp, fileName, files, openBy, slot, produced, input, inputOf>>

(* A step of the conversation of one connection that touches no file.      *)
LEMMA TalkOnly ==
  ASSUME TalkInv, TalkInv', FilesInv, Grown, UNCHANGED fileVars, NEW c \in Conns,
         \A d \in Conns \ {c} : Alike(d), FileOfConn(c)', Delivered(c)'
  PROVE  FilesInv'
<1>1. FilesOK'
  BY DEF FilesInv, FilesOK, fileVars, Names, NoName, Parts
<1>2. ResultsKept /\ \A n \in Names : NameAlike(n)
  BY DEF ResultsKept, NameAlike, fileVars
<1>3. \A n \in Names : FileOfName(n)'
  BY <1>2, NameKept DEF FilesInv, TalkInv, fileVars
<1>4. ASSUME NEW d \in Conns \ {c} PROVE FileOfConn(d)' /\ Delivered(d)'
  <2>1. Alike(d) /\ ConnAlike(d)
    BY DEF ConnAlike, fileVars
  <2>2. clock' \in Nat /\ clock <= clock'
    BY TcpAssumption DEF FilesInv, FilesOK, fileVars, TcpAssumption
  <2>3. FileOfConn(d)'
    BY <2>1, <2>2, ConnKept DEF FilesInv, TalkInv
  <2>4. Delivered(d)'
    BY <1>2, <2>1, DeliveredKept DEF Alike, FilesInv, TalkInv
  <2> QED BY <2>3, <2>4
<1> QED BY <1>1, <1>3, <1>4 DEF FilesInv

(* A step that leaves what a connection received and its file alone.       *)
LEMMA ConnSameFile ==
  ASSUME TalkInv, FilesInv, UNCHANGED fileVars, UNCHANGED sizeOf, NEW c \in Conns, FileOfConn(c),
         upload'[c] = upload[c], accpetedSize'[c] = accpetedSize[c],
         pc[c] = "ended" => pc'[c] = "ended",
         pc'[c] # "ended" => (Handled(c)' <=> Handled(c)) /\ (Filling(c)' <=> Filling(c)),
         pc'[c] \in {"add", "close"} => fileName[c] # NoName
  PROVE  FileOfConn(c)'
<1>1. upload[c] # 0 => Contents(upload[c])' = Contents(upload[c])
  BY DEF Contents
<1>2. clock' = clock /\ fp' = fp /\ fileName' = fileName /\ files' = files /\ openBy' = openBy
  BY DEF fileVars
<1>3. fp[c] => pc'[c] = "ended" \/ Filling(c)'
  BY DEF FileOfConn
<1> QED BY <1>1, <1>2, <1>3 DEF FileOfConn, FirstPieces

LEMMA AcceptFiles ==
  ASSUME TalkInv, TalkInv', FilesInv, NEW c \in Conns, AcceptConnection(c)
  PROVE  FilesInv'
<1>1. /\ UNCHANGED fileVars /\ UNCHANGED sizeOf /\ Grown
      /\ \A d \in Conns \ {c} : Alike(d)
  BY Unlisted DEF TalkInv, TalkOK, Alike, AcceptConnection, fileVars, diskVars, schedVars, runVars
<1>2. pc[c] = "none" /\ pc'[c] = "recv" /\ ~bContinueAccept[c] /\ Still(c)
  BY DEF TalkInv, TalkOK, Talk, Still, AcceptConnection
<1>3. (Handled(c)' <=> Handled(c)) /\ (Filling(c)' <=> Filling(c))
  BY <1>2 DEF Handled, Filling, AcceptConnection
<1>4. FileOfConn(c)'
  BY <1>1, <1>2, <1>3, ConnSameFile DEF FilesInv, AcceptConnection
<1>5. replies[c] = << >> /\ replies' = replies
  BY <1>2 DEF TalkInv, Talk, AcceptConnection
<1>6. Delivered(c)'
  BY <1>5 DEF Delivered
<1> QED BY <1>1, <1>4, <1>6, TalkOnly

LEMMA RequestFiles ==
  ASSUME TcpAssumption, Separate, TalkInv, TalkInv', FilesInv, NEW c \in Conns,
         NEW p \in PartsOf[c], NEW s \in Sizes, ClientRequest(c, p, s)
  PROVE  FilesInv'
<1> DEFINE u == Len(sizeOf) + 1
<1>1. UNCHANGED fileVars /\ \A d \in Conns \ {c} : Alike(d)
  BY DEF TalkInv, TalkOK, Alike, ClientRequest, ToServer, fileVars, threadVars, diskVars,
         schedVars, runVars
<1>2. /\ Still(c) /\ replies[c] = << >> /\ pc[c] \notin {"none", "ended"}
      /\ (upload[c] # 0 => clock > fileName[c].sec)
  BY IdleClient DEF ClientRequest, Separate
<1>3. sizeOf \in Seq(Nat) /\ Len(sizeOf) \in Nat /\ s \in Nat
  <2>1. sizeOf \in Seq(Nat) /\ s \in Nat
    BY DEF TalkInv, TalkOK, TcpAssumption
  <2> QED BY <2>1, LenProperties
<1>4. Grown /\ upload'[c] # 0
  <2>1. sizeOf' = Append(sizeOf, s) /\ upload'[c] = u
    BY DEF ClientRequest, TalkInv, TalkOK
  <2>2. Len(sizeOf') = Len(sizeOf) + 1 /\ \A i \in 1..Len(sizeOf) : sizeOf'[i] = sizeOf[i]
    BY <1>3, <2>1, AppendProperties
  <2> QED BY <1>3, <2>1, <2>2 DEF Grown
<1>5. stream'[c] = <<Header(u, p, s)>>
  <2>1. stream[c] = << >> /\ stream'[c] = Append(stream[c], Header(u, p, s))
    BY <1>2 DEF ClientRequest, ToServer, Still, TalkInv, TalkOK
  <2> QED BY <2>1
<1>6. ~Handled(c)'
  BY <1>5 DEF Handled, Header
<1>7. /\ clock' = clock /\ fp' = fp /\ fileName' = fileName /\ files' = files
      /\ openBy' = openBy /\ pc' = pc /\ bContinueAccept' = bContinueAccept
  BY <1>1 DEF fileVars, ClientRequest, threadVars
<1>8. Filling(c)' <=> Filling(c)
  BY <1>7 DEF Filling
<1>9. FileOfConn(c)
  BY DEF FilesInv
<1>10. fileName[c] # NoName => fileName[c].sec < clock
  <2>1. fileName[c] # NoName => clock \in Nat /\ fileName[c].sec \in Nat
    BY DEF FilesInv, FilesOK, Names, TcpAssumption
  <2> QED BY <1>2, <1>9, <2>1 DEF FileOfConn
<1>11. FileOfConn(c)'
  BY <1>4, <1>6, <1>7, <1>8, <1>9, <1>10 DEF FileOfConn
<1>12. Delivered(c)'
  BY <1>2 DEF Delivered, ClientRequest
<1> QED BY <1>1, <1>4, <1>11, <1>12, TalkOnly

LEMMA PieceFiles ==
  ASSUME TalkInv, TalkInv', FilesInv, NEW c \in Conns, ClientPiece(c)
  PROVE  FilesInv'
<1>1. /\ UNCHANGED fileVars /\ UNCHANGED sizeOf /\ Grown
      /\ \A d \in Conns \ {c} : Alike(d)
  BY Unlisted DEF TalkInv, TalkOK, Alike, ClientPiece, ToServer, fileVars, threadVars, diskVars,
                  schedVars, runVars
<1>2. Offered(c) \/ Receiving(c)
  <2>1. toSend[c] \in Nat /\ toSend[c] # 0 /\ up[c]
    BY DEF TalkInv, TalkOK, ClientPiece
  <2> QED BY <2>1 DEF TalkInv, Talk, Still, Asked
<1>3. pc' = pc /\ bContinueAccept' = bContinueAccept /\ Quiet(c) /\ replies' = replies
  BY <1>2 DEF ClientPiece, threadVars, Offered, Receiving
<1>4. Handled(c)' <=> Handled(c)
  <2>1. stream'[c] = Append(stream[c], Piece(upload[c]))
    BY DEF TalkInv, TalkOK, ClientPiece, ToServer
  <2>2. CASE stream[c] = << >>
    <3>1. Append(<< >>, Piece(upload[c])) = <<Piece(upload[c])>>
      OBVIOUS
    <3> QED BY <2>1, <2>2, <3>1 DEF Handled, Piece
  <2>3. CASE stream[c] # << >>
    <3> DEFINE S == Headers(c) \cup {Piece(upload[c])}
    <3>1. stream[c] \in Seq(S) /\ Piece(upload[c]) \in S
      BY <1>2 DEF Offered, Receiving
    <3> HIDE DEF S
    <3>2. Len(stream[c]) \in Nat \ {0}
      BY <2>3, <3>1, EmptySeq
    <3>3. stream'[c] # << >> /\ stream'[c][1] = stream[c][1]
      BY <2>1, <3>1, <3>2, AppendProperties
    <3> QED BY <2>3, <3>3 DEF Handled
  <2> QED BY <2>2, <2>3
<1>5. Filling(c)' <=> Filling(c)
  BY <1>3 DEF Filling
<1>6. FileOfConn(c)'
  BY <1>1, <1>3, <1>4, <1>5, ConnSameFile DEF FilesInv, FileOfConn, ClientPiece, threadVars
<1>7. Delivered(c)'
  BY <1>3 DEF Quiet, Delivered
<1> QED BY <1>1, <1>6, <1>7, TalkOnly

LEMMA AsksFiles ==
  ASSUME TalkInv, TalkInv', FilesInv, NEW c \in Conns, NEW x \in Commands,
         ClientAsks(c, x, AnswerTo(x))
  PROVE  FilesInv'
<1>1. /\ UNCHANGED fileVars /\ UNCHANGED sizeOf /\ Grown
      /\ \A d \in Conns \ {c} : Alike(d)
  BY Unlisted DEF TalkInv, TalkOK, Alike, ClientAsks, ToServer, fileVars, threadVars, diskVars,
                  schedVars, runVars
<1>2. Still(c) /\ replies[c] = << >>
  BY IdleClient DEF ClientAsks
<1>3. pc' = pc /\ bContinueAccept' = bContinueAccept /\ replies' = replies
  BY DEF ClientAsks, threadVars
<1>4. Handled(c)' /\ Handled(c)
  <2>1. stream[c] = << >> /\ stream'[c] = Append(stream[c], Command(x))
    BY <1>2 DEF Still, TalkInv, TalkOK, ClientAsks, ToServer
  <2>2. stream'[c] = <<Command(x)>>
    BY <2>1
  <2> QED BY <2>1, <2>2 DEF Handled, Command, Commands
<1>5. Filling(c)' <=> Filling(c)
  BY <1>3 DEF Filling
<1>6. FileOfConn(c)'
  BY <1>1, <1>3, <1>4, <1>5, ConnSameFile DEF FilesInv, FileOfConn, ClientAsks, threadVars
<1>7. Delivered(c)'
  BY <1>2, <1>3 DEF Delivered
<1> QED BY <1>1, <1>6, <1>7, TalkOnly

LEMMA ReadsFiles ==
  ASSUME TalkInv, TalkInv', FilesInv, NEW c \in Conns, ClientReads(c)
  PROVE  FilesInv'
<1>1. /\ UNCHANGED fileVars /\ UNCHANGED sizeOf /\ Grown
      /\ \A d \in Conns \ {c} : Alike(d)
  BY Unlisted DEF TalkInv, TalkOK, Alike, ClientReads, fileVars, threadVars, diskVars,
                  schedVars, runVars
<1>2. Still(c) /\ up[c] /\ replies[c] = <<replies[c][1]>>
  BY DEF TalkInv, Talk, Still, Offered, Receiving, Asked, Quiet, ClientReads
<1>3. replies'[c] = << >>
  <2> DEFINE m == replies[c][1]
  <2>1. replies'[c] = Tail(<<m>>)
    BY <1>2 DEF ClientReads, TalkInv, TalkOK
  <2> HIDE DEF m
  <2> QED BY <2>1
<1>4. pc' = pc /\ (Handled(c)' <=> Handled(c)) /\ (Filling(c)' <=> Filling(c))
  BY DEF Handled, Filling, ClientReads, threadVars
<1>5. FileOfConn(c)'
  BY <1>1, <1>4, ConnSameFile DEF FilesInv, FileOfConn, ClientReads, threadVars
<1>6. Delivered(c)'
  BY <1>3 DEF Delivered
<1> QED BY <1>1, <1>5, <1>6, TalkOnly

LEMMA DisconnectFiles ==
  ASSUME TalkInv, TalkInv', FilesInv, NEW c \in Conns, Disconnect(c)
  PROVE  FilesInv'
<1>1. /\ UNCHANGED fileVars /\ UNCHANGED sizeOf /\ Grown
      /\ \A d \in Conns \ {c} : Alike(d)
  BY Unlisted DEF TalkInv, TalkOK, Alike, Disconnect, fileVars, threadVars, diskVars,
                  schedVars, runVars
<1>2. pc' = pc /\ (Handled(c)' <=> Handled(c)) /\ (Filling(c)' <=> Filling(c)) /\ ~up'[c]
  BY DEF TalkInv, TalkOK, Handled, Filling, Disconnect, threadVars
<1>3. FileOfConn(c)'
  BY <1>1, <1>2, ConnSameFile DEF FilesInv, FileOfConn, Disconnect, threadVars
<1>4. Delivered(c)'
  BY <1>2 DEF Delivered
<1> QED BY <1>1, <1>3, <1>4, TalkOnly

LEMMA ClosedFiles ==
  ASSUME TalkInv, TalkInv', FilesInv, NEW c \in Conns, RecvClosed(c)
  PROVE  FilesInv'
<1>1. /\ UNCHANGED fileVars /\ UNCHANGED sizeOf /\ Grown
      /\ \A d \in Conns \ {c} : Alike(d)
  BY Unlisted DEF TalkInv, TalkOK, Alike, RecvClosed, fileVars, clientVars, diskVars,
                  schedVars, runVars
<1>2. pc'[c] = "ended" /\ ~up'[c]
  BY DEF TalkInv, TalkOK, RecvClosed, clientVars
<1>3. FileOfConn(c)'
  BY <1>1, <1>2, ConnSameFile DEF FilesInv, RecvClosed, clientVars
<1>4. Delivered(c)'
  BY <1>2 DEF Delivered
<1> QED BY <1>1, <1>3, <1>4, TalkOnly

LEMMA AnswerFiles ==
  ASSUME TcpAssumption, TalkInv, TalkInv', FilesInv, NEW c \in Conns,
         NEW k \in 1..Len(stream[c]), NEW x \in Commands, RecvCommand(c, k, x), NEW m,
         NEW p \in {"close", "recv"}, Send(c, m, p),
         p = "close" => fileName[c] # NoName,
         up[c] /\ m.kind = "Recog" =>
           upload[c] # 0 /\ m.res \in DOMAIN inputOf /\ inputOf[m.res] = Contents(upload[c]),
         UNCHANGED <<bContinueAccept, fileSize, accpetedSize, fileName, fp, diskVars, requested>>
  PROVE  FilesInv'
<1>1. pc[c] = "recv" /\ ~bContinueAccept[c] /\ Asked(c) /\ k = 1 /\ stream[c] = <<Command(x)>>
  BY Commanded DEF Commands
<1>2. /\ UNCHANGED fileVars /\ UNCHANGED sizeOf /\ Grown /\ upload' = upload
      /\ up' = up /\ stream' = [stream EXCEPT ![c] = SubSeq(@, k + 1, Len(@))]
      /\ expects' = expects /\ toSend' = toSend
  BY Unlisted DEF RecvCommand, Recv, fileVars, clientVars, diskVars, schedVars, runVars
<1>3. /\ p \in {"add", "close", "recv"}
      /\ \A d \in Conns \ {c} : pc'[d] = pc[d] /\ replies'[d] = replies[d]
  BY SendOK DEF TalkInv
<1>4. \A d \in Conns \ {c} : Alike(d)
  BY <1>2, <1>3 DEF TalkInv, TalkOK, Alike
<1>5. pc'[c] = p \/ pc'[c] = "ended"
  BY DEF Send, TalkInv, TalkOK
<1>6. ~Filling(c)' /\ ~Filling(c)
  BY <1>1 DEF Filling
<1>7. Handled(c)' /\ Handled(c)
  <2>1. Handled(c)
    BY <1>1, WhenHandled
  <2>2. stream'[c] = << >>
    <3>1. Len(stream[c]) = 1
      BY <1>1
    <3>2. stream'[c] = SubSeq(stream[c], 2, 1)
      BY <1>1, <1>2, <3>1 DEF TalkInv, TalkOK
    <3> QED BY <3>2, SubSeqEmpty
  <2> QED BY <2>1, <2>2 DEF Handled
<1>8. FileOfConn(c)'
  BY <1>1, <1>2, <1>5, <1>6, <1>7, ConnSameFile DEF FilesInv
<1>9. Delivered(c)'
  <2> SUFFICES ASSUME up[c], NEW i \in DOMAIN replies'[c], replies'[c][i].kind = "Recog"
               PROVE  /\ upload'[c] # 0 /\ replies'[c][i].res \in DOMAIN inputOf'
                      /\ inputOf'[replies'[c][i].res] = Contents(upload[c])'
    BY <1>2 DEF Delivered
  <2>1. replies[c] = << >>
    BY <1>1 DEF Asked
  <2>2. replies'[c] = Append(replies[c], m)
    BY DEF Send, TalkInv, TalkOK
  <2>3. replies'[c] = <<m>>
    BY <2>1, <2>2
  <2>4. replies'[c][i] = m
    BY <2>3
  <2>5. inputOf' = inputOf /\ Contents(upload[c])' = Contents(upload[c])
    BY <1>2 DEF fileVars, Contents
  <2> QED BY <1>2, <2>4, <2>5
<1> QED BY <1>2, <1>4, <1>8, <1>9, TalkOnly

LEMMA GetFiles ==
  ASSUME TcpAssumption, TalkInv, TalkInv', FilesInv, NEW c \in Conns,
         NEW k \in 1..Len(stream[c]), GetRecog(c, k)
  PROVE  FilesInv'
<1> DEFINE x == "GetRecog"
           n == fileName[c]
<1>1. x \in Commands /\ RecvCommand(c, k, x)
  BY DEF GetRecog, Commands
<1>2. CASE /\ n \in Names /\ slot[n].st = "Processed"
           /\ Send(c, Answer(slot[n].res), "close")
  <2> DEFINE m == Answer(slot[n].res)
  <2>1. Asked(c) /\ pc[c] = "recv" /\ ~bContinueAccept[c]
    BY <1>1, Commanded
  <2>2. Handled(c) /\ ~Filling(c)
    BY <2>1, WhenHandled DEF Filling
  <2>3. n # NoName
    <3>1. n.part \in Parts
      BY <1>2 DEF Names
    <3>2. PICK d \in Conns : n.part \in PartsOf[d]
      BY <3>1 DEF Parts
    <3> QED BY <3>2, NamesAreNames
  <2>4. upload[c] # 0 /\ ~fp[c]
    BY <2>1, <2>2, <2>3 DEF FilesInv, FileOfConn
  <2>5. n \in DOMAIN files /\ slot[n].res \in DOMAIN inputOf /\ inputOf[slot[n].res] = files[n]
    BY <1>2 DEF FilesInv, FileOfName
  <2>6. files[n] = Contents(upload[c])
    BY <2>1, <2>2, <2>4, <2>5 DEF FilesInv, FileOfConn
  <2>7. m.res = slot[n].res
    BY DEF Answer
  <2> HIDE DEF m, x
  <2> QED BY <1>1, <1>2, <2>3, <2>4, <2>5, <2>6, <2>7, AnswerFiles DEF GetRecog, m
<1>3. CASE Send(c, Reply("WaitRecog"), "recv")
  <2>1. Reply("WaitRecog").kind # "Recog"
    BY DEF Reply
  <2> HIDE DEF x
  <2> QED BY <1>1, <1>3, <2>1, AnswerFiles DEF GetRecog
<1> QED BY <1>2, <1>3 DEF GetRecog

LEMMA SelectFiles ==
  ASSUME TcpAssumption, TalkInv, TalkInv', FilesInv, NEW c \in Conns,
         NEW k \in 1..Len(stream[c]), Select(c, k)
  PROVE  FilesInv'
<1>1. CASE RecvCommand(c, k, "RequestSelect") /\ Send(c, Reply("ConfirmSelect"), "recv")
  <2>1. "RequestSelect" \in Commands /\ Reply("ConfirmSelect").kind # "Recog"
    BY DEF Commands, Reply
  <2> QED BY <1>1, <2>1, AnswerFiles DEF Select
<1>2. CASE RecvCommand(c, k, "GetSelect") /\ Send(c, Reply("Rows"), "recv")
  <2>1. "GetSelect" \in Commands /\ Reply("Rows").kind # "Recog"
    BY DEF Commands, Reply
  <2> QED BY <1>2, <2>1, AnswerFiles DEF Select
<1> QED BY <1>1, <1>2 DEF Select

(***************************************************************************)
(* The steps that write files and fill slots.                              *)
(***************************************************************************)
LEMMA OwnersName ==
  ASSUME Separate, FilesInv, NEW c \in Conns, NEW n \in Names, n.part \in PartsOf[c]
  PROVE  /\ \A d \in Conns : fileName[d] # NoName /\ fileName[d] = n => d = c
         /\ openBy[n] # NoConn => openBy[n] = c /\ fp[c] /\ fileName[c] = n
         /\ n \in DOMAIN files \/ slot[n] # Scheduler!Empty =>
              fileName[c] # NoName /\ n.sec <= fileName[c].sec
<1>1. \A d \in Conns : n.part \in PartsOf[d] => d = c
  BY DEF Separate
<1>2. \A d \in Conns : fileName[d] # NoName => fileName[d].part \in PartsOf[d]
  BY DEF FilesInv, FileOfConn
<1>3. openBy[n] \in Conns \cup {NoConn}
  BY DEF FilesInv, FilesOK
<1>4. \A d \in Conns : openBy[n] = d => fp[d] /\ fileName[d] = n /\ fileName[d] # NoName
  BY DEF FilesInv, FileOfConn, FileOfName
<1>5. n \in DOMAIN files \/ slot[n] # Scheduler!Empty =>
        \E d \in Conns : /\ n.part \in PartsOf[d]
                         /\ fileName[d] # NoName /\ n.sec <= fileName[d].sec
  BY DEF FilesInv, FileOfName
<1> QED BY <1>1, <1>2, <1>3, <1>4, <1>5

LEMMA NamedOK ==
  ASSUME FilesInv, NEW c \in Conns, fileName[c] # NoName
  PROVE  fileName[c] \in Names /\ fileName[c].part \in PartsOf[c] /\ upload[c] # 0
BY DEF FilesInv, FilesOK, FileOfConn

LEMMA AddFiles ==
  ASSUME TcpAssumption, Separate, TalkInv, TalkInv', FilesInv, NEW c \in Conns, AddTask(c)
  PROVE  FilesInv'
<1> DEFINE n == fileName[c]
<1>1. pc[c] = "add" /\ n # NoName /\ n \in Names /\ n.part \in PartsOf[c] /\ ~fp[c]
  BY NamedOK DEF AddTask, FilesInv, FileOfConn, Filling
<1>2. openBy[n] = NoConn
  BY <1>1, OwnersName
<1>3. /\ clock' = clock /\ fp' = fp /\ fileName' = fileName /\ files' = files /\ openBy' = openBy
      /\ produced' = produced /\ input' = input /\ inputOf' = inputOf
      /\ sizeOf' = sizeOf /\ upload' = upload /\ up' = up /\ replies' = replies
  BY DEF AddTask, diskVars, schedVars, runVars, clientVars, Scheduler!Accept
<1>4. \/ slot' = slot
      \/ slot' = [slot EXCEPT ![n] = [st |-> "NewAdd", res |-> NoResult]]
  BY DEF AddTask, schedVars, Scheduler!Accept
<1>5. FilesOK'
  BY <1>3, <1>4 DEF FilesInv, FilesOK, Names, NoName, Parts
<1>6. Grown /\ ResultsKept
  BY <1>3, Unlisted DEF ResultsKept
<1>7. ASSUME NEW d \in Conns PROVE Delivered(d)'
  BY <1>3, <1>6, DeliveredKept DEF FilesInv, TalkInv
<1>8. ASSUME NEW d \in Conns \ {c} PROVE FileOfConn(d)'
  <2>1. ConnAlike(d)
    BY <1>3 DEF ConnAlike, Alike, AddTask, clientVars, TalkInv, TalkOK
  <2>2. clock' \in Nat /\ clock <= clock'
    BY <1>3 DEF FilesInv, FilesOK, TcpAssumption
  <2> QED BY <1>6, <2>1, <2>2, ConnKept DEF FilesInv, TalkInv
<1>9. FileOfConn(c)'
  <2>1. pc'[c] = "recv" /\ ~bContinueAccept'[c]
    BY DEF AddTask, TalkInv, TalkOK
  <2>2. ~Filling(c)' /\ ~Filling(c) /\ (Handled(c)' <=> Handled(c))
    BY <1>1, <2>1 DEF Filling, Handled, AddTask
  <2>3. Contents(upload[c])' = Contents(upload[c]) /\ accpetedSize' = accpetedSize
    BY <1>3 DEF Contents, AddTask
  <2>4. FileOfConn(c)
    BY DEF FilesInv
  <2> QED BY <1>1, <1>3, <2>1, <2>2, <2>3, <2>4 DEF FileOfConn
<1>10. ASSUME NEW m \in Names, m # n PROVE FileOfName(m)'
  <2>1. NameAlike(m)
    BY <1>3, <1>4, <1>10 DEF NameAlike, FilesInv, FilesOK
  <2> QED BY <1>3, <1>6, <2>1, NameKept DEF FilesInv, TalkInv
<1>11. ASSUME NEW m \in Names, m = n PROVE FileOfName(m)'
  <2>1. CASE slot' = slot
    <3>1. NameAlike(m)
      BY <1>3, <2>1 DEF NameAlike
    <3> QED BY <1>3, <1>6, <3>1, NameKept DEF FilesInv, TalkInv
  <2>2. CASE slot' = [slot EXCEPT ![n] = [st |-> "NewAdd", res |-> NoResult]]
    <3>1. slot'[m].st = "NewAdd"
      BY <1>1, <1>11, <2>2 DEF FilesInv, FilesOK
    <3>2. FileOfName(m)
      BY DEF FilesInv
    <3>3. m.sec <= fileName[c].sec /\ m.part \in PartsOf[c] /\ fileName[c] # NoName
      BY <1>1, <1>11 DEF Names, TcpAssumption
    <3>4. m \in DOMAIN files => \E u \in DOMAIN sizeOf' : files[m] = Contents(u)'
      BY <1>2, <1>3, <1>11, <3>2 DEF FileOfName, Contents
    <3>5. m \in DOMAIN input => m \in DOMAIN files /\ input[m] = files[m]
      BY <3>2 DEF FileOfName
    <3>6. openBy[m] = NoConn /\ NoConn \notin Conns
      BY <1>2, <1>11 DEF TcpAssumption
    <3> QED BY <1>3, <3>1, <3>2, <3>3, <3>4, <3>5, <3>6 DEF FileOfName
  <2> QED BY <1>4, <2>1, <2>2
<1> QED BY <1>5, <1>7, <1>8, <1>9, <1>10, <1>11 DEF FilesInv

LEMMA CloseFiles ==
  ASSUME TcpAssumption, TalkInv, TalkInv', FilesInv, NEW c \in Conns, CloseTask(c)
  PROVE  FilesInv'
<1> DEFINE n == fileName[c]
<1>1. pc[c] = "close" /\ n # NoName /\ n \in Names /\ ~bContinueAccept[c]
  BY NamedOK DEF CloseTask, FilesInv, FileOfConn, TalkInv, Talk, Still, Offered, Receiving, Asked
<1>2. /\ clock' = clock /\ fp' = fp /\ fileName' = fileName /\ files' = files /\ openBy' = openBy
      /\ produced' = produced /\ input' = input /\ inputOf' = inputOf
      /\ sizeOf' = sizeOf /\ upload' = upload /\ up' = up /\ replies' = replies
  BY DEF CloseTask, diskVars, schedVars, runVars, clientVars, Scheduler!Close
<1>3. slot' = slot \/ slot' = [slot EXCEPT ![n] = Scheduler!Empty]
  BY DEF CloseTask, schedVars, Scheduler!Close
<1>4. FilesOK'
  BY <1>2, <1>3 DEF FilesInv, FilesOK, Names, NoName, Parts
<1>5. Grown /\ ResultsKept
  BY <1>2, Unlisted DEF ResultsKept
<1>6. ASSUME NEW d \in Conns PROVE Delivered(d)'
  BY <1>2, <1>5, DeliveredKept DEF FilesInv, TalkInv
<1>7. ASSUME NEW d \in Conns \ {c} PROVE FileOfConn(d)'
  <2>1. ConnAlike(d)
    BY <1>2 DEF ConnAlike, Alike, CloseTask, clientVars, TalkInv, TalkOK
  <2>2. clock' \in Nat /\ clock <= clock'
    BY <1>2 DEF FilesInv, FilesOK, TcpAssumption
  <2> QED BY <1>5, <2>1, <2>2, ConnKept DEF FilesInv, TalkInv
<1>8. FileOfConn(c)'
  <2>1. pc'[c] = "recv" /\ bContinueAccept' = bContinueAccept
    BY DEF CloseTask, TalkInv, TalkOK
  <2>2. ~Filling(c)' /\ ~Filling(c) /\ (Handled(c)' <=> Handled(c))
    BY <1>1, <2>1 DEF Filling, Handled, CloseTask
  <2>3. Contents(upload[c])' = Contents(upload[c]) /\ accpetedSize' = accpetedSize
    BY <1>2 DEF Contents, CloseTask
  <2>4. FileOfConn(c)
    BY DEF FilesInv
  <2> QED BY <1>1, <1>2, <2>1, <2>2, <2>3, <2>4 DEF FileOfConn
<1>9. ASSUME NEW m \in Names, slot'[m] = slot[m] PROVE FileOfName(m)'
  <2>1. NameAlike(m)
    BY <1>2, <1>9 DEF NameAlike
  <2> QED BY <1>2, <1>5, <2>1, NameKept DEF FilesInv, TalkInv
<1>10. ASSUME NEW m \in Names, slot'[m] # slot[m] PROVE FileOfName(m)'
  <2>1. m = n /\ slot'[m] = Scheduler!Empty /\ slot[m] # Scheduler!Empty
    BY <1>3, <1>10 DEF FilesInv, FilesOK
  <2>2. slot'[m].st # "Processed"
    BY <2>1 DEF Scheduler!Empty
  <2>3. FileOfName(m)
    BY DEF FilesInv
  <2>4. \A u \in DOMAIN sizeOf : Contents(u)' = Contents(u)
    BY <1>2 DEF Contents
  <2>5. Scheduler!Empty' = Scheduler!Empty
    BY DEF Scheduler!Empty
  <2> QED BY <1>2, <2>1, <2>2, <2>3, <2>4, <2>5 DEF FileOfName
<1> QED BY <1>4, <1>6, <1>7, <1>8, <1>9, <1>10 DEF FilesInv

LEMMA DataFiles ==
  ASSUME TcpAssumption, Separate, TalkInv, TalkInv', FilesInv, NEW c \in Conns,
         NEW k \in 1..Len(stream[c]), RecvData(c, k)
  PROVE  FilesInv'
<1> DEFINE n == fileName[c]
           u == upload[c]
           a == accpetedSize[c]
           whole == a + k = fileSize[c]
<1>1. bContinueAccept[c] /\ pc[c] = "recv" /\ Receiving(c)
  BY DEF TalkInv, Talk, RecvData, Recv, Still, Offered, Asked
<1>2. /\ Handled(c) /\ Filling(c)
      /\ u \in 1..Len(sizeOf) /\ u # 0 /\ fileSize[c] = sizeOf[u]
  BY <1>1, WhenHandled DEF Receiving, Filling
<1>3. /\ FileOfConn(c) /\ n # NoName /\ n \in Names /\ n.part \in PartsOf[c]
      /\ n \in DOMAIN files <=> fp[c]
      /\ fp[c] => openBy[n] = c /\ files[n] = FirstPieces(u, a)
  BY <1>1, <1>2, NamedOK DEF FilesInv, FileOfConn
<1>4. /\ clock' = clock /\ fileName' = fileName /\ produced' = produced /\ input' = input
      /\ inputOf' = inputOf /\ slot' = slot /\ sizeOf' = sizeOf /\ upload' = upload
      /\ up' = up /\ bContinueAccept' = bContinueAccept /\ expects' = expects
      /\ toSend' = toSend /\ fileSize' = fileSize
      /\ accpetedSize' = [accpetedSize EXCEPT ![c] = @ + k]
      /\ stream' = [stream EXCEPT ![c] = SubSeq(@, k + 1, Len(@))]
  BY DEF RecvData, Recv, clientVars, schedVars, runVars
<1>5. /\ fp' = [fp EXCEPT ![c] = fp[c] /\ ~whole]
      /\ openBy' = IF fp[c] /\ whole THEN [openBy EXCEPT ![n] = NoConn] ELSE openBy
  <2>1. CASE whole
    BY <2>1 DEF RecvData, CloseFile
  <2>2. CASE ~whole
    <3>1. fp' = fp /\ openBy' = openBy
      BY <2>2 DEF RecvData
    <3>2. fp = [fp EXCEPT ![c] = fp[c]]
      BY DEF FilesInv, FilesOK
    <3>3. fp[c] \in BOOLEAN
      BY DEF FilesInv, FilesOK
    <3>4. (fp[c] /\ ~whole) = fp[c]
      BY <2>2, <3>3
    <3> QED BY <2>2, <3>1, <3>2, <3>4
  <2> QED BY <2>1, <2>2
<1>6. /\ DOMAIN files' = DOMAIN files
      /\ \A m \in DOMAIN files : m # n => files'[m] = files[m]
      /\ fp[c] => files'[n] = FirstPieces(u, a + k)
  <2>1. files' = IF fp[c] THEN [files EXCEPT ![n] = @ \o SubSeq(stream[c], 1, k)] ELSE files
    BY DEF RecvData
  <2>2. DOMAIN files' = DOMAIN files /\ \A m \in DOMAIN files : m # n => files'[m] = files[m]
    BY <2>1
  <2>3. fp[c] => files'[n] = FirstPieces(u, a) \o SubSeq(stream[c], 1, k)
    BY <1>3, <2>1
  <2>4. FirstPieces(u, a) \o SubSeq(stream[c], 1, k) = FirstPieces(u, a + k)
    <3>1. stream[c] \in Seq({Piece(u)}) /\ a \in Nat
      BY <1>1 DEF Receiving, TalkInv, TalkOK
    <3> HIDE DEF u, a
    <3> QED BY <3>1, PiecesAdd
  <2> QED BY <2>2, <2>3, <2>4
<1>7. whole => FirstPieces(u, a + k) = Contents(u)
  BY <1>2 DEF FirstPieces, Contents
<1>8. /\ accpetedSize'[c] = a + k
      /\ fp'[c] = (fp[c] /\ ~whole) /\ \A d \in Conns \ {c} : fp'[d] = fp[d]
  BY <1>4, <1>5 DEF TalkInv, TalkOK, FilesInv, FilesOK
<1>9. /\ \A d \in Conns \ {c} : pc'[d] = pc[d] /\ replies'[d] = replies[d]
      /\ whole => pc'[c] \in {"add", "ended"}
      /\ ~whole => pc'[c] = "recv"
  <2>1. CASE whole
    <3>1. Send(c, Reply("ConfirmRecog"), "add")
      BY <2>1 DEF RecvData
    <3>2. \A d \in Conns \ {c} : pc'[d] = pc[d] /\ replies'[d] = replies[d]
      <4> HIDE DEF whole
      <4> QED BY <3>1, SendOK DEF TalkInv
    <3> QED BY <2>1, <3>1, <3>2 DEF Send, TalkInv, TalkOK
  <2>2. CASE ~whole
    BY <1>1, <2>2 DEF RecvData
  <2> QED BY <2>1, <2>2
<1>10. FilesOK'
  <2>1. fp' \in [Conns -> BOOLEAN]
    <3>1. (fp[c] /\ ~whole) \in BOOLEAN
      OBVIOUS
    <3> HIDE DEF whole
    <3> QED BY <1>5, <3>1 DEF FilesInv, FilesOK
  <2>2. openBy' \in [Names -> Conns \cup {NoConn}]
    <3> HIDE DEF whole
    <3> QED BY <1>5 DEF FilesInv, FilesOK
  <2> QED BY <1>4, <1>6, <2>1, <2>2 DEF FilesInv, FilesOK, Names, NoName, Parts
<1>11. Grown /\ ResultsKept
  BY <1>4, Unlisted DEF ResultsKept
<1>12. ASSUME NEW d \in Conns \ {c} PROVE FileOfConn(d)' /\ Delivered(d)'
  <2>1. fileName[d] # NoName => fileName[d] # n
    BY <1>3, OwnersName
  <2>2. Alike(d)
    BY <1>4, <1>9 DEF Alike, TalkInv, TalkOK
  <2>3. fileName[d] # NoName => fileName[d] \in Names /\ openBy'[fileName[d]] = openBy[fileName[d]]
    <3> HIDE DEF whole
    <3> QED BY <1>5, <2>1, NamedOK DEF FilesInv, FilesOK
  <2>4. ConnAlike(d)
    <3> HIDE DEF whole
    <3> QED BY <1>4, <1>6, <1>8, <2>1, <2>2, <2>3 DEF ConnAlike
  <2>5. clock' \in Nat /\ clock <= clock'
    BY <1>4 DEF FilesInv, FilesOK, TcpAssumption
  <2>6. Delivered(d)'
    BY <1>4, <1>9, <1>11, DeliveredKept DEF FilesInv, TalkInv
  <2> QED BY <1>11, <2>4, <2>5, <2>6, ConnKept DEF FilesInv, TalkInv
<1>13. Handled(c)'
  <2> DEFINE Q == {Piece(u)}
             s == stream[c]
             t == stream'[c]
  <2>1. s \in Seq(Q) /\ t = SubSeq(s, k + 1, Len(s)) /\ k \in 1..Len(s)
    BY <1>1, <1>4 DEF Receiving, TalkInv, TalkOK
  <2>2. t \in Seq(Q)
    <3> HIDE DEF Q, s, t
    <3> QED BY <2>1, RestOf
  <2>3. ASSUME t # << >> PROVE t[1] \in Q
    <3> HIDE DEF Q, t
    <3>1. Len(t) \in Nat \ {0}
      BY <2>2, <2>3, EmptySeq
    <3> QED BY <2>2, <3>1, ElementOfSeq
  <2> QED BY <2>3 DEF Handled, Piece
<1>14. FileOfConn(c)'
  <2>1. Contents(upload[c])' = Contents(u)
    BY <1>4 DEF Contents
  <2>2. Filling(c)' <=> ~whole
    <3> HIDE DEF whole
    <3> QED BY <1>1, <1>4, <1>9 DEF Filling
  <2>3. n \in DOMAIN files' => files'[n] = IF fp'[c] THEN FirstPieces(u, a + k) ELSE Contents(u)
    <3> HIDE DEF whole
    <3> QED BY <1>3, <1>6, <1>7, <1>8
  <2>4. fp'[c] => openBy'[n] = c /\ Filling(c)' /\ n \in DOMAIN files'
    <3> HIDE DEF whole
    <3> QED BY <1>3, <1>5, <1>6, <1>8, <2>2
  <2>5. Filling(c)' /\ ~fp'[c] => n \notin DOMAIN files'
    <3> HIDE DEF whole
    <3> QED BY <1>3, <1>6, <1>8, <2>2
  <2>6. n.sec <= clock
    BY <1>3 DEF FileOfConn
  <2>7. /\ fileName'[c] = n /\ clock' = clock /\ upload'[c] = u /\ upload'[c] # 0
        /\ accpetedSize'[c] = a + k
    BY <1>2, <1>4, <1>8
  <2>8. fileName'[c] \in DOMAIN files' =>
          files'[fileName'[c]] = IF fp'[c] THEN FirstPieces(upload'[c], accpetedSize'[c])
                                           ELSE Contents(upload[c])'
    BY <2>1, <2>3, <2>7
  <2> HIDE DEF whole, n, u, a
  <2> QED BY <1>3, <1>13, <2>4, <2>5, <2>6, <2>7, <2>8 DEF FileOfConn, FirstPieces, n
<1>15. Delivered(c)'
  <2>1. up[c] => replies[c] = << >>
    BY <1>1 DEF Receiving, Quiet
  <2>2. CASE whole
    <3>1. Send(c, Reply("ConfirmRecog"), "add")
      BY <2>2 DEF RecvData
    <3> DEFINE m == Reply("ConfirmRecog")
    <3>2. up[c] => replies'[c] = Append(replies[c], m)
      BY <3>1 DEF Send, TalkInv, TalkOK
    <3>3. Append(<< >>, m) = <<m>>
      OBVIOUS
    <3>4. m.kind # "Recog"
      BY DEF Reply
    <3> HIDE DEF m
    <3>5. up[c] => \A i \in DOMAIN replies'[c] : replies'[c][i] = m
      BY <2>1, <3>2, <3>3
    <3> QED BY <1>4, <3>4, <3>5 DEF Delivered
  <2>3. CASE ~whole
    <3>1. replies' = replies
      BY <2>3 DEF RecvData
    <3> QED BY <1>4, <2>1, <3>1 DEF Delivered
  <2> QED BY <2>2, <2>3
<1>16. ASSUME NEW m \in Names, m # n PROVE FileOfName(m)'
  <2>1. openBy'[m] = openBy[m]
    <3> HIDE DEF whole
    <3> QED BY <1>5, <1>16 DEF FilesInv, FilesOK
  <2>2. FileOfName(m)
    BY DEF FilesInv
  <2>3. \A d \in Conns : openBy'[m] = d => fp'[d] /\ fileName'[d] = m
    BY <1>4, <1>8, <1>16, <2>1, <2>2 DEF FileOfName
  <2>4. \A x \in DOMAIN sizeOf : Contents(x)' = Contents(x)
    BY <1>4 DEF Contents
  <2>5. Scheduler!Empty' = Scheduler!Empty
    BY DEF Scheduler!Empty
  <2>6. m \in DOMAIN files' <=> m \in DOMAIN files
    BY <1>6
  <2>7. m \in DOMAIN files => files'[m] = files[m]
    BY <1>6, <1>16
  <2> QED BY <1>4, <2>1, <2>2, <2>3, <2>4, <2>5, <2>6, <2>7 DEF FileOfName
<1>17. ASSUME NEW m \in Names, m = n PROVE FileOfName(m)'
  <2>1. FileOfName(m)
    BY DEF FilesInv
  <2>2. CASE ~fp[c]
    <3>1. m \notin DOMAIN files' /\ m \notin DOMAIN files
      BY <1>3, <1>6, <1>17, <2>2
    <3>2. openBy'[m] = openBy[m] /\ openBy[m] = NoConn
      <4>1. openBy[m] = NoConn
        BY <1>3, <1>17, <2>2, OwnersName
      <4> QED BY <1>5, <2>2, <4>1
    <3>3. NoConn \notin Conns /\ Scheduler!Empty' = Scheduler!Empty
      BY DEF TcpAssumption, Scheduler!Empty
    <3> QED BY <1>4, <2>1, <3>1, <3>2, <3>3 DEF FileOfName
  <2>3. CASE fp[c]
    <3>1. openBy[m] = c /\ c # NoConn
      BY <1>3, <1>17, <2>3 DEF TcpAssumption
    <3>2. slot[m] = Scheduler!Empty /\ m \notin DOMAIN input
      BY <2>1, <3>1 DEF FileOfName
    <3>3. slot'[m] = Scheduler!Empty' /\ slot'[m].st # "Processed"
      BY <1>4, <3>2 DEF Scheduler!Empty
    <3>4. openBy'[m] = IF whole THEN NoConn ELSE c
      <4> HIDE DEF whole
      <4> QED BY <1>5, <1>17, <2>3, <3>1 DEF FilesInv, FilesOK
    <3>5. openBy'[m] = NoConn => \E x \in DOMAIN sizeOf' : files'[m] = Contents(x)'
      <4>1. u \in DOMAIN sizeOf'
        BY <1>2, <1>4 DEF TalkInv, TalkOK
      <4>2. whole => files'[m] = Contents(u)
        <5> HIDE DEF whole
        <5> QED BY <1>6, <1>7, <1>17, <2>3
      <4>3. \A x \in DOMAIN sizeOf' : Contents(x)' = Contents(x)
        BY <1>4 DEF Contents
      <4> HIDE DEF whole
      <4> QED BY <3>1, <3>4, <4>1, <4>2, <4>3
    <3>6. \A d \in Conns : openBy'[m] = d => fp'[d] /\ fileName'[d] = m
      <4>1. NoConn \notin Conns
        BY DEF TcpAssumption
      <4> HIDE DEF whole
      <4> QED BY <1>4, <1>8, <1>17, <2>3, <3>4, <4>1
    <3>7. m.part \in PartsOf[c] /\ fileName'[c] # NoName /\ m.sec <= fileName'[c].sec
      BY <1>3, <1>4, <1>17 DEF Names, TcpAssumption
    <3> QED BY <1>4, <3>2, <3>3, <3>5, <3>6, <3>7 DEF FileOfName
  <2> QED BY <2>2, <2>3
<1> QED BY <1>10, <1>12, <1>14, <1>15, <1>16, <1>17 DEF FilesInv

(* The name of an upload whose header is received now has not been used.   *)
LEMMA HeaderFiles ==
  ASSUME TcpAssumption, Separate, TalkInv, TalkInv', FilesInv, NEW c \in Conns,
         NEW k \in 1..Len(stream[c]), RequestRecog(c, k)
  PROVE  FilesInv'
<1> DEFINE p == stream[c][1].part
           old == fileName[c]
<1>1. pc[c] = "recv" /\ ~bContinueAccept[c] /\ Offered(c)
  <2>1. RecvCommand(c, k, "RequestRecog") /\ "RequestRecog" \notin Commands
    BY DEF RequestRecog, Commands
  <2> QED BY <2>1, Commanded
<1>2. /\ p \in PartsOf[c] /\ upload[c] \in 1..Len(sizeOf) /\ upload[c] # 0
      /\ ~Handled(c) /\ FileOfConn(c)
  BY <1>1, WhenHandled DEF Offered, Headers, Header, FilesInv
<1>3. ~fp[c] /\ (old # NoName => old.sec < clock)
  BY <1>1, <1>2 DEF FileOfConn, Filling
<1>4. PICK n \in Names : n = [sec |-> clock, part |-> p]
  BY <1>2, NamesAreNames DEF Names, FilesInv, FilesOK
<1>5. n # NoName /\ n.sec = clock /\ n.part = p /\ clock \in Nat
  BY <1>2, <1>4, NamesAreNames DEF FilesInv, FilesOK, TcpAssumption
<1>6. /\ n \notin DOMAIN files /\ slot[n] = Scheduler!Empty /\ openBy[n] = NoConn
      /\ n \notin DOMAIN input
  <2>1. openBy[n] = NoConn
    BY <1>2, <1>3, <1>5, OwnersName
  <2>2. ~(old # NoName /\ n.sec <= old.sec)
    <3>1. old # NoName => old.sec \in Nat
      BY DEF FilesInv, FilesOK, Names, TcpAssumption
    <3> QED BY <1>3, <1>5, <3>1
  <2>3. n \notin DOMAIN files /\ slot[n] = Scheduler!Empty
    BY <1>2, <1>5, <2>2, OwnersName
  <2> QED BY <2>1, <2>3 DEF FilesInv, FileOfName
<1>7. /\ clock' = clock /\ produced' = produced /\ input' = input /\ inputOf' = inputOf
      /\ slot' = slot /\ sizeOf' = sizeOf /\ upload' = upload /\ up' = up /\ pc' = pc
      /\ replies' = replies /\ expects' = expects /\ toSend' = toSend
      /\ bContinueAccept' = [bContinueAccept EXCEPT ![c] = TRUE]
      /\ accpetedSize' = [accpetedSize EXCEPT ![c] = 0]
      /\ stream' = [stream EXCEPT ![c] = SubSeq(@, k + 1, Len(@))]
      /\ fileName' = [fileName EXCEPT ![c] = n]
  BY <1>4 DEF RequestRecog, RecvCommand, Recv, clientVars, schedVars, runVars
<1>8. \/ /\ files' = [x \in DOMAIN files \cup {n} |-> IF x = n THEN << >> ELSE files[x]]
         /\ openBy' = [openBy EXCEPT ![n] = c]
         /\ fp' = [fp EXCEPT ![c] = TRUE]
      \/ files' = files /\ openBy' = openBy /\ fp' = [fp EXCEPT ![c] = FALSE]
  BY <1>4 DEF RequestRecog, OpenFile
<1>9. /\ \A m \in Names \ {n} : /\ m \in DOMAIN files' <=> m \in DOMAIN files
                                /\ m \in DOMAIN files => files'[m] = files[m]
                                /\ openBy'[m] = openBy[m]
      /\ \A d \in Conns \ {c} : fp'[d] = fp[d] /\ fileName'[d] = fileName[d]
      /\ fileName'[c] = n
  BY <1>7, <1>8 DEF FilesInv, FilesOK
<1>10. FilesOK'
  <2>1. fp' \in [Conns -> BOOLEAN] /\ openBy' \in [Names -> Conns \cup {NoConn}]
    BY <1>8 DEF FilesInv, FilesOK
  <2>2. fileName' \in [Conns -> Names \cup {NoName}]
    BY <1>7 DEF FilesInv, FilesOK
  <2>3. DOMAIN files' \subseteq Names
    BY <1>8 DEF FilesInv, FilesOK
  <2> QED BY <1>7, <2>1, <2>2, <2>3 DEF FilesInv, FilesOK, Names, NoName, Parts
<1>11. Grown /\ ResultsKept
  BY <1>7, Unlisted DEF ResultsKept
<1>12. \A d \in Conns : Delivered(d)'
  BY <1>7, <1>11, DeliveredKept DEF FilesInv, TalkInv
<1>13. ASSUME NEW d \in Conns \ {c} PROVE FileOfConn(d)'
  <2>1. fileName[d] # NoName => fileName[d] \in Names \ {n}
    BY <1>2, <1>5, OwnersName, NamedOK
  <2>2. Alike(d)
    BY <1>7 DEF Alike, RequestRecog, TalkInv, TalkOK
  <2>3. ConnAlike(d)
    BY <1>9, <2>1, <2>2 DEF ConnAlike
  <2>4. clock' \in Nat /\ clock <= clock'
    BY <1>5, <1>7
  <2> QED BY <1>11, <2>3, <2>4, ConnKept DEF FilesInv, TalkInv
<1>14. FileOfConn(c)'
  <2>1. bContinueAccept'[c] /\ pc'[c] = "recv" /\ accpetedSize'[c] = 0
    BY <1>1, <1>7 DEF TalkInv, TalkOK
  <2>2. Receiving(c)' /\ Filling(c)'
    BY <2>1 DEF TalkInv, Talk, Still, Offered, Asked, Filling
  <2>3. Handled(c)'
    <3> DEFINE q == Piece(upload'[c])
               t == stream'[c]
    <3>1. t \in Seq({q})
      BY <2>2 DEF Receiving
    <3>2. ASSUME t # << >> PROVE t[1] = q
      <4> HIDE DEF q, t
      <4>1. Len(t) \in Nat \ {0}
        BY <3>1, <3>2, EmptySeq
      <4> QED BY <3>1, <4>1, ElementOfSeq
    <3> QED BY <3>2 DEF Handled, Piece
  <2>4. CASE files' = files /\ openBy' = openBy /\ fp' = [fp EXCEPT ![c] = FALSE]
    <3>1. ~fp'[c] /\ n \notin DOMAIN files'
      BY <1>6, <2>4 DEF FilesInv, FilesOK
    <3> QED BY <1>2, <1>5, <1>7, <1>9, <2>1, <2>2, <2>3, <3>1 DEF FileOfConn
  <2>5. CASE /\ files' = [x \in DOMAIN files \cup {n} |-> IF x = n THEN << >> ELSE files[x]]
             /\ openBy' = [openBy EXCEPT ![n] = c]
             /\ fp' = [fp EXCEPT ![c] = TRUE]
    <3>1. fp'[c] /\ openBy'[n] = c /\ n \in DOMAIN files' /\ files'[n] = << >>
      BY <2>5 DEF FilesInv, FilesOK
    <3>2. files'[n] = FirstPieces(upload'[c], accpetedSize'[c])
      BY <2>1, <3>1, NoPieces
    <3> QED BY <1>2, <1>5, <1>7, <1>9, <2>1, <2>2, <2>3, <3>1, <3>2 DEF FileOfConn, FirstPieces
  <2> QED BY <1>8, <2>4, <2>5
<1>15. ASSUME NEW m \in Names, m # n PROVE FileOfName(m)'
  <2>1. FileOfName(m)
    BY DEF FilesInv
  <2>2. m \in DOMAIN files' \/ slot'[m] # Scheduler!Empty =>
          \E d \in Conns : /\ m.part \in PartsOf[d]
                           /\ fileName'[d] # NoName /\ m.sec <= fileName'[d].sec
    <3> SUFFICES ASSUME m \in DOMAIN files \/ slot[m] # Scheduler!Empty
                 PROVE  \E d \in Conns : /\ m.part \in PartsOf[d]
                                         /\ fileName'[d] # NoName /\ m.sec <= fileName'[d].sec
      BY <1>7, <1>9, <1>15
    <3>1. PICK d \in Conns : /\ m.part \in PartsOf[d]
                             /\ fileName[d] # NoName /\ m.sec <= fileName[d].sec
      BY <2>1 DEF FileOfName
    <3>2. CASE d # c
      BY <1>9, <3>1, <3>2
    <3>3. CASE d = c
      <4>1. m.sec \in Nat /\ old # NoName /\ old.sec \in Nat /\ m.sec <= old.sec
        BY <3>1, <3>3 DEF FilesInv, FilesOK, Names, TcpAssumption
      <4>2. m.sec <= n.sec
        BY <1>3, <1>5, <4>1
      <4> QED BY <1>5, <1>9, <3>1, <3>3, <4>2
    <3> QED BY <3>2, <3>3
  <2>3. \A d \in Conns : openBy'[m] = d => fp'[d] /\ fileName'[d] = m
    BY <1>3, <1>9, <1>15, <2>1 DEF FileOfName
  <2>4. \A x \in DOMAIN sizeOf : Contents(x)' = Contents(x)
    BY <1>7 DEF Contents
  <2>5. Scheduler!Empty' = Scheduler!Empty
    BY DEF Scheduler!Empty
  <2> QED BY <1>7, <1>9, <1>15, <2>1, <2>2, <2>3, <2>4, <2>5 DEF FileOfName
<1>16. FileOfName(n)'
  <2>1. n.part \in PartsOf[c] /\ fileName'[c] # NoName /\ n.sec <= fileName'[c].sec
    BY <1>2, <1>5, <1>9
  <2>2. slot'[n] = Scheduler!Empty /\ slot'[n].st # "Processed" /\ n \notin DOMAIN input'
    BY <1>6, <1>7 DEF Scheduler!Empty
  <2>3. Scheduler!Empty' = Scheduler!Empty /\ NoConn \notin Conns
    BY DEF Scheduler!Empty, TcpAssumption
  <2>4. CASE files' = files /\ openBy' = openBy
    BY <1>6, <2>2, <2>3, <2>4 DEF FileOfName
  <2>5. CASE openBy' = [openBy EXCEPT ![n] = c] /\ fp' = [fp EXCEPT ![c] = TRUE]
    <3>1. openBy'[n] = c /\ c # NoConn /\ fp'[c]
      BY <2>3, <2>5 DEF FilesInv, FilesOK
    <3> QED BY <1>9, <2>1, <2>2, <2>3, <3>1 DEF FileOfName
  <2> QED BY <1>8, <2>4, <2>5
<1> QED BY <1>10, <1>12, <1>13, <1>14, <1>15, <1>16 DEF FilesInv

(***************************************************************************)
(* The recognition, and the clock.                                         *)
(***************************************************************************)
(* A step that concerns the task of at most one name n.                    *)
LEMMA TaskOnly ==
  ASSUME TalkInv, TalkInv', FilesInv, ResultsKept, FilesOK', UNCHANGED talkVars,
         UNCHANGED <<fp, fileName, files, openBy>>, clock' \in Nat, clock <= clock',
         NEW N, \A m \in Names \ N : NameAlike(m), \A m \in Names \cap N : FileOfName(m)'
  PROVE  FilesInv'
<1>1. Grown /\ \A d \in Conns : Alike(d) /\ ConnAlike(d)
  BY Unlisted DEF talkVars, Alike, ConnAlike
<1>2. \A d \in Conns : FileOfConn(d)'
  BY <1>1, ConnKept DEF FilesInv, TalkInv
<1>3. \A d \in Conns : Delivered(d)'
  BY <1>1, DeliveredKept DEF FilesInv, TalkInv, talkVars
<1>4. \A m \in Names \ N : FileOfName(m)'
  BY <1>1, NameKept DEF FilesInv, TalkInv
<1> QED BY <1>2, <1>3, <1>4 DEF FilesInv

LEMMA StartFiles ==
  ASSUME TalkInv, TalkInv', FilesInv, NEW n \in Names, OcrStart(n)
  PROVE  FilesInv'
<1>1. /\ UNCHANGED talkVars /\ UNCHANGED <<clock, fp, fileName, files, openBy>>
      /\ UNCHANGED <<produced, input, inputOf>>
  BY DEF OcrStart, talkVars, threadVars, clientVars, diskVars, runVars, Scheduler!Start
<1>2. /\ slot[n].st = "NewAdd"
      /\ slot' = [slot EXCEPT ![n] = [st |-> "Processing", res |-> NoResult]]
  BY DEF OcrStart, Scheduler!Start
<1>3. FilesOK' /\ ResultsKept
  BY <1>1, <1>2 DEF FilesInv, FilesOK, ResultsKept, Names, NoName, Parts
<1>4. clock' \in Nat /\ clock <= clock'
  BY <1>1 DEF FilesInv, FilesOK, TcpAssumption
<1>5. \A m \in Names \ {n} : NameAlike(m)
  BY <1>1, <1>2 DEF NameAlike, FilesInv, FilesOK
<1>6. FileOfName(n)'
  <2>1. slot[n] # Scheduler!Empty /\ slot'[n].st = "Processing"
    BY <1>2 DEF Scheduler!Empty, FilesInv, FilesOK
  <2>2. FileOfName(n) /\ \A u \in DOMAIN sizeOf : Contents(u)' = Contents(u)
    BY <1>1 DEF FilesInv, Contents, talkVars
  <2>3. sizeOf' = sizeOf
    BY <1>1 DEF talkVars
  <2> QED BY <1>1, <2>1, <2>2, <2>3 DEF FileOfName
<1>7. \A m \in Names \cap {n} : FileOfName(m)'
  BY <1>6
<1> QED BY <1>1, <1>3, <1>4, <1>5, <1>7, TaskOnly

LEMMA ReadFiles ==
  ASSUME TalkInv, TalkInv', FilesInv, NEW n \in Names, ReadImage(n)
  PROVE  FilesInv'
<1>1. /\ UNCHANGED talkVars /\ UNCHANGED <<clock, fp, fileName, files, openBy>>
      /\ UNCHANGED <<slot, produced, inputOf>>
  BY DEF ReadImage, talkVars, threadVars, clientVars, diskVars, schedVars
<1>2. /\ n \in DOMAIN files /\ openBy[n] = NoConn
      /\ input' = [x \in DOMAIN input \cup {n} |-> IF x = n THEN files[n] ELSE input[x]]
  BY DEF ReadImage
<1>3. FilesOK' /\ ResultsKept
  BY <1>1, <1>2 DEF FilesInv, FilesOK, ResultsKept, Names, NoName, Parts
<1>4. clock' \in Nat /\ clock <= clock'
  BY <1>1 DEF FilesInv, FilesOK, TcpAssumption
<1>5. \A m \in Names \ {n} : NameAlike(m)
  BY <1>1, <1>2 DEF NameAlike
<1>6. FileOfName(n)'
  <2>1. input'[n] = files[n] /\ sizeOf' = sizeOf
    BY <1>1, <1>2 DEF talkVars
  <2>2. FileOfName(n) /\ \A u \in DOMAIN sizeOf : Contents(u)' = Contents(u)
    BY <1>1 DEF FilesInv, Contents, talkVars
  <2>3. Scheduler!Empty' = Scheduler!Empty
    BY DEF Scheduler!Empty
  <2> QED BY <1>1, <1>2, <2>1, <2>2, <2>3 DEF FileOfName
<1>7. \A m \in Names \cap {n} : FileOfName(m)'
  BY <1>6
<1> QED BY <1>1, <1>3, <1>4, <1>5, <1>7, TaskOnly

LEMMA FinishFiles ==
  ASSUME TalkInv, TalkInv', FilesInv, NEW n \in Names, OcrFinish(n)
  PROVE  FilesInv'
<1> DEFINE r == [name |-> n, run |-> Cardinality(produced) + 1]
<1>1. /\ UNCHANGED talkVars /\ UNCHANGED <<clock, fp, fileName, files, openBy>>
  BY DEF OcrFinish, talkVars, threadVars, clientVars, diskVars
<1>2. /\ n \in DOMAIN input /\ r \notin produced /\ produced' = produced \cup {r} /\ r.name = n
      /\ inputOf' = [x \in DOMAIN inputOf \cup {r} |-> IF x = r THEN input[n] ELSE inputOf[x]]
      /\ input' = [x \in DOMAIN input \ {n} |-> input[x]]
      /\ IF slot[n].st = "Processing"
           THEN slot' = [slot EXCEPT ![n] = [st |-> "Processed", res |-> r]]
           ELSE slot' = slot
  BY DEF OcrFinish, Scheduler!Finish
<1> HIDE DEF r
<1>3. FilesOK' /\ ResultsKept
  <2>1. DOMAIN inputOf' \subseteq produced' /\ ResultsKept
    BY <1>2 DEF FilesInv, FilesOK, ResultsKept
  <2>2. DOMAIN slot' = Names /\ DOMAIN input' \subseteq Names
    BY <1>2 DEF FilesInv, FilesOK
  <2> QED BY <1>1, <2>1, <2>2 DEF FilesInv, FilesOK, Names, NoName, Parts
<1>4. clock' \in Nat /\ clock <= clock'
  BY <1>1 DEF FilesInv, FilesOK, TcpAssumption
<1>5. \A m \in Names \ {n} : NameAlike(m)
  BY <1>1, <1>2 DEF NameAlike, FilesInv, FilesOK
<1>6. FileOfName(n)'
  <2>1. FileOfName(n) /\ \A u \in DOMAIN sizeOf : Contents(u)' = Contents(u)
    BY <1>1 DEF FilesInv, Contents, talkVars
  <2>2. n \in DOMAIN files /\ openBy[n] = NoConn /\ input[n] = files[n] /\ n \notin DOMAIN input'
    BY <1>2, <2>1 DEF FileOfName
  <2>3. r \in DOMAIN inputOf' /\ inputOf'[r] = files[n]
    BY <1>2, <2>2
  <2>4. Scheduler!Empty' = Scheduler!Empty /\ sizeOf' = sizeOf
    BY <1>1 DEF Scheduler!Empty, talkVars
  <2>5. slot'[n].st = "Processed" =>
          slot'[n].res \in DOMAIN inputOf' /\ inputOf'[slot'[n].res] = files[n]
    <3>1. CASE slot[n].st = "Processing"
      BY <1>2, <2>3, <3>1 DEF FilesInv, FilesOK
    <3>2. CASE slot[n].st # "Processing"
      BY <1>2, <1>3, <2>1, <3>2 DEF FileOfName, ResultsKept
    <3> QED BY <3>1, <3>2
  <2>6. slot'[n] # Scheduler!Empty => slot[n] # Scheduler!Empty
    BY <1>2 DEF Scheduler!Empty, FilesInv, FilesOK
  <2> QED BY <1>1, <2>1, <2>2, <2>4, <2>5, <2>6 DEF FileOfName
<1>7. \A m \in Names \cap {n} : FileOfName(m)'
  BY <1>6
<1> QED BY <1>1, <1>3, <1>4, <1>5, <1>7, TaskOnly

LEMMA TickFiles ==
  ASSUME TcpAssumption, TalkInv, TalkInv', FilesInv, Tick
  PROVE  FilesInv'
<1>1. /\ UNCHANGED talkVars /\ UNCHANGED <<fp, fileName, files, openBy>>
      /\ UNCHANGED <<slot, produced, input, inputOf>>
  BY DEF Tick, talkVars, threadVars, clientVars, diskVars, schedVars, runVars
<1>2. clock' = clock + 1 /\ clock < MaxClock /\ clock \in Nat /\ MaxClock \in Nat
  BY DEF Tick, FilesInv, FilesOK, TcpAssumption
<1>3. FilesOK' /\ ResultsKept
  BY <1>1, <1>2 DEF FilesInv, FilesOK, ResultsKept, Names, NoName, Parts
<1>4. \A m \in Names : NameAlike(m)
  BY <1>1 DEF NameAlike
<1>5. clock' \in Nat /\ clock <= clock'
  BY <1>2
<1>6. (\A m \in Names \ {} : NameAlike(m)) /\ (\A m \in Names \cap {} : FileOfName(m)')
  BY <1>4
<1> QED BY <1>1, <1>3, <1>5, <1>6, TaskOnly

LEMMA IdleFiles ==
  ASSUME TalkInv, TalkInv', FilesInv, UNCHANGED talkVars, UNCHANGED fileVars
  PROVE  FilesInv'
<1>1. FilesOK' /\ ResultsKept /\ \A m \in Names : NameAlike(m)
  BY DEF FilesInv, FilesOK, fileVars, Names, NoName, Parts, ResultsKept, NameAlike
<1>2. clock' \in Nat /\ clock <= clock'
  BY TcpAssumption DEF FilesInv, FilesOK, fileVars, TcpAssumption
<1>3. UNCHANGED <<fp, fileName, files, openBy>>
  BY DEF fileVars
<1>4. (\A m \in Names \ {} : NameAlike(m)) /\ (\A m \in Names \cap {} : FileOfName(m)')
  BY <1>1
<1> QED BY <1>1, <1>2, <1>3, <1>4, TaskOnly

LEMMA FilesInit ==
  ASSUME TcpAssumption, Init
  PROVE  FilesInv
<1>1. /\ clock = 0 /\ fp = [c \in Conns |-> FALSE] /\ fileName = [c \in Conns |-> NoName]
      /\ files = << >> /\ openBy = [n \in Names |-> NoConn] /\ input = << >> /\ inputOf = << >>
      /\ slot = [n \in Names |-> Scheduler!Empty] /\ pc = [c \in Conns |-> "none"]
      /\ up = [c \in Conns |-> FALSE] /\ upload = [c \in Conns |-> 0]
  BY DEF Init, Scheduler!SvcInit
<1>2. DOMAIN << >> = {}
  OBVIOUS
<1>3. FilesOK
  BY <1>1, <1>2 DEF FilesOK, TcpAssumption
<1>4. \A c \in Conns : FileOfConn(c) /\ Delivered(c)
  BY <1>1 DEF FileOfConn, Delivered
<1>5. \A n \in Names : FileOfName(n)
  <2>1. Scheduler!Empty.st # "Processed"
    BY DEF Scheduler!Empty
  <2> QED BY <1>1, <1>2, <2>1 DEF FileOfName, TcpAssumption
<1> QED BY <1>3, <1>4, <1>5 DEF FilesInv

LEMMA ClientFiles ==
  ASSUME TcpAssumption, Separate, TalkInv, TalkInv', FilesInv, NEW c \in Conns, ClientStep(c)
  PROVE  FilesInv'
<1>1. ASSUME NEW p \in PartsOf[c], NEW s \in Sizes, ClientRequest(c, p, s) PROVE FilesInv'
  BY <1>1, RequestFiles
<1>2. CASE ClientPiece(c)
  BY <1>2, PieceFiles
<1>3. CASE ClientGet(c)
  BY <1>3, AsksFiles DEF ClientGet, Commands, AnswerTo
<1>4. CASE ClientSelect(c)
  BY <1>4, AsksFiles DEF ClientSelect, Commands, AnswerTo
<1>5. CASE ClientReads(c)
  BY <1>5, ReadsFiles
<1>6. CASE Disconnect(c)
  BY <1>6, DisconnectFiles
<1> QED BY <1>1, <1>2, <1>3, <1>4, <1>5, <1>6 DEF ClientStep

LEMMA ThreadFiles ==
  ASSUME TcpAssumption, Separate, TalkInv, TalkInv', FilesInv, NEW c \in Conns, ThreadStep(c)
  PROVE  FilesInv'
<1>1. ASSUME NEW k \in 1..Len(stream[c]),
             RecvData(c, k) \/ RequestRecog(c, k) \/ UnknownCommand(c, k)
               \/ GetRecog(c, k) \/ Select(c, k)
      PROVE  FilesInv'
  BY <1>1, DataFiles, HeaderFiles, NoUnknown, GetFiles, SelectFiles
<1>2. CASE RecvClosed(c)
  BY <1>2, ClosedFiles
<1>3. CASE AddTask(c)
  BY <1>3, AddFiles
<1>4. CASE CloseTask(c)
  BY <1>4, CloseFiles
<1> QED BY <1>1, <1>2, <1>3, <1>4 DEF ThreadStep

LEMMA FilesNext ==
  ASSUME TcpAssumption, Separate, TalkInv, TalkInv', FilesInv, [Next]_vars
  PROVE  FilesInv'
<1>1. ASSUME NEW c \in Conns, AcceptConnection(c) \/ ClientStep(c) \/ ThreadStep(c)
      PROVE  FilesInv'
  BY <1>1, AcceptFiles, ClientFiles, ThreadFiles
<1>2. ASSUME NEW n \in Names, OcrStep(n) PROVE FilesInv'
  BY <1>2, StartFiles, ReadFiles, FinishFiles DEF OcrStep
<1>3. ASSUME NEW r \in produced, StoreRecord(r) PROVE FilesInv'
  <2>1. UNCHANGED talkVars /\ UNCHANGED fileVars
    BY <1>3 DEF StoreRecord, Scheduler!Record, threadVars, clientVars, diskVars, runVars,
                talkVars, fileVars
  <2> QED BY <2>1, IdleFiles
<1>4. CASE Tick
  BY <1>4, TickFiles
<1>5. CASE UNCHANGED vars
  <2>1. UNCHANGED talkVars /\ UNCHANGED fileVars
    BY <1>5 DEF vars, threadVars, clientVars, diskVars, schedVars, runVars, talkVars, fileVars
  <2> QED BY <2>1, IdleFiles
<1> QED BY <1>1, <1>2, <1>3, <1>4, <1>5 DEF Next

LEMMA FilesAreWhole ==
  ASSUME Separate
  PROVE  Spec => [](TalkInv /\ FilesInv)
<1>1. Init => TalkInv /\ FilesInv
  BY TcpAssumption, TalkInit, FilesInit
<1>2. TalkInv /\ FilesInv /\ [Next]_vars => (TalkInv /\ FilesInv)'
  BY TcpAssumption, TalkNext, FilesNext
<1> QED BY <1>1, <1>2, PTL DEF Spec

(* The recognition never reads half a file: what a run reads is what one   *)
(* upload sent, and while a task waits or runs nobody has its file open.   *)
(* Clients start at most one upload a second and have names of their own.  *)
THEOREM WholeFilesRead ==
  ASSUME Separate
  PROVE  Spec => []RunsReadWholeFiles
<1>1. ASSUME TalkInv, FilesInv PROVE RunsReadWholeFiles
  <2>1. ASSUME NEW n \in DOMAIN input PROVE \E u \in DOMAIN sizeOf : input[n] = Contents(u)
    BY <1>1 DEF FilesInv, FilesOK, FileOfName
  <2>2. ASSUME NEW n \in Names, slot[n].st \in {"NewAdd", "Processing"}
        PROVE  openBy[n] = NoConn
    <3>1. slot[n] # Scheduler!Empty
      BY <2>2 DEF Scheduler!Empty
    <3> QED BY <1>1, <3>1 DEF FilesInv, FileOfName
  <2> QED BY <2>1, <2>2 DEF RunsReadWholeFiles
<1> QED BY <1>1, FilesAreWhole, PTL

(* The result that a client is sent was recognised from the file it        *)
(* uploaded last, whatever the other clients do in between, when clients   *)
(* start at most one upload a second and have names of their own.          *)
THEOREM ResultIsOwn ==
  ASSUME Separate
  PROVE  Spec => []OwnResult
<1>1. FilesInv => OwnResult
  BY DEF FilesInv, Delivered, OwnResult
<1> QED BY <1>1, FilesAreWhole, PTL

(***************************************************************************)
(* The names themselves.                                                   *)
(***************************************************************************)
NamesInv ==
  /\ requested \in Seq(Names)
  /\ \A i \in 1..Len(requested) : \E c \in Conns :
       /\ requested[i].part \in PartsOf[c]
       /\ fileName[c] # NoName /\ requested[i].sec <= fileName[c].sec
  /\ \A i, j \in 1..Len(requested) : requested[i] = requested[j] => i = j

LEMMA HeaderNames ==
  ASSUME Separate, TalkInv, FilesInv, NamesInv, NEW c \in Conns,
         NEW k \in 1..Len(stream[c]), RequestRecog(c, k)
  PROVE  NamesInv'
<1> DEFINE p == stream[c][1].part
           old == fileName[c]
           L == Len(requested)
<1>1. pc[c] = "recv" /\ ~bContinueAccept[c] /\ Offered(c)
  <2>1. RecvCommand(c, k, "RequestRecog") /\ "RequestRecog" \notin Commands
    BY DEF RequestRecog, Commands
  <2> QED BY <2>1, Commanded
<1>2. p \in PartsOf[c] /\ ~Handled(c) /\ FileOfConn(c)
  BY <1>1, WhenHandled DEF Offered, Headers, Header, FilesInv
<1>3. old # NoName => old.sec < clock
  BY <1>1, <1>2 DEF FileOfConn
<1>4. PICK n \in Names : n = [sec |-> clock, part |-> p]
  BY <1>2, NamesAreNames, TcpAssumption DEF Names, FilesInv, FilesOK
<1>5. n # NoName /\ n.sec = clock /\ n.part = p /\ clock \in Nat
  BY <1>2, <1>4, NamesAreNames, TcpAssumption DEF FilesInv, FilesOK, TcpAssumption
<1>6. requested' = Append(requested, n) /\ fileName' = [fileName EXCEPT ![c] = n]
  BY <1>4 DEF RequestRecog
<1>7. fileName'[c] = n /\ \A d \in Conns \ {c} : fileName'[d] = fileName[d]
  BY <1>6 DEF FilesInv, FilesOK
<1>8. requested \in Seq(Names) /\ L \in Nat
  <2>1. requested \in Seq(Names)
    BY DEF NamesInv
  <2> QED BY <2>1, LenProperties
<1>9. /\ requested' \in Seq(Names) /\ Len(requested') = L + 1 /\ requested'[L + 1] = n
      /\ \A i \in 1..L : requested'[i] = requested[i]
  BY <1>6, <1>8, AppendProperties
<1>10. ASSUME NEW i \in 1..L
       PROVE  /\ requested[i] # n
              /\ \E d \in Conns : /\ requested[i].part \in PartsOf[d]
                                  /\ fileName'[d] # NoName /\ requested[i].sec <= fileName'[d].sec
  <2>1. PICK d \in Conns : /\ requested[i].part \in PartsOf[d]
                           /\ fileName[d] # NoName /\ requested[i].sec <= fileName[d].sec
    BY DEF NamesInv
  <2>2. requested[i] \in Names
    BY <1>8, ElementOfSeq
  <2>3. requested[i].sec \in Nat /\ fileName[d].sec \in Nat
    BY <2>1, <2>2, TcpAssumption DEF FilesInv, FilesOK, Names, TcpAssumption
  <2>4. CASE d = c
    <3>1. requested[i].sec < n.sec
      BY <1>3, <1>5, <2>1, <2>3, <2>4
    <3> QED BY <1>5, <1>7, <2>1, <2>3, <2>4, <3>1
  <2>5. CASE d # c
    <3>1. requested[i] # n
      BY <1>2, <1>5, <2>1, <2>5 DEF Separate
    <3> QED BY <1>7, <2>1, <2>5, <3>1
  <2> QED BY <2>4, <2>5
<1>11. \A i \in 1..Len(requested') : \E d \in Conns :
         /\ requested'[i].part \in PartsOf[d]
         /\ fileName'[d] # NoName /\ requested'[i].sec <= fileName'[d].sec
  <2> SUFFICES ASSUME NEW i \in 1..Len(requested')
               PROVE  \E d \in Conns :
                        /\ requested'[i].part \in PartsOf[d]
                        /\ fileName'[d] # NoName /\ requested'[i].sec <= fileName'[d].sec
    OBVIOUS
  <2>1. CASE i = L + 1
    BY <1>2, <1>5, <1>7, <1>9, <2>1
  <2>2. CASE i # L + 1
    <3>1. i \in 1..L
      BY <1>8, <1>9, <2>2
    <3> QED BY <1>9, <1>10, <3>1
  <2> QED BY <2>1, <2>2
<1>12. \A i, j \in 1..Len(requested') : requested'[i] = requested'[j] => i = j
  <2> SUFFICES ASSUME NEW i \in 1..Len(requested'), NEW j \in 1..Len(requested'),
                      requested'[i] = requested'[j]
               PROVE  i = j
    OBVIOUS
  <2>1. \A l \in 1..Len(requested') : l = L + 1 \/ l \in 1..L
    BY <1>8, <1>9
  <2>2. CASE i \in 1..L /\ j \in 1..L
    BY <1>9, <2>2 DEF NamesInv
  <2> QED BY <1>9, <1>10, <2>1, <2>2
<1> QED BY <1>9, <1>11, <1>12 DEF NamesInv

LEMMA NamesStep ==
  ASSUME Separate, TalkInv, FilesInv, NamesInv, [Next]_vars
  PROVE  NamesInv'
<1>1. UNCHANGED <<requested, fileName>> \/
      \E c \in Conns : \E k \in 1..Len(stream[c]) : RequestRecog(c, k)
  <2>1. ASSUME NEW c \in Conns, AcceptConnection(c) PROVE UNCHANGED <<requested, fileName>>
    BY <2>1 DEF AcceptConnection
  <2>2. ASSUME NEW c \in Conns, ClientStep(c) PROVE UNCHANGED <<requested, fileName>>
    BY <2>2 DEF ClientStep, ClientRequest, ClientPiece, ClientGet, ClientSelect, ClientAsks,
                ClientReads, Disconnect, threadVars
  <2>3. ASSUME NEW c \in Conns, NEW k \in 1..Len(stream[c]),
               RecvData(c, k) \/ UnknownCommand(c, k) \/ GetRecog(c, k) \/ Select(c, k)
        PROVE  UNCHANGED <<requested, fileName>>
    BY <2>3, NoUnknown DEF RecvData, GetRecog, Select
  <2>4. ASSUME NEW c \in Conns, RecvClosed(c) \/ AddTask(c) \/ CloseTask(c)
        PROVE  UNCHANGED <<requested, fileName>>
    BY <2>4 DEF RecvClosed, AddTask, CloseTask
  <2>5. ASSUME NEW n \in Names, OcrStep(n) PROVE UNCHANGED <<requested, fileName>>
    BY <2>5 DEF OcrStep, OcrStart, ReadImage, OcrFinish, threadVars
  <2>6. ASSUME NEW r \in produced, StoreRecord(r) PROVE UNCHANGED <<requested, fileName>>
    BY <2>6 DEF StoreRecord, threadVars
  <2>7. Tick \/ UNCHANGED vars => UNCHANGED <<requested, fileName>>
    BY DEF Tick, vars, threadVars
  <2> QED BY <2>1, <2>2, <2>3, <2>4, <2>5, <2>6, <2>7 DEF Next, ThreadStep
<1>2. CASE UNCHANGED <<requested, fileName>>
  BY <1>2 DEF NamesInv, Names, Parts
<1> QED BY <1>1, <1>2, HeaderNames

(* scan.py:122, "picture's name must be unique", holds when clients start  *)
(* at most one upload a second and have names of their own.  The run       *)
(* TcpNames shows that it does not hold of other clients.                  *)
THEOREM NamesUnique ==
  ASSUME Separate
  PROVE  Spec => []UniqueNames
<1>1. Init => NamesInv
  BY DEF Init, NamesInv
<1>2. TalkInv /\ FilesInv /\ NamesInv /\ [Next]_vars => NamesInv'
  BY NamesStep
<1>3. NamesInv => UniqueNames
  <2> SUFFICES ASSUME NamesInv PROVE UniqueNames
    OBVIOUS
  <2>1. DOMAIN requested = 1..Len(requested)
    BY DEF NamesInv
  <2> QED BY <2>1 DEF NamesInv, UniqueNames
<1> QED BY <1>1, <1>2, <1>3, FilesAreWhole, PTL DEF Spec
=============================================================================
