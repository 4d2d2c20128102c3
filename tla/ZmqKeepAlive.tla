---------------------------- MODULE ZmqKeepAlive ----------------------------
(***************************************************************************)
(* The keep-alive loop of the main thread (MainThread in Tools.cpp) and    *)
(* the one-slot buffer through which every log call of every thread        *)
(* reaches it (UpdateZmqMessage, GetZmqMessage and the macros of Logger.h).*)
(*                                                                         *)
(* The loop sends a request on a ZeroMQ REQ socket and waits half a second *)
(* for the reply.  First it asks for a key (GET@), then it sends log       *)
(* messages or a fixed text, encrypted.  A REQ socket must receive before  *)
(* it sends again: after a round without reply the next send throws, and   *)
(* the handler closes the socket and starts over.  The loop is left when   *)
(* its counter of bad rounds reaches Timeout.                              *)
(*                                                                         *)
(* External: the remote server answers anything or nothing, and the link   *)
(* to it goes up and down.  Time is counted in half seconds.               *)
(***************************************************************************)
EXTENDS Naturals

CONSTANTS
  Keys,       \* keys of LENGTH_SECRET_KEY characters the server may send
  NoKey,      \* the empty string
  ShortKey,   \* a key of any other length
  Timeout,    \* the value of timeout, 30 in the code
  Threads,    \* threads that write to the log
  MaxLog,     \* bound: number of log messages written
  MaxSilence  \* bound: the clock silence stops at this value

ASSUME KeepAliveAssumption ==
  /\ NoKey \notin Keys
  /\ ShortKey \notin Keys
  /\ Timeout \in Nat /\ Timeout > 1
  /\ MaxLog \in Nat
  /\ MaxSilence \in Nat

VARIABLES
  pc,         \* "send", "poll", "done" (loop left), "returned"
  handle,     \* is the socket open?
  awaiting,   \* does the REQ socket wait for a reply?
  needGetSecretKey, secretKey,
  counter,
  waitTime,   \* wait_time, in half seconds
  buffer,     \* ZmqMsgBuffer: the number of a log message, 0 when empty
  logged,     \* number of log messages written
  second,     \* thread -> message whose signal for the second logger is due
  link,       \* is the remote server reachable?
  unsent,     \* does ZeroMQ hold requests that have not been transmitted?
  served,     \* history: the last key received on the current socket
  lost,       \* history: requests since the last reply that reset counter
  silence,    \* history: half seconds since the last reply of any kind
  lastSent, timesSent  \* history: last log message sent, and how many times

loopVars == <<pc, handle, awaiting, needGetSecretKey, secretKey, counter, waitTime>>
logVars == <<buffer, logged, second>>
netVars == <<link, unsent>>
histVars == <<served, lost, silence, lastSent, timesSent>>
vars == <<loopVars, logVars, netVars, histVars>>

Capped(n, m) == IF n < m THEN n ELSE m
-----------------------------------------------------------------------------
FlagsOK ==
  /\ handle \in BOOLEAN /\ awaiting \in BOOLEAN
  /\ needGetSecretKey \in BOOLEAN /\ unsent \in BOOLEAN

NumbersOK ==
  /\ counter \in 0..Timeout
  /\ waitTime \in {1, 2}
  /\ logged \in 0..MaxLog
  /\ buffer \in 0..logged
  /\ second \in [Threads -> 0..logged]
  /\ lost \in 0..Timeout
  /\ silence \in 0..MaxSilence
  /\ lastSent \in 0..logged
  /\ timesSent \in Nat

TypeOK ==
  /\ pc \in {"send", "poll", "done", "returned"}
  /\ link \in {"up", "down"}
  /\ secretKey \in Keys \cup {NoKey, ShortKey}
  /\ served \in Keys \cup {NoKey}
  /\ FlagsOK
  /\ NumbersOK

Init ==
  /\ pc = "send" /\ handle = TRUE /\ awaiting = FALSE
  /\ needGetSecretKey = TRUE /\ secretKey = NoKey
  /\ counter = 0 /\ waitTime = 1
  /\ buffer = 0 /\ logged = 0 /\ second = [t \in Threads |-> 0]
  /\ link \in {"up", "down"} /\ unsent = FALSE
  /\ served = NoKey /\ lost = 0 /\ silence = 0
  /\ lastSent = 0 /\ timesSent = 0
-----------------------------------------------------------------------------
(***************************************************************************)
(* A log call signals UpdateZmqMessage once for each of the two loggers.   *)
(* spdlog::apply_all holds the mutex of its registry from the first signal *)
(* to the second, so log calls exclude each other; the main thread may     *)
(* read the buffer in between.                                             *)
(***************************************************************************)
UpdateZmqMessage(n) == buffer' = n

(* Mutant: log calls do not exclude each other.                            *)
LogFirst_NoMutex(t) ==
  /\ logged < MaxLog
  /\ second[t] = 0
  /\ logged' = logged + 1
  /\ UpdateZmqMessage(logged + 1)
  /\ second' = [second EXCEPT ![t] = logged + 1]
  /\ UNCHANGED <<loopVars, netVars, histVars>>

LogFirst(t) ==
  /\ logged < MaxLog
  /\ \A u \in Threads : second[u] = 0
  /\ logged' = logged + 1
  /\ UpdateZmqMessage(logged + 1)
  /\ second' = [second EXCEPT ![t] = logged + 1]
  /\ UNCHANGED <<loopVars, netVars, histVars>>

LogSecond(t) ==
  /\ second[t] # 0
  /\ UpdateZmqMessage(second[t])
  /\ second' = [second EXCEPT ![t] = 0]
  /\ UNCHANGED <<logged, loopVars, netVars, histVars>>
-----------------------------------------------------------------------------
(* GetZmqMessage empties the buffer; the round is one second when it was   *)
(* empty already.                                                          *)
GetZmqMessage ==
  /\ waitTime' = IF buffer = 0 THEN 2 ELSE 1
  /\ buffer' = 0

(* The end of every round: the counter is compared and the thread sleeps.  *)
EndRound(c) ==
  /\ counter' = c
  /\ pc' = IF c >= Timeout THEN "done" ELSE "send"

(* The request of a round is handed to ZeroMQ; a closed socket was opened  *)
(* again first.                                                            *)
Send ==
  /\ pc = "send"
  /\ ~awaiting
  /\ handle' = TRUE
  /\ served' = IF handle THEN served ELSE NoKey
  /\ awaiting' = TRUE
  /\ pc' = "poll"
  /\ unsent' = (unsent \/ link = "down")
  /\ lost' = Capped(lost + 1, Timeout)
  /\ \/ /\ needGetSecretKey
        /\ waitTime' = 1
        /\ UNCHANGED <<buffer, lastSent, timesSent>>
     \/ /\ ~needGetSecretKey
        /\ GetZmqMessage
        /\ IF buffer = 0
             THEN UNCHANGED <<lastSent, timesSent>>
             ELSE /\ lastSent' = buffer
                  /\ timesSent' = IF buffer = lastSent THEN timesSent + 1 ELSE 1
  /\ UNCHANGED <<needGetSecretKey, secretKey, counter, logged, second, link, silence>>

(* Mutant: the handler of the exception keeps the key.                     *)
SendThrows_KeyKept ==
  /\ pc = "send"
  /\ awaiting
  /\ IF needGetSecretKey
       THEN waitTime' = 1 /\ UNCHANGED buffer
       ELSE GetZmqMessage
  /\ handle' = FALSE
  /\ awaiting' = FALSE
  /\ silence' = Capped(silence + waitTime', MaxSilence)
  /\ EndRound(counter + 1)
  /\ UNCHANGED <<needGetSecretKey, secretKey, logged, second, netVars, served,
                 lost, lastSent, timesSent>>

(* Mutant: the handler of the exception restarts the count.                *)
SendThrows_CounterReset ==
  /\ pc = "send"
  /\ awaiting
  /\ IF needGetSecretKey
       THEN waitTime' = 1 /\ UNCHANGED buffer
       ELSE GetZmqMessage
  /\ handle' = FALSE
  /\ awaiting' = FALSE
  /\ secretKey' = NoKey
  /\ needGetSecretKey' = TRUE
  /\ silence' = Capped(silence + waitTime', MaxSilence)
  /\ EndRound(0)
  /\ UNCHANGED <<logged, second, netVars, served, lost, lastSent, timesSent>>

(* The socket still waits for a reply: send throws, the message that was   *)
(* taken out of the buffer is lost, and the connection is closed.          *)
SendThrows ==
  /\ pc = "send"
  /\ awaiting
  /\ IF needGetSecretKey
       THEN waitTime' = 1 /\ UNCHANGED buffer
       ELSE GetZmqMessage
  /\ handle' = FALSE
  /\ awaiting' = FALSE
  /\ secretKey' = NoKey
  /\ needGetSecretKey' = TRUE
  /\ silence' = Capped(silence + waitTime', MaxSilence)
  /\ EndRound(counter + 1)
  /\ UNCHANGED <<logged, second, netVars, served, lost, lastSent, timesSent>>

(* Mutant: a round without reply counts twice.                             *)
PollTimeout_Twice ==
  /\ pc = "poll"
  /\ EndRound(Capped(counter + 2, Timeout))
  /\ silence' = Capped(silence + 1 + waitTime, MaxSilence)
  /\ UNCHANGED <<handle, awaiting, needGetSecretKey, secretKey, waitTime, logVars,
                 netVars, served, lost, lastSent, timesSent>>

(* No reply within the half second of zmq::poll.                           *)
PollTimeout ==
  /\ pc = "poll"
  /\ EndRound(counter + 1)
  /\ silence' = Capped(silence + 1 + waitTime, MaxSilence)
  /\ UNCHANGED <<handle, awaiting, needGetSecretKey, secretKey, waitTime, logVars,
                 netVars, served, lost, lastSent, timesSent>>

(* A reply arrives in time: its request was transmitted.                   *)
Reply ==
  /\ pc = "poll"
  /\ link = "up"
  /\ ~unsent
  /\ awaiting' = FALSE
  /\ silence' = Capped(waitTime, MaxSilence)
  /\ UNCHANGED <<handle, waitTime, logVars, netVars, lastSent, timesSent>>

(* The reply to GET@.  Any reply resets the counter; a key is taken from   *)
(* one that begins with KEY@, and used if it has the right length.         *)
KeyReply ==
  /\ Reply
  /\ needGetSecretKey
  /\ \/ \E k \in Keys :
          secretKey' = k /\ needGetSecretKey' = FALSE /\ served' = k
     \/ secretKey' = ShortKey /\ UNCHANGED <<needGetSecretKey, served>>
     \/ UNCHANGED <<secretKey, needGetSecretKey, served>>
  /\ EndRound(0)
  /\ lost' = 0

(* The reply to an encrypted message: REMOTE@, or anything else.           *)
RemoteReply ==
  /\ Reply
  /\ ~needGetSecretKey
  /\ EndRound(0)
  /\ lost' = 0
  /\ UNCHANGED <<needGetSecretKey, secretKey, served>>

InvalidReply ==
  /\ Reply
  /\ ~needGetSecretKey
  /\ EndRound(counter + 1)
  /\ UNCHANGED <<needGetSecretKey, secretKey, served, lost>>

(* Mutant: the thread waits for the outstanding reply before it returns.   *)
Return_Awaits ==
  /\ pc = "done"
  /\ ~unsent /\ ~awaiting
  /\ pc' = "returned"
  /\ UNCHANGED <<handle, awaiting, needGetSecretKey, secretKey, counter, waitTime,
                 logVars, netVars, histVars>>

(* MainThread returns once zmq_ctx_term has got rid of every request, the  *)
(* ones of closed sockets too: no linger period is set.                    *)
Return ==
  /\ pc = "done"
  /\ ~unsent
  /\ pc' = "returned"
  /\ UNCHANGED <<handle, awaiting, needGetSecretKey, secretKey, counter, waitTime,
                 logVars, netVars, histVars>>
-----------------------------------------------------------------------------
(* The link; ZeroMQ reconnects by itself and transmits what it holds.      *)
LinkUp ==
  /\ link = "down"
  /\ link' = "up"
  /\ unsent' = FALSE
  /\ UNCHANGED <<loopVars, logVars, histVars>>

LinkDown ==
  /\ link = "up"
  /\ link' = "down"
  /\ UNCHANGED <<unsent, loopVars, logVars, histVars>>
-----------------------------------------------------------------------------
MainStep ==
  Send \/ SendThrows \/ PollTimeout \/ KeyReply \/ RemoteReply \/ InvalidReply \/ Return

Next ==
  \/ MainStep
  \/ \E t \in Threads : LogFirst(t) \/ LogSecond(t)
  \/ LinkUp
  \/ LinkDown

Spec == Init /\ [][Next]_vars

(* The main thread runs on: zmq::poll returns and sleep ends.              *)
FairSpec == Spec /\ WF_vars(MainStep)

(* The server can be reached again and again.                              *)
ReachableSpec == FairSpec /\ WF_vars(LinkUp)
-----------------------------------------------------------------------------
(* A message is only ever encrypted with a key of the right length that    *)
(* the server sent on the connection the message goes to: the handler of   *)
(* the exception forgets the key together with the socket (Tools.cpp:193). *)
KeyIsServed ==
  ~needGetSecretKey => secretKey = served /\ secretKey # NoKey

(* A lost request raises the counter twice, in the round that waits for it *)
(* and in the next, whose send throws: when the loop gives up, at least    *)
(* half of Timeout requests have gone by without a reply that resets it.   *)
StopsAfterHalf ==
  pc \in {"done", "returned"} => 2 * lost >= Timeout

(* Log messages reach the server in the order they were written (the       *)
(* question Logger.h:18 raises: a lock is needed "if the order is wrong"), *)
(* and each at most twice, once for each logger, whatever the threads and  *)
(* the main loop do in between.                                            *)
SentInOrder == [][lastSent' >= lastSent /\ timesSent' <= 2]_vars

(* The loop either hears from the server again and again or gives up: it   *)
(* never polls a silent server for ever.                                   *)
HeardOrStopped == []<>(lost = 0) \/ <>(pc = "done")

(* When the loop has given up the function returns, if the server can be   *)
(* reached at last: the destructor of the context waits for the requests   *)
(* ZeroMQ still holds.                                                     *)
Returns == pc = "done" ~> pc = "returned"

(* The comment of Tools.cpp:69 on timeout: the time without a response, in *)
(* seconds, after which the loop gives up.  Two steps of silence are one   *)
(* second.                                                                 *)
StopsAfterTimeout ==
  pc = "done" => silence >= 2 * Timeout
=============================================================================
