----------------------------- MODULE ZmqProofs -----------------------------
(***************************************************************************)
(* Theorems about the keep-alive loop, for every Timeout above 1, every    *)
(* set of keys and of threads and any number of log messages.              *)
(***************************************************************************)
EXTENDS ZmqKeepAlive, TLAPS

(* The counter runs at most twice as fast as the requests get lost: it is  *)
(* two behind while a request waits for its reply and one behind until the *)
(* send after it has thrown.                                               *)
CounterBound ==
  /\ pc = "poll" => awaiting /\ counter <= 2 * lost - 2 /\ counter < Timeout
  /\ pc = "send" /\ awaiting => counter <= 2 * lost - 1
  /\ counter <= 2 * lost
  /\ pc = "send" => counter < Timeout
  /\ pc \in {"done", "returned"} => counter = Timeout

(* A key is in use, and a reply is awaited, only on an open socket.        *)
KeyNeedsSocket ==
  /\ needGetSecretKey \/ handle
  /\ awaiting => handle

IInv == TypeOK /\ CounterBound /\ KeyIsServed /\ KeyNeedsSocket

(* A thread whose second signal is due holds the mutex of the registry, so *)
(* its message is the newest one; the buffer never holds any other.        *)
Chances == (IF buffer = 0 THEN 0 ELSE 1)
             + (IF \E t \in Threads : second[t] # 0 THEN 1 ELSE 0)

LogInv ==
  /\ buffer \in {0, logged}
  /\ \A t \in Threads : second[t] \in {0, logged}
  /\ \A t, u \in Threads : second[t] # 0 /\ second[u] # 0 => t = u
  /\ lastSent = logged => timesSent + Chances <= 2
  /\ timesSent <= 2
-----------------------------------------------------------------------------
LEMMA CappedFact ==
  ASSUME NEW n \in Nat, NEW m \in Nat
  PROVE  /\ Capped(n, m) \in 0..m
         /\ Capped(n, m) = n \/ (Capped(n, m) = m /\ n >= m)
  BY DEF Capped

(* lost is exact until it reaches Timeout.                                 *)
LEMMA LostStep ==
  ASSUME TypeOK
  PROVE  LET l == Capped(lost + 1, Timeout)
         IN  l \in 0..Timeout /\ (l = lost + 1 \/ (l = Timeout /\ lost + 1 >= Timeout))
  BY KeepAliveAssumption, CappedFact DEF KeepAliveAssumption, TypeOK, FlagsOK, NumbersOK

(* The clock of the silence stays in its range.                            *)
LEMMA SilenceStep ==
  ASSUME NEW s \in 0..MaxSilence, NEW w \in {1, 2}
  PROVE  /\ Capped(w, MaxSilence) \in 0..MaxSilence
         /\ Capped(s + w, MaxSilence) \in 0..MaxSilence
         /\ Capped(s + 1 + w, MaxSilence) \in 0..MaxSilence
<1>1. MaxSilence \in Nat
  BY KeepAliveAssumption DEF KeepAliveAssumption
<1>2. w \in Nat /\ s + w \in Nat /\ s + 1 + w \in Nat
  BY <1>1
<1> QED BY <1>1, <1>2, CappedFact

LEMMA InitInv == Init => IInv
<1> SUFFICES ASSUME Init PROVE IInv
  OBVIOUS
<1> USE KeepAliveAssumption DEF KeepAliveAssumption, Init
<1>1. second \in [Threads -> 0..logged]
  OBVIOUS
<1>2. NumbersOK
  <2>1. /\ counter = 0 /\ waitTime = 1 /\ buffer = 0 /\ logged = 0
        /\ lost = 0 /\ silence = 0 /\ lastSent = 0 /\ timesSent = 0
    OBVIOUS
  <2> HIDE DEF Init
  <2> QED BY <1>1, <2>1 DEF NumbersOK
<1>4. TypeOK
  BY <1>2 DEF TypeOK, FlagsOK
<1>3. CounterBound /\ KeyIsServed /\ KeyNeedsSocket
  BY DEF CounterBound, KeyIsServed, KeyNeedsSocket
<1> QED BY <1>3, <1>4 DEF IInv

(* One step per action of the loop, the log and the link.                  *)
LEMMA TypeStep == IInv /\ [Next]_vars => TypeOK'
<1> SUFFICES ASSUME IInv, [Next]_vars PROVE TypeOK'
  OBVIOUS
<1> USE KeepAliveAssumption DEF KeepAliveAssumption, IInv
<1>1. CASE Send
  <2>1. lost' \in 0..Timeout
    BY <1>1, LostStep DEF Send
  <2>2. /\ buffer' \in 0..logged
        /\ waitTime' \in {1, 2}
        /\ lastSent' \in 0..logged
        /\ timesSent' \in Nat
    BY <1>1 DEF Send, GetZmqMessage, TypeOK, FlagsOK, NumbersOK
  <2> QED BY <1>1, <2>1, <2>2 DEF Send, TypeOK, FlagsOK, NumbersOK
<1>2. CASE SendThrows
  <2>1. waitTime' \in {1, 2} /\ buffer' \in 0..logged
    BY <1>2 DEF SendThrows, GetZmqMessage, TypeOK, FlagsOK, NumbersOK
  <2>3. silence' \in 0..MaxSilence
    <3>1. silence \in 0..MaxSilence
      BY DEF TypeOK, NumbersOK
    <3>2. silence' = Capped(silence + waitTime', MaxSilence)
      BY <1>2 DEF SendThrows
    <3> QED BY <2>1, <3>1, <3>2, SilenceStep
  <2>2. counter' \in 0..Timeout /\ pc' \in {"send", "done"}
    BY <1>2 DEF SendThrows, EndRound, TypeOK, FlagsOK, NumbersOK, CounterBound
  <2>4. NumbersOK'
    BY <1>2, <2>1, <2>2, <2>3 DEF SendThrows, TypeOK, NumbersOK
  <2> QED BY <1>2, <2>2, <2>4 DEF SendThrows, TypeOK, FlagsOK, netVars
<1>3. CASE PollTimeout
  <2>1. silence' \in 0..MaxSilence
    <3>1. silence \in 0..MaxSilence /\ waitTime \in {1, 2}
      BY DEF TypeOK, NumbersOK
    <3>2. silence' = Capped(silence + 1 + waitTime, MaxSilence)
      BY <1>3 DEF PollTimeout
    <3> QED BY <3>1, <3>2, SilenceStep
  <2>2. counter' \in 0..Timeout /\ pc' \in {"send", "done"}
    BY <1>3 DEF PollTimeout, EndRound, TypeOK, FlagsOK, NumbersOK, CounterBound
  <2> QED BY <1>3, <2>1, <2>2 DEF PollTimeout, TypeOK, FlagsOK, NumbersOK, logVars, netVars
<1>4. ASSUME Reply PROVE silence' \in 0..MaxSilence
  <2>1. silence \in 0..MaxSilence /\ waitTime \in {1, 2}
    BY DEF TypeOK, NumbersOK
  <2>2. silence' = Capped(waitTime, MaxSilence)
    BY <1>4 DEF Reply
  <2> QED BY <2>1, <2>2, SilenceStep
<1>5. CASE KeyReply
  <2>1. counter' \in 0..Timeout /\ pc' \in {"send", "done"} /\ lost' \in 0..Timeout
    BY <1>5 DEF KeyReply, EndRound
  <2>2. /\ secretKey' \in Keys \cup {NoKey, ShortKey}
        /\ served' \in Keys \cup {NoKey}
        /\ needGetSecretKey' \in BOOLEAN
    BY <1>5 DEF KeyReply, TypeOK, FlagsOK, NumbersOK
  <2> QED BY <1>4, <1>5, <2>1, <2>2 DEF KeyReply, Reply, TypeOK, FlagsOK, NumbersOK, logVars, netVars
<1>6. CASE RemoteReply
  <2>1. counter' \in 0..Timeout /\ pc' \in {"send", "done"} /\ lost' \in 0..Timeout
    BY <1>6 DEF RemoteReply, EndRound
  <2> QED BY <1>4, <1>6, <2>1 DEF RemoteReply, Reply, TypeOK, FlagsOK, NumbersOK, logVars, netVars
<1>7. CASE InvalidReply
  <2>1. counter' \in 0..Timeout /\ pc' \in {"send", "done"}
    BY <1>7 DEF InvalidReply, Reply, EndRound, TypeOK, FlagsOK, NumbersOK, CounterBound
  <2> QED BY <1>4, <1>7, <2>1 DEF InvalidReply, Reply, TypeOK, FlagsOK, NumbersOK, logVars, netVars
<1>8. CASE Return
  BY <1>8 DEF Return, TypeOK, FlagsOK, NumbersOK, logVars, netVars, histVars
<1>9. ASSUME NEW t \in Threads, LogFirst(t) PROVE TypeOK'
  BY <1>9 DEF LogFirst, UpdateZmqMessage, TypeOK, FlagsOK, NumbersOK, loopVars, netVars, histVars
<1>10. ASSUME NEW t \in Threads, LogSecond(t) PROVE TypeOK'
  BY <1>10 DEF LogSecond, UpdateZmqMessage, TypeOK, FlagsOK, NumbersOK, loopVars, netVars, histVars
<1>11. CASE LinkUp \/ LinkDown
  BY <1>11 DEF LinkUp, LinkDown, TypeOK, FlagsOK, NumbersOK, loopVars, logVars, histVars
<1>12. CASE UNCHANGED vars
  BY <1>12 DEF vars, TypeOK, FlagsOK, NumbersOK, loopVars, logVars, netVars, histVars
<1> QED
  BY <1>1, <1>2, <1>3, <1>5, <1>6, <1>7, <1>8, <1>9, <1>10, <1>11, <1>12
  DEF Next, MainStep

(* Only the steps of the loop touch the counter and lost.                  *)
LEMMA CounterStep == IInv /\ [Next]_vars => CounterBound'
<1> SUFFICES ASSUME IInv, [Next]_vars PROVE CounterBound'
  OBVIOUS
<1> USE KeepAliveAssumption DEF KeepAliveAssumption, IInv
<1>1. CASE Send
  <2>1. lost' = lost + 1 \/ (lost' = Timeout /\ lost + 1 >= Timeout)
    BY <1>1, LostStep DEF Send
  <2>2. /\ pc = "send" /\ ~awaiting /\ pc' = "poll" /\ awaiting'
        /\ counter' = counter
    BY <1>1 DEF Send
  <2> QED BY <2>1, <2>2 DEF CounterBound, TypeOK, FlagsOK, NumbersOK
<1>2. CASE SendThrows
  BY <1>2 DEF SendThrows, EndRound, CounterBound, TypeOK, FlagsOK, NumbersOK
<1>3. CASE PollTimeout
  BY <1>3 DEF PollTimeout, EndRound, CounterBound, TypeOK, FlagsOK, NumbersOK
<1>4. CASE KeyReply
  BY <1>4 DEF KeyReply, Reply, EndRound, CounterBound, TypeOK, FlagsOK, NumbersOK
<1>5. CASE RemoteReply
  BY <1>5 DEF RemoteReply, Reply, EndRound, CounterBound, TypeOK, FlagsOK, NumbersOK
<1>6. CASE InvalidReply
  BY <1>6 DEF InvalidReply, Reply, EndRound, CounterBound, TypeOK, FlagsOK, NumbersOK
<1>7. CASE Return
  BY <1>7 DEF Return, histVars, CounterBound
<1>8. CASE UNCHANGED <<loopVars, histVars>>
  BY <1>8 DEF loopVars, histVars, CounterBound
<1>9. ASSUME NEW t \in Threads, LogFirst(t) \/ LogSecond(t)
      PROVE  UNCHANGED <<loopVars, histVars>>
  BY <1>9 DEF LogFirst, LogSecond
<1>10. CASE LinkUp \/ LinkDown \/ UNCHANGED vars
  BY <1>8, <1>10 DEF LinkUp, LinkDown, vars
<1> QED
  BY <1>1, <1>2, <1>3, <1>4, <1>5, <1>6, <1>7, <1>8, <1>9, <1>10 DEF Next, MainStep

(* A key enters secretKey and served together, and both leave together.    *)
LEMMA KeyStep == IInv /\ [Next]_vars => KeyIsServed' /\ KeyNeedsSocket'
<1> SUFFICES ASSUME IInv, [Next]_vars PROVE KeyIsServed' /\ KeyNeedsSocket'
  OBVIOUS
<1> USE KeepAliveAssumption DEF KeepAliveAssumption, IInv, KeyIsServed, KeyNeedsSocket
<1>1. CASE Send
  BY <1>1 DEF Send
<1>2. CASE SendThrows
  BY <1>2 DEF SendThrows
<1>3. CASE PollTimeout
  BY <1>3 DEF PollTimeout
<1>4. CASE KeyReply
  <2>1. handle' = handle
    BY <1>4 DEF KeyReply, Reply
  <2>2. KeyNeedsSocket'
    <3>1. handle
      BY <1>4 DEF KeyReply, Reply, CounterBound
    <3> QED BY <2>1, <3>1
  <2>3. CASE \E k \in Keys :
               secretKey' = k /\ needGetSecretKey' = FALSE /\ served' = k
    BY <2>2, <2>3
  <2>4. CASE UNCHANGED needGetSecretKey
    BY <1>4, <2>2, <2>4 DEF KeyReply
  <2> QED BY <1>4, <2>3, <2>4 DEF KeyReply
<1>5. CASE RemoteReply
  BY <1>5 DEF RemoteReply, Reply
<1>6. CASE InvalidReply
  BY <1>6 DEF InvalidReply, Reply
<1>7. CASE Return
  BY <1>7 DEF Return, histVars
<1>8. CASE UNCHANGED <<loopVars, histVars>>
  BY <1>8 DEF loopVars, histVars
<1>9. ASSUME NEW t \in Threads, LogFirst(t) \/ LogSecond(t)
      PROVE  UNCHANGED <<loopVars, histVars>>
  BY <1>9 DEF LogFirst, LogSecond
<1>10. CASE LinkUp \/ LinkDown \/ UNCHANGED vars
  BY <1>8, <1>10 DEF LinkUp, LinkDown, vars
<1> QED
  BY <1>1, <1>2, <1>3, <1>4, <1>5, <1>6, <1>7, <1>8, <1>9, <1>10 DEF Next, MainStep

LEMMA Invariance == Spec => []IInv
<1>1. IInv /\ [Next]_vars => IInv'
  BY TypeStep, CounterStep, KeyStep DEF IInv
<1> QED BY <1>1, InitInv, PTL DEF Spec

(* The state of the loop, the buffer and the link has its type.            *)
THEOREM TypeCorrect == Spec => []TypeOK
<1>1. IInv => TypeOK
  BY DEF IInv
<1> QED BY <1>1, Invariance, PTL

(* KeyIsServed: no message is encrypted with a key of another connection.  *)
THEOREM KeyServed == Spec => []KeyIsServed
<1>1. IInv => KeyIsServed
  BY DEF IInv
<1> QED BY <1>1, Invariance, PTL

(* StopsAfterHalf: giving up takes the loss of half of Timeout requests.   *)
THEOREM GivesUpLate == Spec => []StopsAfterHalf
<1>1. IInv => StopsAfterHalf
  BY KeepAliveAssumption
  DEF KeepAliveAssumption, IInv, TypeOK, FlagsOK, NumbersOK, CounterBound, StopsAfterHalf
<1> QED BY <1>1, Invariance, PTL
-----------------------------------------------------------------------------
LEMMA LogInit == Init => LogInv
  BY DEF Init, LogInv, Chances

LEMMA LogStep == TypeOK /\ LogInv /\ [Next]_vars => LogInv' /\ lastSent' >= lastSent
<1> SUFFICES ASSUME TypeOK, LogInv, [Next]_vars PROVE LogInv' /\ lastSent' >= lastSent
  OBVIOUS
<1>0. Chances \in 0..2
  BY DEF Chances
<1>1. CASE UNCHANGED <<lastSent, timesSent, logged, second>> /\ buffer' \in {0, buffer}
  <2>1. Chances' <= Chances /\ Chances' \in 0..2
    BY <1>1 DEF Chances
  <2>2. lastSent' = logged' => timesSent' + Chances' <= 2
    <3>1. timesSent \in Nat /\ (lastSent = logged => timesSent + Chances <= 2)
      BY DEF LogInv, TypeOK, NumbersOK
    <3>2. timesSent' = timesSent /\ (lastSent' = logged' => lastSent = logged)
      BY <1>1
    <3>3. ASSUME NEW n \in Nat, NEW c \in 0..2, NEW d \in 0..2, d <= c, n + c <= 2
          PROVE  n + d <= 2
      BY <3>3
    <3> QED BY <1>0, <2>1, <3>1, <3>2, <3>3
  <2>3. lastSent' >= lastSent
    BY <1>1 DEF TypeOK, FlagsOK, NumbersOK
  <2> QED BY <1>1, <2>2, <2>3 DEF LogInv
<1>2. CASE Send
  <2>1. CASE buffer' = 0 /\ buffer # 0 /\ lastSent' = buffer
             /\ timesSent' = IF buffer = lastSent THEN timesSent + 1 ELSE 1
    <3>1. UNCHANGED <<logged, second>>
      BY <1>2 DEF Send
    <3>2. Chances' = Chances - 1
      BY <2>1, <3>1 DEF Chances
    <3>3. lastSent' = logged /\ lastSent' >= lastSent
      BY <2>1 DEF LogInv, TypeOK, FlagsOK, NumbersOK
    <3>4. timesSent' + Chances' <= 2
      BY <1>0, <2>1, <3>2, <3>3 DEF LogInv, TypeOK, FlagsOK, NumbersOK, Chances
    <3>5. timesSent' <= 2
      BY <1>0, <2>1, <3>2, <3>3, <3>4 DEF LogInv, TypeOK, FlagsOK, NumbersOK, Chances
    <3> QED BY <2>1, <3>1, <3>3, <3>4, <3>5 DEF LogInv
  <2> QED BY <1>1, <1>2, <2>1 DEF Send, GetZmqMessage
<1>3. CASE SendThrows
  BY <1>1, <1>3 DEF SendThrows, GetZmqMessage
<1>4. CASE PollTimeout
  BY <1>1, <1>4 DEF PollTimeout, logVars
<1>5. CASE KeyReply \/ RemoteReply \/ InvalidReply
  BY <1>1, <1>5 DEF KeyReply, RemoteReply, InvalidReply, Reply, logVars
<1>6. CASE Return
  BY <1>1, <1>6 DEF Return, logVars, histVars
<1>7. ASSUME NEW t \in Threads, LogFirst(t) PROVE LogInv' /\ lastSent' >= lastSent
  <2>1. /\ logged' = logged + 1 /\ buffer' = logged + 1
        /\ second' = [second EXCEPT ![t] = logged + 1]
        /\ \A u \in Threads : second[u] = 0
        /\ UNCHANGED <<lastSent, timesSent>>
    BY <1>7 DEF LogFirst, UpdateZmqMessage, histVars
  <2>2. \A u \in Threads : second'[u] = IF u = t THEN logged' ELSE 0
    BY <2>1 DEF TypeOK, FlagsOK, NumbersOK
  <2> QED BY <2>1, <2>2 DEF LogInv, TypeOK, FlagsOK, NumbersOK
<1>8. ASSUME NEW t \in Threads, LogSecond(t) PROVE LogInv' /\ lastSent' >= lastSent
  <2>1. /\ second[t] = logged /\ logged # 0 /\ buffer' = logged
        /\ second' = [second EXCEPT ![t] = 0]
        /\ UNCHANGED <<lastSent, timesSent, logged>>
    BY <1>8 DEF LogSecond, UpdateZmqMessage, histVars, LogInv
  <2>2. \A u \in Threads : second'[u] = 0
    BY <2>1 DEF LogInv, TypeOK, FlagsOK, NumbersOK
  <2>3. Chances' = 1 /\ Chances >= 1
    BY <2>1, <2>2 DEF Chances, TypeOK, FlagsOK, NumbersOK
  <2> QED BY <1>0, <2>1, <2>2, <2>3 DEF LogInv, TypeOK, FlagsOK, NumbersOK
<1>9. CASE LinkUp \/ LinkDown \/ UNCHANGED vars
  BY <1>1, <1>9 DEF LinkUp, LinkDown, vars, logVars, histVars
<1> QED
  BY <1>2, <1>3, <1>4, <1>5, <1>6, <1>7, <1>8, <1>9 DEF Next, MainStep

LEMMA LogInvariance == Spec => []LogInv
  BY LogInit, LogStep, TypeCorrect, PTL DEF Spec

(* SentInOrder: the server receives log messages in the order of writing,  *)
(* and however many threads log, each at most twice.                       *)
THEOREM OrderKept == Spec => SentInOrder
<1>1. TypeOK /\ LogInv /\ [Next]_vars
        => [lastSent' >= lastSent /\ timesSent' <= 2]_vars
  BY LogStep DEF LogInv
<1> QED BY <1>1, LogInvariance, TypeCorrect, PTL DEF Spec, SentInOrder
=============================================================================
