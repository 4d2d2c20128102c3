--------------------------- MODULE AsyncLoggerProofs ---------------------------
(***************************************************************************)
(* Proofs about the way of a message through the queue to the files: the   *)
(* worker uses the sink as RotatingSink supposes, so that what was proved  *)
(* of the files holds in the whole logger, and the queue loses nothing.    *)
(***************************************************************************)
EXTENDS AsyncLogger, RotatingSinkProofs

USE LoggerAssumption

(* Where the main thread, the worker and the sink are together, and who    *)
(* holds the registry's mutex.                                             *)
ControlInv ==
  /\ main = "off" <=> at = "off"
  /\ main = "off" => worker \in {"none", "ended"}
  /\ worker = "none" => main = "off"
  /\ worker = "sink" <=> at \notin {"off", "idle"}
  /\ pushing \subseteq {mutex} /\ NoOne \notin pushing
  /\ pushing # {} => registered
  /\ registered => main \in {"running", "farewell"}

(* What waits in the queue is in ascending order, and newer than all that  *)
(* left it.                                                                *)
QueueInv ==
  /\ \A k \in (taken + 1)..Len(accepted) : accepted[k] # Terminate =>
       /\ accepted[k] \in 1..written
       /\ \A g \in given \cup queueLost : g < accepted[k]
       /\ \A j \in (taken + 1)..(k - 1) : accepted[j] < accepted[k]
  /\ 1..written = given \cup Waiting \cup queueLost
  /\ given \cap queueLost = {}

(* The terminate message is the last, and the worker that has seen it has  *)
(* only to flush.                                                          *)
TerminateInv ==
  /\ main = "off" => taken = Len(accepted)
  /\ \A k \in DOMAIN accepted : accepted[k] = Terminate =>
       k = Len(accepted) /\ main \in {"join", "off"}
  /\ terminateRequested /\ main # "off" =>
       taken = Len(accepted) /\ main = "join" /\ worker # "sink"
  /\ terminateRequested /\ worker = "loop" => flushRequested
  /\ worker = "ended" =>
       /\ taken = Len(accepted) /\ flushed = Len(file[0])
       /\ main \in {"join", "off"}
-----------------------------------------------------------------------------
(* What the steps of the sink do to the rest.                              *)
LEMMA SinkStepFrame ==
  SinkStep => /\ given' = given
              /\ at \notin {"off", "idle"} /\ at' # "off"
<1> SUFFICES ASSUME SinkStep
             PROVE  given' = given /\ at \notin {"off", "idle"} /\ at' # "off"
  OBVIOUS
<1>1. CASE RemoveTarget
  BY <1>1 DEF RemoveTarget
<1>2. CASE RenameSource
  BY <1>2 DEF RenameSource, lossVars
<1>3. CASE Reopen \/ Write
  BY <1>3 DEF Reopen, Write, lossVars
<1>4. CASE RemoveFails \/ RenameFails \/ ReopenFails \/ WriteFails
  BY <1>4 DEF RemoveFails, RenameFails, ReopenFails, WriteFails, Throw
<1> QED BY <1>1, <1>2, <1>3, <1>4 DEF SinkStep

(* An item that is put into the queue is its last.                         *)
LEMMA PutItem ==
  ASSUME accepted \in Seq(Items), NEW x \in Items, Put(x)
  PROVE  /\ accepted' \in Seq(Items)
         /\ Len(accepted) \in Nat /\ Len(accepted') = Len(accepted) + 1
         /\ DOMAIN accepted = 1..Len(accepted)
         /\ DOMAIN accepted' = 1..(Len(accepted) + 1)
         /\ accepted'[Len(accepted) + 1] = x
         /\ \A k \in 1..Len(accepted) : accepted'[k] = accepted[k]
         /\ taken' = taken
<1>1. accepted' = Append(accepted, x) /\ taken' = taken
  BY DEF Put
<1> QED BY <1>1, AppendProperties

(* Where the items that wait are, before and after one is taken.           *)
LEMMA NextInQueue ==
  ASSUME NEW a \in Nat, NEW n \in Nat, a < n
  PROVE  /\ a + 1 \in 1..n /\ a # n
         /\ (a + 1)..n = ((a + 2)..n) \cup {a + 1}
         /\ \A k \in (a + 2)..n : a + 1 \in (a + 1)..(k - 1) /\ k \in (a + 1)..n
         /\ \A k \in (a + 2)..n : (a + 2)..(k - 1) \subseteq (a + 1)..(k - 1)
<1>1. a + 1 \in 1..n /\ a # n
  OBVIOUS
<1>2. (a + 1)..n = ((a + 2)..n) \cup {a + 1}
  OBVIOUS
<1>3. \A k \in (a + 2)..n : a + 1 \in (a + 1)..(k - 1) /\ k \in (a + 1)..n
  OBVIOUS
<1>4. \A k \in (a + 2)..n : (a + 2)..(k - 1) \subseteq (a + 1)..(k - 1)
  OBVIOUS
<1> QED BY <1>1, <1>2, <1>3, <1>4

LEMMA NoItems ==
  /\ << >> \in Seq(Items) /\ Len(<< >>) = 0 /\ DOMAIN << >> = {}
  /\ 0 \in 0..Len(<< >>) /\ Len(<< >>) - 0 <= Capacity
<1>1. << >> \in Seq(Items) /\ Len(<< >>) = 0 /\ DOMAIN << >> = {}
  OBVIOUS
<1>2. Capacity \in Nat
  BY CapacityAssumption
<1> QED BY <1>1, <1>2

LEMMA AsyncInitial == AsyncInit => AsyncTypeOK /\ ControlInv /\ QueueInv /\ TerminateInv
<1> SUFFICES ASSUME AsyncInit PROVE AsyncTypeOK /\ ControlInv /\ QueueInv /\ TerminateInv
  OBVIOUS
<1>1. /\ accepted = << >> /\ taken = 0 /\ written = 0 /\ given = {} /\ queueLost = {}
      /\ at = "off" /\ runs = 0
  BY DEF AsyncInit, FifoInit, SinkInit
<1>2. 0 \in 0..MaxMsg /\ 0 \in 0..MaxRuns /\ Capacity \in Nat
  BY SinkAssumption, CapacityAssumption
<1>3. AsyncTypeOK
  <2>1. /\ accepted \in Seq(Items) /\ taken \in 0..Len(accepted)
        /\ Len(accepted) - taken <= Capacity
    BY <1>1, NoItems
  <2> QED BY <1>1, <1>2, <2>1 DEF AsyncInit, AsyncTypeOK
<1>4. ControlInv /\ TerminateInv
  BY <1>1, NoItems DEF AsyncInit, ControlInv, TerminateInv
<1>5. Waiting = {} /\ 1..written = {}
  BY <1>1, NoItems DEF Waiting
<1>6. QueueInv
  BY <1>1, <1>5, NoItems DEF QueueInv
<1> QED BY <1>3, <1>4, <1>6

LEMMA AsyncTypeStep ==
  ASSUME AsyncTypeOK, AsyncNext
  PROVE  AsyncTypeOK'
<1> USE DEF AsyncTypeOK
<1>0. Len(accepted) \in Nat /\ taken \in Nat /\ MaxMsg \in Nat /\ Capacity \in Nat
  BY SinkAssumption, CapacityAssumption
<1>1. CASE InitLogger
  <2>1. /\ accepted' \in Seq(Items) /\ taken' \in 0..Len(accepted')
        /\ Len(accepted') - taken' <= Capacity
    BY <1>1, NoItems DEF InitLogger
  <2>2. runs' \in 0..MaxRuns
    BY <1>1 DEF InitLogger
  <2> QED BY <1>1, <2>1, <2>2 DEF InitLogger
<1>2. ASSUME NEW t \in LogThreads, LogCall(t) PROVE AsyncTypeOK'
  BY <1>2 DEF LogCall, workerVars, countVars, fifoVars
<1>3. ASSUME PushMessage, UNCHANGED registered, pushing' \subseteq LogThreads,
             mutex' \in LogThreads \cup {NoOne}, written < MaxMsg,
             main' \in {"off", "running", "farewell", "dropped", "join"}
      PROVE  AsyncTypeOK'
  <2>1. written + 1 \in Items /\ written + 1 \in 0..MaxMsg
    BY <1>0, <1>3
  <2>2. Put(written + 1) /\ ~Full
    BY <1>3 DEF PushMessage, Put
  <2>3. /\ accepted' \in Seq(Items) /\ taken' \in 0..Len(accepted')
        /\ Len(accepted') - taken' <= Capacity
    BY <1>0, <2>1, <2>2, PutItem DEF Full
  <2> QED BY <1>3, <2>1, <2>3 DEF PushMessage, workerVars
<1>4. ASSUME NEW t \in LogThreads, LogPush(t) PROVE AsyncTypeOK'
  BY <1>3, <1>4 DEF LogPush
<1>5. CASE Farewell
  <2>1. written < MaxMsg
    BY <1>0, <1>5 DEF Farewell
  <2> QED BY <1>3, <1>5, <2>1 DEF Farewell
<1>6. CASE DropAll
  BY <1>6 DEF DropAll, workerVars, countVars, fifoVars
<1>7. CASE PushTerminate
  <2>1. Put(0) /\ 0 \in Items /\ ~Full
    BY <1>0, <1>7 DEF PushTerminate, Terminate, Put
  <2>2. /\ accepted' \in Seq(Items) /\ taken' \in 0..Len(accepted')
        /\ Len(accepted') - taken' <= Capacity
    BY <1>0, <2>1, PutItem DEF Full
  <2> QED BY <1>7, <2>2 DEF PushTerminate, workerVars, countVars
<1>8. CASE JoinWorker
  BY <1>8 DEF JoinWorker, workerVars, countVars, fifoVars
<1>9. CASE TakeMessage
  <2>1. taken' = taken + 1 /\ taken < Len(accepted) /\ accepted' = accepted
    BY <1>9 DEF TakeMessage, Take
  <2>2. /\ worker' \in {"none", "loop", "sink", "ended"}
        /\ flushRequested' \in BOOLEAN /\ terminateRequested' \in BOOLEAN
    BY <1>9 DEF TakeMessage
  <2>3. taken' \in 0..Len(accepted') /\ Len(accepted') - taken' <= Capacity
    BY <1>0, <2>1
  <2> QED BY <1>9, <2>1, <2>2, <2>3 DEF TakeMessage, threadVars, countVars
<1>10. CASE WorkInSink
  BY <1>10 DEF WorkInSink, threadVars, countVars, fifoVars
<1>11. CASE EmptyQueue
  BY <1>11 DEF EmptyQueue, threadVars, countVars, fifoVars
<1>12. CASE DieWithQueue
  <2>1. Waiting \subseteq Messages
    <3>1. \A k \in (taken + 1)..Len(accepted) : accepted[k] \in 0..MaxMsg
      BY <1>0
    <3> QED BY <3>1, <1>0 DEF Waiting, Terminate, Messages
  <2>2. /\ accepted' \in Seq(Items) /\ taken' \in 0..Len(accepted')
        /\ Len(accepted') - taken' <= Capacity
    BY <1>12, NoItems DEF DieWithQueue
  <2> QED BY <1>12, <2>1, <2>2 DEF DieWithQueue
<1> QED
  BY <1>1, <1>2, <1>4, <1>5, <1>6, <1>7, <1>8, <1>9, <1>10, <1>11, <1>12
  DEF AsyncNext, MainStep, WorkerStep

LEMMA ControlStep ==
  ASSUME AsyncTypeOK, ControlInv, AsyncNext
  PROVE  ControlInv'
<1> USE DEF ControlInv, AsyncTypeOK
<1>1. CASE InitLogger
  BY <1>1 DEF InitLogger, OpenSink
<1>2. ASSUME NEW t \in LogThreads, LogCall(t) PROVE ControlInv'
  <2>1. at' = at
    BY <1>2 DEF LogCall, sinkVars, stepVars
  <2> QED BY <1>2, <2>1 DEF LogCall, workerVars
<1>3. ASSUME NEW t \in LogThreads, LogPush(t) PROVE ControlInv'
  <2>1. at' = at
    BY <1>3 DEF LogPush, PushMessage, sinkVars, stepVars
  <2> QED BY <1>3, <2>1 DEF LogPush, PushMessage, workerVars
<1>4. CASE Farewell
  <2>1. at' = at
    BY <1>4 DEF Farewell, PushMessage, sinkVars, stepVars
  <2> QED BY <1>4, <2>1 DEF Farewell, PushMessage, workerVars
<1>5. CASE DropAll
  <2>1. at' = at
    BY <1>5 DEF DropAll, sinkVars, stepVars
  <2> QED BY <1>5, <2>1 DEF DropAll, workerVars
<1>6. CASE PushTerminate
  <2>1. at' = at
    BY <1>6 DEF PushTerminate, sinkVars, stepVars
  <2> QED BY <1>6, <2>1 DEF PushTerminate, workerVars
<1>7. CASE JoinWorker
  BY <1>7 DEF JoinWorker, CloseSink, workerVars
<1>8. CASE TakeMessage
  <2>1. UNCHANGED <<registered, mutex, pushing, main>> /\ worker = "loop"
    BY <1>8 DEF TakeMessage, threadVars
  <2>2. CASE accepted[taken + 1] = Terminate
    <3>1. at' = at /\ worker' = worker
      BY <1>8, <2>2 DEF TakeMessage, sinkVars, stepVars
    <3> QED BY <2>1, <3>1
  <2>3. CASE accepted[taken + 1] # Terminate
    <3>1. at' \in {"remove", "write"} /\ worker' = "sink" /\ at = "idle"
      BY <1>8, <2>3 DEF TakeMessage, SinkIt
    <3> QED BY <2>1, <3>1
  <2> QED BY <2>2, <2>3
<1>9. CASE WorkInSink
  <2>1. /\ UNCHANGED <<registered, mutex, pushing, main>> /\ worker = "sink"
        /\ worker' = IF at' = "idle" THEN "loop" ELSE "sink"
    BY <1>9 DEF WorkInSink, threadVars
  <2>2. at' # "off"
    BY <1>9, SinkStepFrame DEF WorkInSink
  <2> QED BY <2>1, <2>2
<1>10. CASE EmptyQueue
  <2>1. at' = at
    BY <1>10 DEF EmptyQueue, FlushSink, sinkVars, stepVars
  <2> QED BY <1>10, <2>1 DEF EmptyQueue, threadVars
<1>11. CASE DieWithQueue
  BY <1>11 DEF DieWithQueue, Die
<1> QED
  BY <1>1, <1>2, <1>3, <1>4, <1>5, <1>6, <1>7, <1>8, <1>9, <1>10, <1>11
  DEF AsyncNext, MainStep, WorkerStep

-----------------------------------------------------------------------------
(* The next message of the queue is a message, newer than all before it.   *)
LEMMA NextMessage ==
  ASSUME AsyncTypeOK, QueueInv, taken < Len(accepted)
  PROVE  LET m == accepted[taken + 1] IN
         /\ taken + 1 \in (taken + 1)..Len(accepted)
         /\ taken + 1 \in DOMAIN accepted
         /\ m # Terminate => /\ m \in Messages /\ m \in 1..written
                             /\ \A g \in given \cup queueLost : g < m
<1>1. /\ taken \in Nat /\ Len(accepted) \in Nat /\ written \in 0..MaxMsg /\ MaxMsg \in Nat
      /\ accepted \in Seq(Items)
  BY SinkAssumption DEF AsyncTypeOK
<1>2. taken + 1 \in (taken + 1)..Len(accepted) /\ taken + 1 \in DOMAIN accepted
  BY <1>1
<1>3. ASSUME accepted[taken + 1] # Terminate
      PROVE  /\ accepted[taken + 1] \in 1..written
             /\ \A g \in given \cup queueLost : g < accepted[taken + 1]
  BY <1>2, <1>3 DEF QueueInv
<1>4. 1..written \subseteq Messages
  BY <1>1 DEF Messages
<1> QED BY <1>2, <1>3, <1>4

LEMMA QueueStep ==
  ASSUME AsyncTypeOK, ControlInv, TerminateInv, QueueInv, AsyncNext
  PROVE  QueueInv'
<1>0. /\ taken \in Nat /\ Len(accepted) \in Nat /\ written \in Nat /\ MaxMsg \in Nat
      /\ written \in 0..MaxMsg /\ accepted \in Seq(Items) /\ taken <= Len(accepted)
  BY SinkAssumption DEF AsyncTypeOK
<1>1. CASE InitLogger
  <2>1. taken = Len(accepted)
    BY <1>1 DEF InitLogger, OpenSink, ControlInv, TerminateInv
  <2>2. Waiting = {}
    BY <1>0, <2>1 DEF Waiting
  <2>3. accepted' = << >> /\ taken' = 0 /\ UNCHANGED <<written, given, queueLost>>
    BY <1>1 DEF InitLogger, OpenSink, lossVars
  <2>4. Len(accepted') = 0
    BY <2>3, NoItems
  <2>5. Waiting' = {} /\ (taken' + 1)..Len(accepted') = {}
    BY <2>3, <2>4 DEF Waiting
  <2> QED BY <2>2, <2>3, <2>5 DEF QueueInv
<1>2. CASE UNCHANGED <<accepted, taken, written, given, queueLost>>
  BY <1>2 DEF QueueInv, Waiting
<1>3. ASSUME NEW x \in Items, Put(x)
      PROVE  /\ Len(accepted') = Len(accepted) + 1
             /\ accepted'[Len(accepted) + 1] = x
             /\ \A k \in 1..Len(accepted) : accepted'[k] = accepted[k]
             /\ taken' = taken
             /\ Waiting' = Waiting \cup ({x} \ {Terminate})
  <2>1. /\ Len(accepted') = Len(accepted) + 1
        /\ accepted'[Len(accepted) + 1] = x
        /\ \A k \in 1..Len(accepted) : accepted'[k] = accepted[k]
        /\ taken' = taken
    BY <1>0, <1>3, PutItem
  <2>2. /\ (taken' + 1)..Len(accepted') = ((taken + 1)..Len(accepted)) \cup {Len(accepted) + 1}
        /\ (taken + 1)..Len(accepted) \subseteq 1..Len(accepted)
    BY <1>0, <2>1
  <2>3. \A k \in (taken + 1)..Len(accepted) : accepted'[k] = accepted[k]
    BY <2>1, <2>2
  <2>4. Waiting' = Waiting \cup ({x} \ {Terminate})
    BY <2>1, <2>2, <2>3 DEF Waiting, Terminate
  <2> QED BY <2>1, <2>4
<1>4. ASSUME PushMessage, written < MaxMsg PROVE QueueInv'
  <2>1. /\ written' = written + 1 /\ given' = given /\ queueLost' = queueLost
        /\ Put(written + 1) /\ written + 1 \in Items /\ written + 1 # Terminate
    BY <1>0, <1>4 DEF PushMessage, sinkVars, lossVars, Terminate
  <2>2. /\ Len(accepted') = Len(accepted) + 1
        /\ accepted'[Len(accepted) + 1] = written + 1
        /\ \A k \in 1..Len(accepted) : accepted'[k] = accepted[k]
        /\ taken' = taken
        /\ Waiting' = Waiting \cup {written + 1}
    BY <1>3, <2>1
  <2>3. 1..written' = (1..written) \cup {written + 1}
    BY <1>0, <2>1
  <2>4. \A g \in given \cup queueLost : g \in 1..written
    BY DEF QueueInv
  <2>5. ASSUME NEW k \in (taken' + 1)..Len(accepted'), accepted'[k] # Terminate
        PROVE  /\ accepted'[k] \in 1..written'
               /\ \A g \in given' \cup queueLost' : g < accepted'[k]
               /\ \A j \in (taken' + 1)..(k - 1) : accepted'[j] < accepted'[k]
    <3>1. CASE k = Len(accepted) + 1
      <4>1. accepted'[k] = written + 1 /\ accepted'[k] \in 1..written'
        BY <2>2, <2>3, <3>1
      <4>2. \A g \in given' \cup queueLost' : g < accepted'[k]
        BY <1>0, <2>1, <2>4, <4>1
      <4>3. ASSUME NEW j \in (taken' + 1)..(k - 1) PROVE accepted'[j] < accepted'[k]
        <5>1. j \in (taken + 1)..Len(accepted) /\ j \in 1..Len(accepted)
          BY <1>0, <2>2, <3>1
        <5>2. accepted'[j] = accepted[j]
          BY <2>2, <5>1
        <5>3. accepted[j] = Terminate \/ accepted[j] \in 1..written
          BY <5>1 DEF QueueInv
        <5> QED BY <1>0, <4>1, <5>2, <5>3 DEF Terminate
      <4> QED BY <4>1, <4>2, <4>3
    <3>2. CASE k # Len(accepted) + 1
      <4>1. k \in (taken + 1)..Len(accepted) /\ k \in 1..Len(accepted)
        BY <1>0, <2>2, <3>2
      <4>2. accepted'[k] = accepted[k]
        BY <2>2, <4>1
      <4>3. /\ accepted[k] \in 1..written
            /\ \A g \in given \cup queueLost : g < accepted[k]
            /\ \A j \in (taken + 1)..(k - 1) : accepted[j] < accepted[k]
        BY <2>5, <4>1, <4>2 DEF QueueInv
      <4>4. \A j \in (taken' + 1)..(k - 1) : accepted'[j] < accepted'[k]
        <5>1. \A j \in (taken + 1)..(k - 1) : j \in 1..Len(accepted)
          BY <1>0, <4>1
        <5> QED BY <2>2, <4>2, <4>3, <5>1
      <4> QED BY <2>1, <2>3, <4>2, <4>3, <4>4
    <3> QED BY <3>1, <3>2
  <2> QED BY <2>1, <2>2, <2>3, <2>5 DEF QueueInv
<1>5. ASSUME NEW t \in LogThreads, LogPush(t) PROVE QueueInv'
  BY <1>4, <1>5 DEF LogPush
<1>6. CASE Farewell
  <2>1. written < MaxMsg
    BY <1>0, <1>6 DEF Farewell
  <2> QED BY <1>4, <1>6, <2>1 DEF Farewell
<1>7. CASE PushTerminate
  <2>1. /\ UNCHANGED <<written, given, queueLost>>
        /\ Put(Terminate) /\ Terminate \in Items
    BY <1>0, <1>7 DEF PushTerminate, countVars, sinkVars, lossVars, Terminate
  <2>2. /\ Len(accepted') = Len(accepted) + 1
        /\ accepted'[Len(accepted) + 1] = Terminate
        /\ \A k \in 1..Len(accepted) : accepted'[k] = accepted[k]
        /\ taken' = taken
        /\ Waiting' = Waiting
    BY <1>3, <2>1
  <2>3. ASSUME NEW k \in (taken' + 1)..Len(accepted'), accepted'[k] # Terminate
        PROVE  /\ accepted'[k] \in 1..written'
               /\ \A g \in given' \cup queueLost' : g < accepted'[k]
               /\ \A j \in (taken' + 1)..(k - 1) : accepted'[j] < accepted'[k]
    <3>1. k \in (taken + 1)..Len(accepted) /\ k \in 1..Len(accepted)
      BY <1>0, <2>2, <2>3
    <3>2. accepted'[k] = accepted[k]
      BY <2>2, <3>1
    <3>3. \A j \in (taken + 1)..(k - 1) : j \in 1..Len(accepted)
      BY <1>0, <3>1
    <3> QED BY <2>1, <2>2, <2>3, <3>1, <3>2, <3>3 DEF QueueInv
  <2> QED BY <2>1, <2>2, <2>3 DEF QueueInv
<1>8. CASE TakeMessage
  <2> DEFINE m == accepted[taken + 1]
  <2>1. /\ taken < Len(accepted) /\ taken' = taken + 1 /\ accepted' = accepted
        /\ written' = written /\ queueLost' = queueLost
    BY <1>8 DEF TakeMessage, Take, countVars
  <2>2. /\ (taken + 1)..Len(accepted) = ((taken' + 1)..Len(accepted')) \cup {taken + 1}
        /\ \A k \in (taken' + 1)..Len(accepted') : taken + 1 \in (taken + 1)..(k - 1)
        /\ \A k \in (taken' + 1)..Len(accepted') : k \in (taken + 1)..Len(accepted)
        /\ \A k \in (taken' + 1)..Len(accepted') :
             (taken' + 1)..(k - 1) \subseteq (taken + 1)..(k - 1)
    <3>1. (taken' + 1)..Len(accepted') = (taken + 2)..Len(accepted)
      BY <1>0, <2>1
    <3>2. \A k \in (taken + 2)..Len(accepted) : (taken' + 1)..(k - 1) = (taken + 2)..(k - 1)
      BY <1>0, <2>1
    <3> QED BY <1>0, <2>1, <3>1, <3>2, NextInQueue
  <2>3. Waiting = Waiting' \cup ({m} \ {Terminate})
    BY <2>1, <2>2 DEF Waiting, Terminate
  <2>4. \A k \in (taken' + 1)..Len(accepted') : accepted'[k] # Terminate =>
          /\ accepted'[k] \in 1..written'
          /\ \A g \in given \cup queueLost' : g < accepted'[k]
          /\ \A j \in (taken' + 1)..(k - 1) : accepted'[j] < accepted'[k]
          /\ m < accepted'[k]
    BY <2>1, <2>2 DEF QueueInv
  <2>5. CASE m = Terminate
    <3>1. given' = given
      BY <1>8, <2>5 DEF TakeMessage, sinkVars, lossVars
    <3> QED BY <2>1, <2>3, <2>4, <2>5, <3>1 DEF QueueInv
  <2>6. CASE m # Terminate
    <3>1. given' = given \cup {m}
      BY <1>8, <2>6 DEF TakeMessage, SinkIt
    <3>2. m \in 1..written /\ \A g \in given \cup queueLost : g < m
      BY <2>1, <2>6, NextMessage
    <3>3. m \notin queueLost
      BY <1>0, <3>2
    <3> QED BY <2>1, <2>3, <2>4, <2>6, <3>1, <3>3 DEF QueueInv
  <2> QED BY <2>5, <2>6
<1>9. CASE DieWithQueue
  <2>1. /\ queueLost' = queueLost \cup Waiting /\ accepted' = << >> /\ taken' = 0
        /\ UNCHANGED <<written, given>>
    BY <1>9 DEF DieWithQueue, Die
  <2>2. Len(accepted') = 0
    BY <2>1, NoItems
  <2>3. Waiting' = {} /\ (taken' + 1)..Len(accepted') = {}
    BY <2>1, <2>2 DEF Waiting
  <2>4. given \cap Waiting = {}
    <3>1. \A k \in (taken + 1)..Len(accepted) : accepted[k] # Terminate =>
            accepted[k] \in Nat /\ \A g \in given : g < accepted[k]
      BY <1>0 DEF QueueInv
    <3> QED BY <3>1 DEF Waiting
  <2> QED BY <2>1, <2>3, <2>4 DEF QueueInv
<1>10. CASE DropAll \/ JoinWorker \/ EmptyQueue
  BY <1>2, <1>10 DEF DropAll, JoinWorker, CloseSink, EmptyQueue, FlushSink, countVars,
     fifoVars, sinkVars, lossVars
<1>11. CASE WorkInSink
  BY <1>2, <1>11, SinkStepFrame DEF WorkInSink, countVars, fifoVars
<1>12. ASSUME NEW t \in LogThreads, LogCall(t) PROVE QueueInv'
  BY <1>2, <1>12 DEF LogCall, countVars, fifoVars, sinkVars, lossVars
<1> QED
  BY <1>1, <1>5, <1>6, <1>7, <1>8, <1>9, <1>10, <1>11, <1>12
  DEF AsyncNext, MainStep, WorkerStep

LEMMA TerminateStep ==
  ASSUME AsyncTypeOK, SinkTypeOK, ControlInv, TerminateInv, QueueInv, AsyncNext
  PROVE  TerminateInv'
<1> USE DEF TerminateInv
<1>0. /\ taken \in Nat /\ Len(accepted) \in Nat /\ written \in Nat /\ MaxMsg \in Nat
      /\ accepted \in Seq(Items) /\ taken <= Len(accepted)
      /\ DOMAIN accepted = 1..Len(accepted)
  BY SinkAssumption DEF AsyncTypeOK
<1>1. CASE InitLogger
  <2>1. /\ accepted' = << >> /\ taken' = 0 /\ terminateRequested' = FALSE
        /\ worker' = "loop" /\ main' = "running"
    BY <1>1 DEF InitLogger
  <2>2. DOMAIN accepted' = {}
    BY <2>1, NoItems
  <2> QED BY <2>1, <2>2
<1>2. ASSUME NEW t \in LogThreads, LogCall(t) PROVE TerminateInv'
  BY <1>2 DEF LogCall, workerVars, fifoVars, sinkVars, diskVars
<1>3. ASSUME NEW x \in Items, Put(x), main' # "off", main # "join", main # "off",
             x # Terminate \/ main' = "join",
             UNCHANGED <<worker, flushRequested, terminateRequested, flushed, file>>
      PROVE  TerminateInv'
  <2>1. /\ Len(accepted') = Len(accepted) + 1
        /\ DOMAIN accepted' = 1..(Len(accepted) + 1)
        /\ accepted'[Len(accepted) + 1] = x
        /\ \A k \in 1..Len(accepted) : accepted'[k] = accepted[k]
    BY <1>0, <1>3, PutItem
  <2>2. \A k \in 1..Len(accepted) : accepted[k] # Terminate
    BY <1>0, <1>3
  <2>3. \A k \in DOMAIN accepted' : accepted'[k] = Terminate =>
          k = Len(accepted') /\ main' = "join"
    <3>1. \A n \in Nat : \A k \in 1..(n + 1) : k \in 1..n \/ k = n + 1
      OBVIOUS
    <3>2. \A k \in DOMAIN accepted' : k \in 1..Len(accepted) \/ k = Len(accepted) + 1
      BY <1>0, <2>1, <3>1
    <3> QED BY <1>3, <2>1, <2>2, <3>2
  <2>4. ~terminateRequested /\ worker # "ended"
    BY <1>3
  <2> QED BY <1>3, <2>3, <2>4
<1>4. ASSUME PushMessage, written < MaxMsg, main # "off", main' \notin {"off", "join"},
             main # "join"
      PROVE  TerminateInv'
  <2>1. written + 1 \in Items /\ written + 1 # Terminate
    <3>1. \A w, n \in Nat : w < n => w + 1 \in 0..n /\ w + 1 # 0
      OBVIOUS
    <3> QED BY <1>0, <1>4, <3>1 DEF Terminate
  <2>2. /\ Put(written + 1)
        /\ UNCHANGED <<worker, flushRequested, terminateRequested, flushed, file>>
    BY <1>4 DEF PushMessage, workerVars, sinkVars, diskVars
  <2> QED BY <1>3, <1>4, <2>1, <2>2
<1>5. ASSUME NEW t \in LogThreads, LogPush(t) PROVE TerminateInv'
  <2>1. main \in {"running", "farewell"} /\ main' = main
    BY <1>5 DEF LogPush, ControlInv
  <2> QED BY <1>4, <1>5, <2>1 DEF LogPush
<1>6. CASE Farewell
  <2>1. written < MaxMsg
    BY <1>0, <1>6 DEF Farewell
  <2> QED BY <1>4, <1>6, <2>1 DEF Farewell
<1>7. CASE PushTerminate
  <2>1. /\ Terminate \in Items /\ Put(Terminate) /\ main = "dropped" /\ main' = "join"
        /\ UNCHANGED <<worker, flushRequested, terminateRequested, flushed, file>>
    BY <1>0, <1>7 DEF PushTerminate, workerVars, sinkVars, diskVars, Terminate
  <2> QED BY <1>3, <2>1
<1>8. CASE DropAll
  BY <1>8 DEF DropAll, workerVars, fifoVars, sinkVars, diskVars
<1>9. CASE JoinWorker
  <2>1. /\ worker = "ended" /\ main' = "off" /\ file' = file /\ flushed' = Len(file[0])
        /\ UNCHANGED <<worker, flushRequested, terminateRequested, accepted, taken>>
    BY <1>9 DEF JoinWorker, CloseSink, workerVars, fifoVars
  <2> QED BY <2>1
<1>10. CASE TakeMessage
  <2>1. /\ taken < Len(accepted) /\ taken' = taken + 1 /\ accepted' = accepted
        /\ main' = main /\ worker = "loop" /\ main # "off"
    BY <1>10 DEF TakeMessage, Take, threadVars, ControlInv
  <2>2. taken # Len(accepted) /\ taken + 1 \in DOMAIN accepted
    BY <1>0, <2>1, NextInQueue
  <2>5. ~terminateRequested
    BY <2>1, <2>2
  <2>3. CASE accepted[taken + 1] = Terminate
    <3>1. taken + 1 = Len(accepted) /\ main \in {"join", "off"}
      BY <2>2, <2>3
    <3>2. taken' = Len(accepted') /\ main' = "join"
      BY <2>1, <3>1
    <3>3. flushRequested' = TRUE /\ worker' = "loop"
      BY <1>10, <2>3 DEF TakeMessage
    <3> QED BY <2>1, <3>2, <3>3
  <2>4. CASE accepted[taken + 1] # Terminate
    <3>1. worker' = "sink" /\ terminateRequested' = terminateRequested
      BY <1>10, <2>4 DEF TakeMessage
    <3> QED BY <2>1, <2>5, <3>1
  <2> QED BY <2>3, <2>4
<1>11. CASE WorkInSink
  <2>1. /\ worker = "sink" /\ worker' \in {"loop", "sink"}
        /\ UNCHANGED <<main, terminateRequested, accepted, taken>>
    BY <1>11 DEF WorkInSink, threadVars, fifoVars
  <2>2. main # "off" /\ ~terminateRequested
    BY <2>1 DEF ControlInv
  <2> QED BY <2>1, <2>2
<1>12. CASE EmptyQueue
  <2>1. /\ worker = "loop" /\ taken = Len(accepted) /\ main # "off"
        /\ UNCHANGED <<main, terminateRequested, accepted, taken>>
        /\ worker' = IF terminateRequested THEN "ended" ELSE "loop"
    BY <1>12 DEF EmptyQueue, threadVars, fifoVars, ControlInv
  <2>2. CASE terminateRequested
    <3>1. file' = file /\ flushed' = Len(file[0]) /\ main = "join"
      BY <1>12, <2>1, <2>2 DEF EmptyQueue, FlushSink
    <3> QED BY <2>1, <2>2, <3>1
  <2>3. CASE ~terminateRequested
    BY <2>1, <2>3
  <2> QED BY <2>2, <2>3 DEF AsyncTypeOK
<1>13. CASE DieWithQueue
  <2>1. /\ accepted' = << >> /\ taken' = 0 /\ main' = "off" /\ worker' = "none"
    BY <1>13 DEF DieWithQueue
  <2>2. DOMAIN accepted' = {} /\ Len(accepted') = 0
    BY <2>1, NoItems
  <2> QED BY <2>1, <2>2
<1> QED
  BY <1>1, <1>2, <1>5, <1>6, <1>7, <1>8, <1>9, <1>10, <1>11, <1>12, <1>13
  DEF AsyncNext, MainStep, WorkerStep
-----------------------------------------------------------------------------
AsyncInv == AsyncTypeOK /\ ControlInv /\ QueueInv /\ TerminateInv

(* Every step of the logger is one of the sink, or leaves the sink alone.  *)
LEMMA SinkSteps ==
  ASSUME AsyncInv, [AsyncNext]_asyncVars
  PROVE  [SinkNext]_sinkVars
<1>1. CASE InitLogger \/ JoinWorker \/ DieWithQueue
  BY <1>1 DEF InitLogger, JoinWorker, DieWithQueue, SinkNext
<1>2. CASE \E t \in LogThreads : LogCall(t) \/ LogPush(t)
  BY <1>2 DEF LogCall, LogPush, PushMessage
<1>3. CASE Farewell \/ DropAll \/ PushTerminate
  BY <1>3 DEF Farewell, DropAll, PushTerminate, PushMessage
<1>4. CASE TakeMessage
  <2>1. CASE accepted[taken + 1] = Terminate
    BY <1>4, <2>1 DEF TakeMessage
  <2>2. CASE accepted[taken + 1] # Terminate
    <3>1. SinkIt(accepted[taken + 1]) /\ taken < Len(accepted)
      BY <1>4, <2>2 DEF TakeMessage, Take
    <3>2. accepted[taken + 1] \in Messages /\ \A g \in given : g < accepted[taken + 1]
      BY <2>2, <3>1, NextMessage DEF AsyncInv
    <3> QED BY <3>1, <3>2 DEF SinkNext
  <2> QED BY <2>1, <2>2
<1>5. CASE WorkInSink
  BY <1>5 DEF WorkInSink, SinkNext
<1>6. CASE EmptyQueue
  BY <1>6 DEF EmptyQueue, SinkNext
<1>7. CASE UNCHANGED asyncVars
  BY <1>7 DEF asyncVars
<1> QED
  BY <1>1, <1>2, <1>3, <1>4, <1>5, <1>6, <1>7 DEF AsyncNext, MainStep, WorkerStep

LEMMA AsyncInvariance == AsyncSpec => [](AsyncInv /\ SinkTypeOK /\ RotationInv)
<1>1. AsyncInit => AsyncInv /\ SinkTypeOK /\ RotationInv
  BY AsyncInitial, SinkTypeInit DEF AsyncInv, AsyncInit
<1>2. AsyncInv /\ SinkTypeOK /\ RotationInv /\ [AsyncNext]_asyncVars
        => (AsyncInv /\ SinkTypeOK /\ RotationInv)'
  <2> SUFFICES ASSUME AsyncInv, SinkTypeOK, RotationInv, [AsyncNext]_asyncVars
               PROVE  (AsyncInv /\ SinkTypeOK /\ RotationInv)'
    OBVIOUS
  <2>1. SinkTypeOK' /\ RotationInv'
    BY SinkSteps, SinkTypeStep
  <2>2. CASE AsyncNext
    BY <2>1, <2>2, AsyncTypeStep, ControlStep, QueueStep, TerminateStep DEF AsyncInv
  <2>3. CASE UNCHANGED asyncVars
    BY <2>1, <2>3 DEF asyncVars, threadVars, workerVars, countVars, fifoVars, sinkVars,
       diskVars, stepVars, lossVars, AsyncInv, AsyncTypeOK, ControlInv, QueueInv,
       TerminateInv, Waiting
  <2> QED BY <2>2, <2>3
<1> QED BY <1>1, <1>2, PTL DEF AsyncSpec

(* The worker gives the sink one message at a time, in ascending order, so *)
(* that the theorems of RotatingSinkProofs hold of the logger's files.     *)
THEOREM LoggerUsesSink == AsyncSpec => UsesSink
<1>1. AsyncInit => SinkInit
  BY DEF AsyncInit
<1> QED BY <1>1, SinkSteps, AsyncInvariance, PTL DEF AsyncSpec, UsesSink, SinkSpec

(* Every message that was put into the queue is in it, was given to the    *)
(* sink, or died in the queue with the process.                            *)
THEOREM QueueKeeps == AsyncSpec => []QueueLosesNothing
<1>1. AsyncInv => QueueLosesNothing
  <2> SUFFICES ASSUME AsyncInv PROVE QueueLosesNothing
    OBVIOUS
  <2>1. \A k \in (taken + 1)..Len(accepted) : accepted[k] # Terminate =>
          accepted[k] \in Nat /\ \A g \in given \cup queueLost : g < accepted[k]
    BY DEF AsyncInv, QueueInv
  <2>2. (given \cup queueLost) \cap Waiting = {}
    BY <2>1 DEF Waiting
  <2> QED BY <2>2 DEF AsyncInv, QueueInv, QueueLosesNothing
<1> QED BY <1>1, AsyncInvariance, PTL

(* Nothing is behind the terminate message, and when the worker has ended  *)
(* all messages of the run were given to the sink and flushed.             *)
THEOREM WorkerDrains == AsyncSpec => []DrainedAtEnd
<1>1. AsyncInv /\ SinkTypeOK => DrainedAtEnd
  <2> SUFFICES ASSUME AsyncInv, SinkTypeOK PROVE DrainedAtEnd
    OBVIOUS
  <2>1. \A k \in DOMAIN accepted : accepted[k] = Terminate =>
          k = Len(accepted) /\ pushing = {}
    BY DEF AsyncInv, TerminateInv, ControlInv
  <2>2. worker = "ended" => hand = 0
    BY DEF AsyncInv, ControlInv, SinkTypeOK, StepsOK
  <2> QED BY <2>1, <2>2 DEF AsyncInv, TerminateInv, DrainedAtEnd
<1> QED BY <1>1, AsyncInvariance, PTL
=============================================================================
