---------------------------- MODULE AsyncLogger ----------------------------
(***************************************************************************)
(* The way of a log message from the thread that writes it to the files:   *)
(* the asynchronous file logger of spdlog as Logger.cpp sets it up.        *)
(*                                                                         *)
(* A log call holds the mutex of the registry of loggers while it puts its *)
(* message into the bounded queue, and waits there as long as the queue is *)
(* full.  The worker thread takes the messages and gives them to the sink. *)
(* At the end DestoryLogger empties the registry, and the destructor of    *)
(* the logger puts a terminate message behind all others and joins the     *)
(* worker, which ends on an empty queue only.                              *)
(*                                                                         *)
(* The queue is the bounded FIFO queue MpmcQueue implements.  The console  *)
(* logger has a queue and a worker of the same kind, and is left out.      *)
(***************************************************************************)
EXTENDS RotatingSink, BoundedFifo

CONSTANTS
  LogThreads,  \* threads that write to the log
  NoOne,       \* the registry's mutex is free
  MaxRuns      \* bound: how often the program is started

ASSUME LoggerAssumption ==
  /\ NoOne \notin LogThreads /\ "main" \notin LogThreads
  /\ Items = 0..MaxMsg
  /\ MaxRuns \in Nat

VARIABLES
  registered,   \* is the logger in the registry?
  mutex,        \* who holds the registry's mutex
  pushing,      \* threads inside push_msg
  main,         \* where the main thread is
  worker,       \* "none", "loop", "sink" (in _sink_it) or "ended"
  flushRequested, terminateRequested,
  written,      \* messages put into the queue, in all runs
  queueLost,    \* history: messages that died in the queue
  runs          \* how often the program was started

threadVars == <<registered, mutex, pushing, main>>
workerVars == <<worker, flushRequested, terminateRequested>>
countVars == <<written, queueLost, runs>>
asyncVars == <<threadVars, workerVars, countVars, fifoVars, sinkVars>>

Terminate == 0
Waiting == {accepted[k] : k \in (taken + 1)..Len(accepted)} \ {Terminate}
-----------------------------------------------------------------------------
AsyncInit ==
  /\ SinkInit /\ FifoInit
  /\ registered = FALSE /\ mutex = NoOne /\ pushing = {} /\ main = "off"
  /\ worker = "none" /\ flushRequested = FALSE /\ terminateRequested = FALSE
  /\ written = 0 /\ queueLost = {} /\ runs = 0

(* InitLogger: the sink is opened, the worker started and the logger       *)
(* registered before any thread logs.                                      *)
InitLogger ==
  /\ runs < MaxRuns
  /\ OpenSink
  /\ runs' = runs + 1
  /\ accepted' = << >> /\ taken' = 0
  /\ registered' = TRUE /\ main' = "running"
  /\ worker' = "loop" /\ flushRequested' = FALSE /\ terminateRequested' = FALSE
  /\ UNCHANGED <<mutex, pushing, written, queueLost>>
-----------------------------------------------------------------------------
(* A log macro: apply_all takes the mutex and calls every registered       *)
(* logger; there is none after drop_all, and the call does nothing.        *)
LogCall(t) ==
  /\ written + 2 <= MaxMsg
  /\ t \notin pushing
  /\ mutex = NoOne
  /\ registered
  /\ mutex' = t
  /\ pushing' = pushing \cup {t}
  /\ UNCHANGED <<registered, main, workerVars, countVars, fifoVars, sinkVars>>

(* Mutant: when the queue is full the message is dropped.                  *)
PushMessage_Discard ==
  /\ written' = written + 1
  /\ IF Full THEN UNCHANGED fifoVars ELSE Put(written + 1)
  /\ UNCHANGED <<queueLost, runs, workerVars, sinkVars>>

(* push_msg of a message; it retries while the queue is full.              *)
PushMessage ==
  /\ written' = written + 1
  /\ Put(written + 1)
  /\ UNCHANGED <<queueLost, runs, workerVars, sinkVars>>

LogPush(t) ==
  /\ t \in pushing /\ written < MaxMsg
  /\ PushMessage
  /\ pushing' = pushing \ {t}
  /\ mutex' = NoOne
  /\ UNCHANGED <<registered, main>>
-----------------------------------------------------------------------------
(* DestoryLogger: a last message, pushed without the mutex.                *)
Farewell ==
  /\ main = "running"
  /\ written + 1 + (IF pushing = {} THEN 0 ELSE 1) <= MaxMsg
  /\ PushMessage
  /\ main' = "farewell"
  /\ UNCHANGED <<registered, mutex, pushing>>

(* Mutant: the registry is emptied while log calls are under way.          *)
DropAll_NoMutex ==
  /\ main = "farewell"
  /\ registered' = FALSE
  /\ main' = "dropped"
  /\ UNCHANGED <<mutex, pushing, workerVars, countVars, fifoVars, sinkVars>>

(* drop_all, under the mutex.                                              *)
DropAll ==
  /\ main = "farewell"
  /\ mutex = NoOne
  /\ registered' = FALSE
  /\ main' = "dropped"
  /\ UNCHANGED <<mutex, pushing, workerVars, countVars, fifoVars, sinkVars>>

(* The static pointer to the logger is destroyed at exit, and with it the  *)
(* helper: it pushes the terminate message and joins the worker.           *)
PushTerminate ==
  /\ main = "dropped"
  /\ Put(Terminate)
  /\ main' = "join"
  /\ UNCHANGED <<registered, mutex, pushing, workerVars, countVars, sinkVars>>

JoinWorker ==
  /\ main = "join"
  /\ worker = "ended"
  /\ CloseSink
  /\ main' = "off"
  /\ UNCHANGED <<registered, mutex, pushing, workerVars, countVars, fifoVars>>
-----------------------------------------------------------------------------
(* Mutant: the latest message is taken first.                              *)
TakeMessage_Newest ==
  /\ worker = "loop"
  /\ Take
  /\ LET m == accepted[Len(accepted)] IN
     IF m = Terminate
       THEN /\ flushRequested' = TRUE /\ terminateRequested' = TRUE
            /\ UNCHANGED <<worker, sinkVars>>
       ELSE /\ SinkIt(m)
            /\ worker' = "sink"
            /\ UNCHANGED <<flushRequested, terminateRequested>>
  /\ UNCHANGED <<threadVars, countVars>>

(* process_next_msg with a message.                                        *)
TakeMessage ==
  /\ worker = "loop"
  /\ Take
  /\ LET m == accepted[taken + 1] IN
     IF m = Terminate
       THEN /\ flushRequested' = TRUE /\ terminateRequested' = TRUE
            /\ UNCHANGED <<worker, sinkVars>>
       ELSE /\ SinkIt(m)
            /\ worker' = "sink"
            /\ UNCHANGED <<flushRequested, terminateRequested>>
  /\ UNCHANGED <<threadVars, countVars>>

(* Mutant: what the sink throws ends the worker.                           *)
WorkInSink_Uncaught ==
  /\ worker = "sink"
  /\ SinkStep
  /\ worker' = IF failed' # failed THEN "none" ELSE IF at' = "idle" THEN "loop" ELSE "sink"
  /\ UNCHANGED <<threadVars, flushRequested, terminateRequested, countVars, fifoVars>>

(* The sink goes on; what it throws ends in the error handler of the       *)
(* worker's loop.                                                          *)
WorkInSink ==
  /\ worker = "sink"
  /\ SinkStep
  /\ worker' = IF at' = "idle" THEN "loop" ELSE "sink"
  /\ UNCHANGED <<threadVars, flushRequested, terminateRequested, countVars, fifoVars>>

(* process_next_msg with an empty queue: the only place where the worker   *)
(* flushes or ends.                                                        *)
EmptyQueue ==
  /\ worker = "loop"
  /\ taken = Len(accepted)
  /\ IF flushRequested THEN FlushSink ELSE UNCHANGED sinkVars
  /\ flushRequested' = FALSE
  /\ worker' = IF terminateRequested THEN "ended" ELSE "loop"
  /\ UNCHANGED <<threadVars, terminateRequested, countVars, fifoVars>>
-----------------------------------------------------------------------------
(* External: std::terminate, or the process is killed.  What is in the     *)
(* queue dies with it.                                                     *)
DieWithQueue ==
  /\ main # "off"
  /\ Die
  /\ main' = "off"
  /\ registered' = FALSE /\ mutex' = NoOne /\ pushing' = {}
  /\ worker' = "none"
  /\ queueLost' = queueLost \cup Waiting
  /\ accepted' = << >> /\ taken' = 0
  /\ UNCHANGED <<flushRequested, terminateRequested, written, runs>>

MainStep == Farewell \/ DropAll \/ PushTerminate \/ JoinWorker
WorkerStep == TakeMessage \/ WorkInSink \/ EmptyQueue

AsyncNext ==
  \/ InitLogger
  \/ \E t \in LogThreads : LogCall(t) \/ LogPush(t)
  \/ MainStep
  \/ WorkerStep
  \/ DieWithQueue

AsyncSpec == AsyncInit /\ [][AsyncNext]_asyncVars

(* push_msg retries until there is room, the worker runs until it has      *)
(* ended, and the main thread goes on once it has begun to stop.           *)
FairAsyncSpec ==
  /\ AsyncSpec
  /\ \A t \in LogThreads : WF_asyncVars(LogPush(t))
  /\ WF_asyncVars(WorkerStep)
  /\ WF_asyncVars(DropAll \/ PushTerminate \/ JoinWorker)
-----------------------------------------------------------------------------
(* The types of the logger's state.                                        *)
AsyncTypeOK ==
  /\ registered \in BOOLEAN
  /\ mutex \in LogThreads \cup {NoOne}
  /\ pushing \subseteq LogThreads
  /\ main \in {"off", "running", "farewell", "dropped", "join"}
  /\ worker \in {"none", "loop", "sink", "ended"}
  /\ flushRequested \in BOOLEAN /\ terminateRequested \in BOOLEAN
  /\ written \in 0..MaxMsg /\ runs \in 0..MaxRuns
  /\ queueLost \subseteq Messages
  /\ accepted \in Seq(Items) /\ taken \in 0..Len(accepted)
  /\ Len(accepted) - taken <= Capacity

(* A message the queue accepted is still in it or was given to the sink,   *)
(* once; only the death of the process takes one out of the queue.         *)
QueueLosesNothing ==
  /\ 1..written = given \cup Waiting \cup queueLost
  /\ given \cap (Waiting \cup queueLost) = {}
  /\ Waiting \cap queueLost = {}

(* Nothing is ever behind the terminate message, which the worker would    *)
(* never look at: when the worker has ended, every message of the run has  *)
(* been given to the sink, and nothing waits in a buffer for the file.     *)
DrainedAtEnd ==
  /\ \A k \in DOMAIN accepted : accepted[k] = Terminate =>
       k = Len(accepted) /\ pushing = {}
  /\ worker = "ended" =>
       taken = Len(accepted) /\ hand = 0 /\ flushed = Len(file[0])

(* The worker uses the sink as RotatingSink supposes: one message at a     *)
(* time, in ascending order.                                               *)
UsesSink == SinkSpec

(* A log call returns although it waits on a full queue with the mutex of  *)
(* the registry in its hand, unless the process dies; and once             *)
(* DestoryLogger has begun, the program gets past the mutex, the queue and *)
(* the join, whatever fails in the file system.                            *)
ExitEnds ==
  /\ \A t \in LogThreads : t \in pushing ~> t \notin pushing
  /\ main = "farewell" ~> main = "off"
=============================================================================
