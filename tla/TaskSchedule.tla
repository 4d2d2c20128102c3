---------------------------- MODULE TaskSchedule ----------------------------
(***************************************************************************)
(* The task scheduler g_scheduler (TaskSchedule.h, TaskSchedule.cpp) with  *)
(* the threads that call it:                                               *)
(*   - client threads (TcpServer::ClientComm) call AddTask, GetResult and  *)
(*     CloseTask;                                                          *)
(*   - OCR threads (InvokeFuncByBoost) call GetTask and SubmitTask;        *)
(*   - the storage thread (DataStorage::Start) calls SaveRecord.           *)
(* The scheduler keeps the same tasks twice, each copy under a mutex of    *)
(* its own: m_TaskAccpetMap, which clients poll, and m_TaskProcessList,    *)
(* which the OCR and storage threads work through.  No method holds both   *)
(* mutexes, so a method is not atomic: one action below is one critical    *)
(* section, and the other threads run between the sections of a method.    *)
(***************************************************************************)
EXTENDS Naturals, FiniteSets

CONSTANTS
  Clients,      \* threads running TcpServer::ClientComm
  OcrThreads,   \* threads running InvokeFuncByBoost
  Names,        \* non-empty task names (image file names)
  NamesOf,      \* the names each client thread may use
  NoTask,       \* the empty string
  OcrMayFail,   \* may a recognition raise an exception?
  MaxPush       \* bound: AddTask pushes at most this many nodes

ASSUME SchedulerAssumption ==
  /\ IsFiniteSet(Clients)
  /\ NamesOf \in [Clients -> SUBSET Names]
  /\ NoTask \notin Names
  /\ OcrMayFail \in BOOLEAN
  /\ MaxPush \in Nat

VARIABLES
  acceptMap,    \* m_TaskAccpetMap: what clients see of each name
  processList,  \* m_TaskProcessList: list node -> entry, in push order
  pushed,       \* number of nodes ever pushed to processList
  cpc, ctask,   \* client threads: program point, task name in hand ...
  cres,         \* ... and the result GetResult gave
  wpc, wtask,   \* OCR threads: program point, task name in hand ...
  wrun,         \* ... and the list node whose claim started the run
  abandoned,    \* runs ended by an exception, never submitted
  python,       \* the interpreter: "up", "down" (finalized), or "crashed",
                \* and with it the process
  saved         \* list node -> entry, as handed to DataStorage::Start

clientVars == <<cpc, ctask, cres>>
runVars == <<abandoned, python>>
workerVars == <<wpc, wtask, wrun, runVars>>
vars == <<acceptMap, processList, pushed, clientVars, workerVars, saved>>
-----------------------------------------------------------------------------
(* TaskSchedule.h declares Error too, but no statement ever assigns it.    *)
eTaskState == {"Error", "NewAdd", "Processing", "Processed"}

(* The value of scan.convertImage2String: a result file name made of the   *)
(* time of the run and the task name, so it differs from run to run.       *)
Result == [name : Names, run : Nat]
NoResult == [name |-> NoTask, run |-> 0]

(* A name outside the map is the slot Absent; a list node has a name too.  *)
Slot == [st : eTaskState \cup {"Absent"}, res : Result \cup {NoResult}]
Absent == [st |-> "Absent", res |-> NoResult]
Entry == [name : Names, st : eTaskState, res : Result \cup {NoResult}]

NodesIn(state) == {i \in DOMAIN processList : processList[i].st = state}
NodesOf(n, state) == {i \in NodesIn(state) : processList[i].name = n}

(* The loops over m_TaskProcessList stop at the first node that matches.   *)
IsFirst(i, S) == i \in S /\ \A j \in S : i <= j

(* Clients that will push a node.                                          *)
Adding == {c \in Clients : cpc[c] \in {"insert", "push"}}

(* The result the run of OCR thread w returns.                             *)
ResultOf(w) == [name |-> wtask[w], run |-> wrun[w]]

(* OCR threads between the claim in GetTask and the end of SubmitTask.     *)
Busy == {w \in OcrThreads : wpc[w] # "idle" /\ wtask[w] # NoTask}
-----------------------------------------------------------------------------
TypeOK ==
  /\ acceptMap \in [Names -> Slot]
  /\ pushed \in Nat
  /\ DOMAIN processList \subseteq 1..pushed
  /\ processList \in [DOMAIN processList -> Entry]
  /\ cpc \in [Clients -> {"idle", "insert", "push", "got"}]
  /\ ctask \in [Clients -> Names \cup {NoTask}]
  /\ cres \in [Clients -> Result \cup {NoResult}]
  /\ wpc \in [OcrThreads -> {"idle", "mark", "start", "run", "submit"}]
  /\ wtask \in [OcrThreads -> Names \cup {NoTask}]
  /\ wrun \in [OcrThreads -> 0..pushed]
  /\ abandoned \subseteq Result
  /\ python \in {"up", "down", "crashed"}
  /\ DOMAIN saved \subseteq 1..pushed
  /\ saved \in [DOMAIN saved -> Entry]

Init ==
  /\ acceptMap = [n \in Names |-> Absent]
  /\ processList = [i \in {} |-> NoResult]
  /\ pushed = 0
  /\ cpc = [c \in Clients |-> "idle"]
  /\ ctask = [c \in Clients |-> NoTask]
  /\ cres = [c \in Clients |-> NoResult]
  /\ wpc = [w \in OcrThreads |-> "idle"]
  /\ wtask = [w \in OcrThreads |-> NoTask]
  /\ wrun = [w \in OcrThreads |-> 0]
  /\ abandoned = {}
  /\ python = "up"
  /\ saved = [i \in {} |-> NoResult]
-----------------------------------------------------------------------------
(***************************************************************************)
(* AddTask: three critical sections.  The first looks the name up and      *)
(* returns if it is in the map (then nothing changes); the second inserts  *)
(* it, which std::map::insert ignores when another thread inserted the     *)
(* name in between; the third pushes a node, in either case.               *)
(***************************************************************************)
AddTaskCheck(c, n) ==
  /\ cpc[c] = "idle"
  /\ pushed + Cardinality(Adding) < MaxPush
  /\ acceptMap[n] = Absent
  /\ cpc' = [cpc EXCEPT ![c] = "insert"]
  /\ ctask' = [ctask EXCEPT ![c] = n]
  /\ UNCHANGED <<acceptMap, processList, pushed, cres, workerVars, saved>>

AddTaskInsert(c) ==
  /\ cpc[c] = "insert"
  /\ IF acceptMap[ctask[c]] = Absent
       THEN acceptMap' = [acceptMap EXCEPT ![ctask[c]] =
                            [st |-> "NewAdd", res |-> NoResult]]
       ELSE UNCHANGED acceptMap
  /\ cpc' = [cpc EXCEPT ![c] = "push"]
  /\ UNCHANGED <<processList, pushed, ctask, cres, workerVars, saved>>

(* Mutant: the node is made after the name was moved out of taskName.      *)
AddTaskPush_MovedName(c) ==
  /\ cpc[c] = "push"
  /\ pushed' = pushed + 1
  /\ processList' = [i \in DOMAIN processList \cup {pushed + 1} |->
       IF i = pushed + 1
         THEN [name |-> NoTask, st |-> "NewAdd", res |-> NoResult]
         ELSE processList[i]]
  /\ cpc' = [cpc EXCEPT ![c] = "idle"]
  /\ ctask' = [ctask EXCEPT ![c] = NoTask]
  /\ UNCHANGED <<acceptMap, cres, workerVars, saved>>

AddTaskPush(c) ==
  /\ cpc[c] = "push"
  /\ pushed' = pushed + 1
  /\ processList' = [i \in DOMAIN processList \cup {pushed + 1} |->
       IF i = pushed + 1
         THEN [name |-> ctask[c], st |-> "NewAdd", res |-> NoResult]
         ELSE processList[i]]
  /\ cpc' = [cpc EXCEPT ![c] = "idle"]
  /\ ctask' = [ctask EXCEPT ![c] = NoTask]
  /\ UNCHANGED <<acceptMap, cres, workerVars, saved>>

(***************************************************************************)
(* GetResult: one critical section.  It returns the empty string unless    *)
(* the slot is Processed, and then the caller answers WaitRecog and        *)
(* nothing changes.  A caller that got a result sends it, and goes on to   *)
(* CloseTask if the send succeeds or leaves its loop if it fails.          *)
(***************************************************************************)
GetResult(c, n) ==
  /\ cpc[c] = "idle"
  /\ acceptMap[n].st = "Processed"
  /\ cpc' = [cpc EXCEPT ![c] = "got"]
  /\ ctask' = [ctask EXCEPT ![c] = n]
  /\ cres' = [cres EXCEPT ![c] = acceptMap[n].res]
  /\ UNCHANGED <<acceptMap, processList, pushed, workerVars, saved>>

EndGet(c) ==
  /\ cpc' = [cpc EXCEPT ![c] = "idle"]
  /\ ctask' = [ctask EXCEPT ![c] = NoTask]
  /\ cres' = [cres EXCEPT ![c] = NoResult]
  /\ UNCHANGED <<processList, pushed, workerVars, saved>>

(* Mutant: the first Processed slot is erased, whatever its name.          *)
CloseTask_AnyName(c) ==
  /\ cpc[c] = "got"
  /\ \E n \in Names :
       /\ acceptMap[n].st = "Processed"
       /\ acceptMap' = [acceptMap EXCEPT ![n] = Absent]
  /\ EndGet(c)

CloseTask(c) ==
  /\ cpc[c] = "got"
  /\ IF acceptMap[ctask[c]].st = "Processed"
       THEN acceptMap' = [acceptMap EXCEPT ![ctask[c]] = Absent]
       ELSE UNCHANGED acceptMap
  /\ EndGet(c)

SendFails(c) ==
  /\ cpc[c] = "got"
  /\ UNCHANGED acceptMap
  /\ EndGet(c)
-----------------------------------------------------------------------------
(* Mutant: the claimed node is not marked.                                 *)
GetTaskClaim_Unmarked(w) ==
  /\ wpc[w] = "idle"
  /\ wpc' = [wpc EXCEPT ![w] = "mark"]
  /\ \E i \in DOMAIN processList :
       /\ IsFirst(i, NodesIn("NewAdd"))
       /\ wtask' = [wtask EXCEPT ![w] = processList[i].name]
       /\ wrun' = [wrun EXCEPT ![w] = i]
  /\ UNCHANGED <<acceptMap, processList, pushed, clientVars, runVars, saved>>

(* Mutant: the list is walked from its end.                                *)
GetTaskClaim_Last(w) ==
  /\ wpc[w] = "idle"
  /\ wpc' = [wpc EXCEPT ![w] = "mark"]
  /\ \E i \in NodesIn("NewAdd") :
       /\ \A j \in NodesIn("NewAdd") : j <= i
       /\ processList' = [processList EXCEPT ![i].st = "Processing"]
       /\ wtask' = [wtask EXCEPT ![w] = processList[i].name]
       /\ wrun' = [wrun EXCEPT ![w] = i]
  /\ UNCHANGED <<acceptMap, pushed, clientVars, runVars, saved>>

(***************************************************************************)
(* GetTask: two critical sections.  The first claims the first NewAdd node *)
(* of the list, if there is one; the second marks the slot of that name    *)
(* Processing if it is still NewAdd.  With no node to claim the second     *)
(* section runs all the same, finds nothing, and the thread sleeps.        *)
(***************************************************************************)
GetTaskClaim(w) ==
  /\ wpc[w] = "idle"
  /\ wpc' = [wpc EXCEPT ![w] = "mark"]
  /\ \/ \E i \in DOMAIN processList :
          /\ IsFirst(i, NodesIn("NewAdd"))
          /\ processList' = [processList EXCEPT ![i].st = "Processing"]
          /\ wtask' = [wtask EXCEPT ![w] = processList[i].name]
          /\ wrun' = [wrun EXCEPT ![w] = i]
     \/ /\ NodesIn("NewAdd") = {}
        /\ UNCHANGED <<processList, wtask, wrun>>
  /\ UNCHANGED <<acceptMap, pushed, clientVars, runVars, saved>>

(* Mutant: the second section is left out.                                 *)
GetTaskMark_Unmarked(w) ==
  /\ wpc[w] = "mark"
  /\ wpc' = [wpc EXCEPT ![w] = IF wtask[w] = NoTask THEN "idle" ELSE "start"]
  /\ UNCHANGED <<acceptMap, processList, pushed, clientVars, wtask, wrun,
                 runVars, saved>>

(* Mutant: the slot is marked whatever its state is.                       *)
GetTaskMark_AnyState(w) ==
  /\ wpc[w] = "mark"
  /\ wpc' = [wpc EXCEPT ![w] = IF wtask[w] = NoTask THEN "idle" ELSE "start"]
  /\ acceptMap' = [n \in Names |->
       IF n = wtask[w] /\ acceptMap[n] # Absent
         THEN [acceptMap[n] EXCEPT !.st = "Processing"]
         ELSE acceptMap[n]]
  /\ UNCHANGED <<processList, pushed, clientVars, wtask, wrun, runVars, saved>>

GetTaskMark(w) ==
  /\ wpc[w] = "mark"
  /\ \/ /\ wtask[w] = NoTask
        /\ wpc' = [wpc EXCEPT ![w] = "idle"]
        /\ UNCHANGED acceptMap
     \/ /\ wtask[w] # NoTask
        /\ wpc' = [wpc EXCEPT ![w] = "start"]
        /\ IF acceptMap[wtask[w]].st = "NewAdd"
             THEN acceptMap' = [acceptMap EXCEPT ![wtask[w]].st = "Processing"]
             ELSE UNCHANGED acceptMap
  /\ UNCHANGED <<processList, pushed, clientVars, wtask, wrun, runVars, saved>>

(* The lock on the interpreter is taken and the script is called, which    *)
(* aborts the process if another thread has finalized the interpreter.     *)
StartRun(w) ==
  /\ wpc[w] = "start"
  /\ \/ /\ python = "up"
        /\ wpc' = [wpc EXCEPT ![w] = "run"]
        /\ UNCHANGED python
     \/ /\ python = "down"
        /\ python' = "crashed"
        /\ UNCHANGED wpc
  /\ UNCHANGED <<acceptMap, processList, pushed, clientVars, wtask, wrun,
                 abandoned, saved>>

(***************************************************************************)
(* SubmitTask: two critical sections, the slot first and the list second.  *)
(* Each stores the result where the name is still Processing: the slot of  *)
(* the name, then the first Processing node of that name, which need not   *)
(* be the node that was claimed.                                           *)
(***************************************************************************)
SubmitAccept(w) ==
  /\ wpc[w] = "run"
  /\ IF acceptMap[wtask[w]].st = "Processing"
       THEN acceptMap' = [acceptMap EXCEPT ![wtask[w]] =
                            [st |-> "Processed", res |-> ResultOf(w)]]
       ELSE UNCHANGED acceptMap
  /\ wpc' = [wpc EXCEPT ![w] = "submit"]
  /\ UNCHANGED <<processList, pushed, clientVars, wtask, wrun, runVars, saved>>

EndRun(w) ==
  /\ wpc' = [wpc EXCEPT ![w] = "idle"]
  /\ wtask' = [wtask EXCEPT ![w] = NoTask]
  /\ wrun' = [wrun EXCEPT ![w] = 0]

(* Mutant: the loop has no break.                                          *)
SubmitProcess_NoBreak(w) ==
  /\ wpc[w] = "submit"
  /\ processList' = [i \in DOMAIN processList |->
       IF i \in NodesOf(wtask[w], "Processing")
         THEN [name |-> wtask[w], st |-> "Processed", res |-> ResultOf(w)]
         ELSE processList[i]]
  /\ EndRun(w)
  /\ UNCHANGED <<acceptMap, pushed, clientVars, runVars, saved>>

(* Mutant: the state of the node is not compared.                          *)
SubmitProcess_AnyState(w) ==
  /\ wpc[w] = "submit"
  /\ \/ \E i \in DOMAIN processList :
          /\ IsFirst(i, {j \in DOMAIN processList :
                           processList[j].name = wtask[w]})
          /\ processList' = [processList EXCEPT
               ![i] = [name |-> wtask[w], st |-> "Processed", res |-> ResultOf(w)]]
     \/ /\ \A j \in DOMAIN processList : processList[j].name # wtask[w]
        /\ UNCHANGED processList
  /\ EndRun(w)
  /\ UNCHANGED <<acceptMap, pushed, clientVars, runVars, saved>>

(* Mutant: the result is stored and the state is left as it is.            *)
SubmitProcess_StateKept(w) ==
  /\ wpc[w] = "submit"
  /\ \E i \in DOMAIN processList :
       /\ IsFirst(i, NodesOf(wtask[w], "Processing"))
       /\ processList' = [processList EXCEPT ![i].res = ResultOf(w)]
  /\ EndRun(w)
  /\ UNCHANGED <<acceptMap, pushed, clientVars, runVars, saved>>

SubmitProcess(w) ==
  /\ wpc[w] = "submit"
  /\ \/ \E i \in DOMAIN processList :
          /\ IsFirst(i, NodesOf(wtask[w], "Processing"))
          /\ processList' = [processList EXCEPT
               ![i] = [name |-> wtask[w], st |-> "Processed", res |-> ResultOf(w)]]
     \/ /\ NodesOf(wtask[w], "Processing") = {}
        /\ UNCHANGED processList
  /\ EndRun(w)
  /\ UNCHANGED <<acceptMap, pushed, clientVars, runVars, saved>>

(* The catch (...) of InvokeFuncByBoost: the task in hand is dropped and   *)
(* both of its copies stay Processing.  PyErr_Print and Py_Finalize are    *)
(* called when unwinding has given the interpreter lock back: what they do *)
(* is undefined, and here they crash or leave the interpreter finalized.   *)
OcrFails(w) ==
  /\ OcrMayFail
  /\ wpc[w] = "run"
  /\ abandoned' = abandoned \cup {ResultOf(w)}
  /\ python' \in {"down", "crashed"}
  /\ EndRun(w)
  /\ UNCHANGED <<acceptMap, processList, pushed, clientVars, saved>>
-----------------------------------------------------------------------------
(* Mutant: the node is erased before it is copied.                         *)
SaveRecord_Lost ==
  /\ \E i \in DOMAIN processList :
       /\ IsFirst(i, NodesIn("Processed"))
       /\ processList' = [j \in DOMAIN processList \ {i} |-> processList[j]]
  /\ UNCHANGED <<acceptMap, pushed, clientVars, workerVars, saved>>

(* SaveRecord: the first Processed node leaves the list and is returned to *)
(* the storage thread; with no such node nothing changes.                  *)
SaveRecord ==
  /\ \E i \in DOMAIN processList :
       /\ IsFirst(i, NodesIn("Processed"))
       /\ processList' = [j \in DOMAIN processList \ {i} |-> processList[j]]
       /\ saved' = [j \in DOMAIN saved \cup {i} |->
                      IF j = i THEN processList[i] ELSE saved[j]]
  /\ UNCHANGED <<acceptMap, pushed, clientVars, workerVars>>
-----------------------------------------------------------------------------
ClientStep(c) ==
  \/ \E n \in NamesOf[c] : AddTaskCheck(c, n) \/ GetResult(c, n)
  \/ AddTaskInsert(c)
  \/ AddTaskPush(c)
  \/ CloseTask(c)
  \/ SendFails(c)

WorkerStep(w) ==
  \/ GetTaskClaim(w)
  \/ GetTaskMark(w)
  \/ StartRun(w)
  \/ SubmitAccept(w)
  \/ SubmitProcess(w)
  \/ OcrFails(w)

Next ==
  /\ python # "crashed"
  /\ \/ \E c \in Clients : ClientStep(c)
     \/ \E w \in OcrThreads : WorkerStep(w)
     \/ SaveRecord

Spec == Init /\ [][Next]_vars

(* A thread inside AddTask, an OCR thread and the storage thread keep      *)
(* running; a client need not call anything.                               *)
Fairness ==
  /\ \A c \in Clients : WF_vars(AddTaskInsert(c)) /\ WF_vars(AddTaskPush(c))
  /\ \A w \in OcrThreads : WF_vars(WorkerStep(w))
  /\ WF_vars(SaveRecord)

FairSpec == Spec /\ Fairness
=============================================================================
