------------------------- MODULE TaskScheduleProofs -------------------------
(***************************************************************************)
(* Proofs about the scheduler, for any sets of clients, OCR threads and    *)
(* names: the types, the tasks that wait and run, the runs and the nodes   *)
(* they end in, the order of the list, and the refinement of OcrService.   *)
(***************************************************************************)
EXTENDS TaskScheduleProps, FiniteSetTheorems, TLAPS

(* A thread that is inside a method has a task name in hand, and an OCR    *)
(* thread that polls has none.                                             *)
TaskInHand ==
  /\ \A c \in Clients : cpc[c] # "idle" => ctask[c] \in Names
  /\ \A w \in OcrThreads :
       /\ wpc[w] = "idle" => wtask[w] = NoTask
       /\ wpc[w] \in {"start", "run", "submit"} => wtask[w] \in Names
       /\ wtask[w] \in Names => wrun[w] \in DOMAIN processList \cup DOMAIN saved

TypeInv == TypeOK /\ TaskInHand
-----------------------------------------------------------------------------
(* The variables keep their types.                                         *)
LEMMA TypeInit == Init => TypeInv
  BY SchedulerAssumption
  DEF Init, TypeInv, TypeOK, TaskInHand, Slot, Absent, NoResult, eTaskState

LEMMA TypeStep == TypeInv /\ [Next]_vars => TypeInv'
<1> SUFFICES ASSUME TypeInv, [Next]_vars PROVE TypeInv'
  OBVIOUS
<1> USE SchedulerAssumption
        DEF TypeInv, TypeOK, TaskInHand, Slot, Entry, Result, NoResult, Absent,
            eTaskState, NodesIn, NodesOf, IsFirst, ResultOf,
            clientVars, workerVars, runVars
<1>1. ASSUME NEW c \in Clients, NEW n \in NamesOf[c], AddTaskCheck(c, n)
      PROVE  TypeInv'
  BY <1>1 DEF AddTaskCheck
<1>2. ASSUME NEW c \in Clients, NEW n \in NamesOf[c], GetResult(c, n)
      PROVE  TypeInv'
  BY <1>2 DEF GetResult
<1>3. ASSUME NEW c \in Clients, AddTaskInsert(c) PROVE TypeInv'
  BY <1>3 DEF AddTaskInsert
<1>4. ASSUME NEW c \in Clients, AddTaskPush(c) PROVE TypeInv'
  BY <1>4 DEF AddTaskPush
<1>5. ASSUME NEW c \in Clients, CloseTask(c) PROVE TypeInv'
  BY <1>5 DEF CloseTask, EndGet
<1>6. ASSUME NEW c \in Clients, SendFails(c) PROVE TypeInv'
  BY <1>6 DEF SendFails, EndGet
<1>7. ASSUME NEW w \in OcrThreads, GetTaskClaim(w) PROVE TypeInv'
  <2>1. CASE UNCHANGED <<processList, wtask, wrun>>
    BY <1>7, <2>1 DEF GetTaskClaim
  <2>2. ASSUME NEW i \in DOMAIN processList,
               processList' = [processList EXCEPT ![i].st = "Processing"],
               wtask' = [wtask EXCEPT ![w] = processList[i].name],
               wrun' = [wrun EXCEPT ![w] = i]
        PROVE  TypeInv'
    <3>1. /\ processList[i] \in Entry
          /\ i \in 1..pushed
      OBVIOUS
    <3>2. /\ DOMAIN processList' = DOMAIN processList
          /\ \A j \in DOMAIN processList : processList'[j] \in Entry
          /\ processList' \in [DOMAIN processList' -> Entry]
      BY <2>2, <3>1
    <3>3. UNCHANGED <<acceptMap, pushed, cpc, ctask, cres, abandoned, python, saved>>
      BY <1>7 DEF GetTaskClaim
    <3>4. /\ wpc' \in [OcrThreads -> {"idle", "mark", "start", "run", "submit"}]
          /\ wtask' \in [OcrThreads -> Names \cup {NoTask}]
          /\ wrun' \in [OcrThreads -> 0..pushed]
      BY <1>7, <2>2, <3>1 DEF GetTaskClaim
    <3>5. TypeOK'
      BY <3>2, <3>3, <3>4
    <3>6. TaskInHand'
      BY <1>7, <2>2, <3>1, <3>2, <3>3 DEF GetTaskClaim
    <3> QED
      BY <3>5, <3>6
  <2> QED
    BY <1>7, <2>1, <2>2 DEF GetTaskClaim
<1>8. ASSUME NEW w \in OcrThreads, GetTaskMark(w) PROVE TypeInv'
  <2>1. CASE UNCHANGED acceptMap
    BY <1>8, <2>1 DEF GetTaskMark
  <2>2. CASE /\ wtask[w] # NoTask
             /\ acceptMap' = [acceptMap EXCEPT ![wtask[w]].st = "Processing"]
    <3>1. acceptMap' \in [Names -> Slot]
      BY <2>2
    <3> QED
      BY <1>8, <2>2, <3>1 DEF GetTaskMark
  <2> QED
    BY <1>8, <2>1, <2>2 DEF GetTaskMark
<1>9. ASSUME NEW w \in OcrThreads, StartRun(w) PROVE TypeInv'
  BY <1>9 DEF StartRun
<1>10. ASSUME NEW w \in OcrThreads, SubmitAccept(w) PROVE TypeInv'
  <2>1. ResultOf(w) \in Result
    BY <1>10 DEF SubmitAccept
  <2>2. acceptMap' \in [Names -> Slot]
    BY <1>10, <2>1 DEF SubmitAccept
  <2> QED
    BY <1>10, <2>2 DEF SubmitAccept
<1>11. ASSUME NEW w \in OcrThreads, SubmitProcess(w) PROVE TypeInv'
  <2>1. ResultOf(w) \in Result /\ wtask[w] \in Names
    BY <1>11 DEF SubmitProcess
  <2>2. /\ DOMAIN processList' = DOMAIN processList
        /\ processList' \in [DOMAIN processList -> Entry]
    BY <1>11, <2>1 DEF SubmitProcess
  <2>3. UNCHANGED <<acceptMap, pushed, cpc, ctask, cres, abandoned, python, saved>>
    BY <1>11 DEF SubmitProcess
  <2>4. /\ wpc' = [wpc EXCEPT ![w] = "idle"]
        /\ wtask' = [wtask EXCEPT ![w] = NoTask]
        /\ wrun' = [wrun EXCEPT ![w] = 0]
    BY <1>11 DEF SubmitProcess, EndRun
  <2>5. TypeOK'
    BY <2>2, <2>3, <2>4
  <2>6. TaskInHand'
    BY <2>2, <2>3, <2>4 DEF SchedulerAssumption
  <2> QED
    BY <2>5, <2>6
<1>12. ASSUME NEW w \in OcrThreads, OcrFails(w) PROVE TypeInv'
  BY <1>12 DEF OcrFails, EndRun
<1>13. ASSUME SaveRecord PROVE TypeInv'
  <2>1. PICK i \in DOMAIN processList :
          /\ processList' = [j \in DOMAIN processList \ {i} |-> processList[j]]
          /\ saved' = [j \in DOMAIN saved \cup {i} |->
                         IF j = i THEN processList[i] ELSE saved[j]]
    BY <1>13 DEF SaveRecord
  <2>2. UNCHANGED <<acceptMap, pushed, cpc, ctask, cres, wpc, wtask, wrun,
                    abandoned, python>>
    BY <1>13 DEF SaveRecord
  <2>3. /\ DOMAIN processList' \subseteq 1..pushed
        /\ processList' \in [DOMAIN processList' -> Entry]
        /\ DOMAIN saved' \subseteq 1..pushed
        /\ saved' \in [DOMAIN saved' -> Entry]
        /\ DOMAIN processList' \cup DOMAIN saved' =
             DOMAIN processList \cup DOMAIN saved
    BY <2>1
  <2> QED
    BY <2>2, <2>3
<1>14. CASE UNCHANGED vars
  BY <1>14 DEF vars
<1> QED
  BY <1>1, <1>2, <1>3, <1>4, <1>5, <1>6, <1>7, <1>8, <1>9, <1>10, <1>11,
     <1>12, <1>13, <1>14
  DEF Next, ClientStep, WorkerStep

(* TypeOK holds in every reachable state: in particular no list node has   *)
(* the empty name, which GetTask could not tell from "no task".            *)
THEOREM TypeCorrect == Spec => []TypeOK
<1>1. Spec => []TypeInv
  BY TypeInit, TypeStep, PTL DEF Spec
<1> QED
  BY <1>1, PTL DEF TypeInv
-----------------------------------------------------------------------------
(* What WaitingIsAttended says of the name n.                              *)
Attended(n) ==
  \/ \E c \in Clients : cpc[c] = "push" /\ ctask[c] = n
  \/ \E i \in DOMAIN processList :
       processList[i].st = "NewAdd" /\ processList[i].name = n
  \/ \E w \in OcrThreads : wpc[w] = "mark" /\ wtask[w] = n

LEMMA WaitingStep ==
  TypeInv /\ WaitingIsAttended /\ [Next]_vars => WaitingIsAttended'
<1> SUFFICES ASSUME TypeInv, WaitingIsAttended, [Next]_vars,
                    NEW n \in Names, acceptMap'[n].st = "NewAdd"
             PROVE  Attended(n)'
  BY DEF WaitingIsAttended, Attended, NodesIn, NodesOf
<1> USE SchedulerAssumption
        DEF TypeInv, TypeOK, TaskInHand, Slot, Entry, Attended, Absent,
            clientVars, workerVars, runVars
<1>0. acceptMap[n].st = "NewAdd" => Attended(n)
  BY DEF WaitingIsAttended, NodesIn, NodesOf
<1>1. ASSUME NEW c \in Clients, NEW m \in NamesOf[c], AddTaskCheck(c, m)
      PROVE  Attended(n)'
  <2>1. \A d \in Clients : cpc[d] = "push" =>
          cpc'[d] = "push" /\ ctask'[d] = ctask[d]
    BY <1>1 DEF AddTaskCheck
  <2> QED
    BY <1>0, <1>1, <2>1 DEF AddTaskCheck
<1>2. ASSUME NEW c \in Clients, NEW m \in NamesOf[c], GetResult(c, m)
      PROVE  Attended(n)'
  BY <1>0, <1>2 DEF GetResult
<1>3. ASSUME NEW c \in Clients, AddTaskInsert(c) PROVE Attended(n)'
  BY <1>0, <1>3 DEF AddTaskInsert
<1>4. ASSUME NEW c \in Clients, AddTaskPush(c) PROVE Attended(n)'
  <2>1. pushed + 1 \notin DOMAIN processList
    OBVIOUS
  <2>2. /\ processList'[pushed + 1] =
             [name |-> ctask[c], st |-> "NewAdd", res |-> NoResult]
        /\ pushed + 1 \in DOMAIN processList'
        /\ \A i \in DOMAIN processList :
             i \in DOMAIN processList' /\ processList'[i] = processList[i]
    BY <1>4, <2>1 DEF AddTaskPush
  <2>3. CASE ctask[c] = n
    BY <2>2, <2>3
  <2>4. CASE ctask[c] # n
    <3>1. \A d \in Clients : cpc[d] = "push" /\ ctask[d] = n =>
            cpc'[d] = "push" /\ ctask'[d] = n
      BY <1>4, <2>4 DEF AddTaskPush
    <3> QED
      BY <1>0, <1>4, <2>2, <3>1 DEF AddTaskPush
  <2> QED
    BY <2>3, <2>4
<1>5. ASSUME NEW c \in Clients, CloseTask(c) PROVE Attended(n)'
  <2>1. acceptMap[n].st = "NewAdd"
    BY <1>5 DEF CloseTask
  <2>2. \A d \in Clients : cpc[d] = "push" =>
          cpc'[d] = "push" /\ ctask'[d] = ctask[d]
    BY <1>5 DEF CloseTask, EndGet
  <2> QED
    BY <1>0, <1>5, <2>1, <2>2 DEF CloseTask, EndGet
<1>6. ASSUME NEW c \in Clients, SendFails(c) PROVE Attended(n)'
  BY <1>0, <1>6 DEF SendFails, EndGet
<1>7. ASSUME NEW w \in OcrThreads, GetTaskClaim(w) PROVE Attended(n)'
  <2>1. Attended(n) /\ UNCHANGED <<cpc, ctask>>
    BY <1>0, <1>7 DEF GetTaskClaim
  <2>2. \A v \in OcrThreads : wpc[v] = "mark" =>
          wpc'[v] = "mark" /\ wtask'[v] = wtask[v]
    BY <1>7 DEF GetTaskClaim
  <2>3. CASE UNCHANGED processList
    BY <2>1, <2>2, <2>3
  <2>4. ASSUME NEW i \in DOMAIN processList,
               processList' = [processList EXCEPT ![i].st = "Processing"],
               wtask' = [wtask EXCEPT ![w] = processList[i].name]
        PROVE  Attended(n)'
    <3>1. wpc'[w] = "mark" /\ wtask'[w] = processList[i].name
      BY <1>7, <2>4 DEF GetTaskClaim
    <3>2. CASE processList[i].name = n
      BY <3>1, <3>2
    <3>3. CASE processList[i].name # n
      BY <2>1, <2>2, <2>4, <3>3
    <3> QED
      BY <3>2, <3>3
  <2> QED
    BY <1>7, <2>3, <2>4 DEF GetTaskClaim
<1>8. ASSUME NEW w \in OcrThreads, GetTaskMark(w) PROVE Attended(n)'
  <2>1. /\ acceptMap[n].st = "NewAdd"
        /\ wtask[w] # n
    BY <1>8 DEF GetTaskMark
  <2>2. \A v \in OcrThreads : wpc[v] = "mark" /\ wtask[v] = n =>
          wpc'[v] = "mark" /\ wtask'[v] = n
    BY <1>8, <2>1 DEF GetTaskMark
  <2> QED
    BY <1>0, <1>8, <2>1, <2>2 DEF GetTaskMark
<1>9. ASSUME NEW w \in OcrThreads, StartRun(w) PROVE Attended(n)'
  BY <1>0, <1>9 DEF StartRun
<1>10. ASSUME NEW w \in OcrThreads, SubmitAccept(w) PROVE Attended(n)'
  <2>1. acceptMap[n].st = "NewAdd"
    BY <1>10 DEF SubmitAccept
  <2>2. \A v \in OcrThreads : wpc[v] = "mark" =>
          wpc'[v] = "mark" /\ wtask'[v] = wtask[v]
    BY <1>10 DEF SubmitAccept
  <2> QED
    BY <1>0, <1>10, <2>1, <2>2 DEF SubmitAccept
<1>11. ASSUME NEW w \in OcrThreads, SubmitProcess(w) PROVE Attended(n)'
  BY <1>0, <1>11 DEF SubmitProcess, EndRun, IsFirst, NodesIn, NodesOf
<1>12. ASSUME NEW w \in OcrThreads, OcrFails(w) PROVE Attended(n)'
  BY <1>0, <1>12 DEF OcrFails, EndRun
<1>13. ASSUME SaveRecord PROVE Attended(n)'
  BY <1>0, <1>13 DEF SaveRecord, IsFirst, NodesIn
<1>14. CASE UNCHANGED vars
  BY <1>0, <1>14 DEF vars
<1> QED
  BY <1>1, <1>2, <1>3, <1>4, <1>5, <1>6, <1>7, <1>8, <1>9, <1>10, <1>11,
     <1>12, <1>13, <1>14
  DEF Next, ClientStep, WorkerStep

(* Every task that a client sees as Processing is being run, or its run    *)
(* ended in an exception.                                                  *)
LEMMA ProcessingStep ==
  TypeInv /\ ProcessingIsAttended /\ [Next]_vars => ProcessingIsAttended'
<1> DEFINE Run(n) ==
      \/ \E w \in OcrThreads : wpc[w] \in {"start", "run"} /\ wtask[w] = n
      \/ \E r \in abandoned : r.name = n
<1> SUFFICES ASSUME TypeInv, ProcessingIsAttended, [Next]_vars,
                    NEW n \in Names, acceptMap'[n].st = "Processing"
             PROVE  Run(n)'
  BY DEF ProcessingIsAttended
<1> USE SchedulerAssumption
        DEF TypeInv, TypeOK, TaskInHand, Slot, Absent,
            clientVars, workerVars, runVars
<1>1. acceptMap[n].st = "Processing" => Run(n)
  BY DEF ProcessingIsAttended
<1>2. ASSUME NEW c \in Clients, ClientStep(c) PROVE Run(n)'
  <2>1. UNCHANGED <<wpc, wtask, abandoned>>
    BY <1>2 DEF ClientStep, AddTaskCheck, AddTaskInsert, AddTaskPush,
                GetResult, CloseTask, SendFails, EndGet
  <2>2. acceptMap[n].st = "Processing"
    BY <1>2 DEF ClientStep, AddTaskCheck, AddTaskInsert, AddTaskPush,
                GetResult, CloseTask, SendFails, EndGet
  <2> QED
    BY <1>1, <2>1, <2>2
<1>3. ASSUME NEW w \in OcrThreads, GetTaskClaim(w) PROVE Run(n)'
  <2>1. \A v \in OcrThreads : wpc[v] \in {"start", "run"} =>
          wpc'[v] = wpc[v] /\ wtask'[v] = wtask[v]
    BY <1>3 DEF GetTaskClaim
  <2> QED
    BY <1>1, <1>3, <2>1 DEF GetTaskClaim
<1>4. ASSUME NEW w \in OcrThreads, GetTaskMark(w) PROVE Run(n)'
  <2>1. \A v \in OcrThreads : wpc[v] \in {"start", "run"} =>
          wpc'[v] = wpc[v] /\ wtask'[v] = wtask[v]
    BY <1>4 DEF GetTaskMark
  <2>2. CASE wtask[w] = n
    BY <1>4, <2>2 DEF GetTaskMark
  <2>3. CASE wtask[w] # n
    BY <1>1, <1>4, <2>1, <2>3 DEF GetTaskMark
  <2> QED
    BY <2>2, <2>3
<1>5. ASSUME NEW w \in OcrThreads, StartRun(w) PROVE Run(n)'
  <2>1. \A v \in OcrThreads : wpc[v] \in {"start", "run"} =>
          wpc'[v] \in {"start", "run"} /\ wtask'[v] = wtask[v]
    BY <1>5 DEF StartRun
  <2> QED
    BY <1>1, <1>5, <2>1 DEF StartRun
<1>6. ASSUME NEW w \in OcrThreads, SubmitAccept(w) PROVE Run(n)'
  <2>1. acceptMap[n].st = "Processing" /\ wtask[w] # n
    BY <1>6 DEF SubmitAccept
  <2>2. \A v \in OcrThreads : wpc[v] \in {"start", "run"} /\ wtask[v] = n =>
          wpc'[v] = wpc[v] /\ wtask'[v] = wtask[v]
    BY <1>6, <2>1 DEF SubmitAccept
  <2> QED
    BY <1>1, <1>6, <2>1, <2>2 DEF SubmitAccept
<1>7. ASSUME NEW w \in OcrThreads, SubmitProcess(w) PROVE Run(n)'
  <2>1. \A v \in OcrThreads : wpc[v] \in {"start", "run"} =>
          wpc'[v] = wpc[v] /\ wtask'[v] = wtask[v]
    BY <1>7 DEF SubmitProcess, EndRun
  <2> QED
    BY <1>1, <1>7, <2>1 DEF SubmitProcess
<1>8. ASSUME NEW w \in OcrThreads, OcrFails(w) PROVE Run(n)'
  <2>1. /\ ResultOf(w) \in abandoned'
        /\ ResultOf(w).name = wtask[w]
        /\ abandoned \subseteq abandoned'
    BY <1>8 DEF OcrFails, ResultOf
  <2>2. CASE wtask[w] = n
    BY <2>1, <2>2
  <2>3. CASE wtask[w] # n
    <3>1. \A v \in OcrThreads : wpc[v] \in {"start", "run"} /\ wtask[v] = n =>
            wpc'[v] = wpc[v] /\ wtask'[v] = wtask[v]
      BY <1>8, <2>3 DEF OcrFails, EndRun
    <3> QED
      BY <1>1, <1>8, <2>1, <3>1 DEF OcrFails
  <2> QED
    BY <2>2, <2>3
<1>9. ASSUME SaveRecord PROVE Run(n)'
  BY <1>1, <1>9 DEF SaveRecord
<1>10. CASE UNCHANGED vars
  BY <1>1, <1>10 DEF vars
<1> QED
  BY <1>2, <1>3, <1>4, <1>5, <1>6, <1>7, <1>8, <1>9, <1>10
  DEF Next, WorkerStep

(* No task a client waits for is ever forgotten by the scheduler: from the *)
(* insertion of its name to its result, some thread holds it, a list node  *)
(* waits for it, or an exception ended its run.                            *)
THEOREM Attendance == Spec => []NoTaskForgotten
<1>1. Init => WaitingIsAttended /\ ProcessingIsAttended
  BY DEF Init, WaitingIsAttended, ProcessingIsAttended, Absent
<1> QED
  BY <1>1, TypeInit, TypeStep, WaitingStep, ProcessingStep, PTL DEF Spec, NoTaskForgotten
-----------------------------------------------------------------------------
(***************************************************************************)
(* The runs of the OCR threads: each node of the list is claimed once,     *)
(* each run ends in one node, and no result is lost or doubled on the way  *)
(* from SubmitTask to the storage thread.                                  *)
(***************************************************************************)
(* Nodes some OCR thread has claimed, in the list or taken out of it.      *)
Claimed == (1..pushed) \ NodesIn("NewAdd")

(* The inductive invariant: a node gives its number to one run, and that   *)
(* run is in the hands of one thread, or abandoned, or stored in one node. *)
RunInv ==
  /\ DOMAIN processList \cap DOMAIN saved = {}
  /\ \A w \in Busy : ResultOf(w) \in [name : Names, run : Claimed]
  /\ abandoned \subseteq [name : Names, run : Claimed]
  /\ \A i \in DoneNodes :
       /\ DoneEntry(i).res \in [name : Names, run : Claimed]
       /\ DoneEntry(i).res.name = DoneEntry(i).name
  /\ \A v, w \in Busy : wrun[v] = wrun[w] => v = w
  /\ \A w \in Busy : \A r \in abandoned : r.run # wrun[w]
  /\ \A w \in Busy : \A i \in DoneNodes : DoneEntry(i).res.run # wrun[w]
  /\ \A i, j \in DoneNodes : DoneEntry(i).res.run = DoneEntry(j).res.run => i = j

(***************************************************************************)
(* What a step does to the runs.  Every step is quiet, or claims a node,   *)
(* or stores a result, or abandons a run.                                  *)
(***************************************************************************)
SameDone(S) == \A i \in S : DoneEntry(i)' = DoneEntry(i)
SameNames(S) == \A i \in S : processList'[i].name = processList[i].name
SameRuns(S) == \A w \in S : wtask'[w] = wtask[w] /\ wrun'[w] = wrun[w]

Quiet ==
  /\ Claimed' = Claimed
  /\ Busy' = Busy /\ SameRuns(Busy)
  /\ abandoned' = abandoned
  /\ DoneNodes' = DoneNodes /\ SameDone(DoneNodes)
  /\ NodesIn("Processing")' = NodesIn("Processing")
  /\ SameNames(NodesIn("Processing"))
  /\ DOMAIN processList' \cap DOMAIN saved' = {}

Claims(w, i) ==
  /\ i \in NodesIn("NewAdd") /\ \A j \in NodesIn("NewAdd") : i <= j
  /\ Claimed' = Claimed \cup {i}
  /\ w \notin Busy /\ Busy' = Busy \cup {w} /\ SameRuns(Busy)
  /\ wtask'[w] = processList[i].name /\ wrun'[w] = i
  /\ abandoned' = abandoned
  /\ DoneNodes' = DoneNodes /\ SameDone(DoneNodes)
  /\ NodesIn("Processing")' = NodesIn("Processing") \cup {i}
  /\ SameNames(NodesIn("Processing") \cup {i})
  /\ DOMAIN processList' \cap DOMAIN saved' = {}

Stores(w, i) ==
  /\ Claimed' = Claimed
  /\ w \in Busy /\ Busy' = Busy \ {w} /\ SameRuns(Busy \ {w})
  /\ abandoned' = abandoned
  /\ i \in NodesOf(wtask[w], "Processing")
  /\ i \notin DoneNodes
  /\ DoneNodes' = DoneNodes \cup {i} /\ SameDone(DoneNodes)
  /\ DoneEntry(i)' = [name |-> wtask[w], st |-> "Processed", res |-> ResultOf(w)]
  /\ NodesIn("Processing")' = NodesIn("Processing") \ {i}
  /\ SameNames(NodesIn("Processing") \ {i})
  /\ DOMAIN processList' \cap DOMAIN saved' = {}

Abandons(w) ==
  /\ Claimed' = Claimed
  /\ w \in Busy /\ Busy' = Busy \ {w} /\ SameRuns(Busy \ {w})
  /\ abandoned' = abandoned \cup {ResultOf(w)}
  /\ DoneNodes' = DoneNodes /\ SameDone(DoneNodes)
  /\ NodesIn("Processing")' = NodesIn("Processing")
  /\ SameNames(NodesIn("Processing"))
  /\ DOMAIN processList' \cap DOMAIN saved' = {}
-----------------------------------------------------------------------------
LEMMA BusyHasTask == TypeInv => Busy = {w \in OcrThreads : wtask[w] \in Names}
<1> SUFFICES ASSUME TypeInv, NEW w \in OcrThreads
             PROVE  wpc[w] # "idle" /\ wtask[w] # NoTask <=> wtask[w] \in Names
  BY DEF Busy
<1> QED
  BY SchedulerAssumption DEF SchedulerAssumption, TypeInv, TypeOK, TaskInHand

LEMMA BusyHasTaskNext ==
  TypeInv' => Busy' = {w \in OcrThreads : wtask'[w] \in Names}
<1>1. TypeInv' => (Busy = {w \in OcrThreads : wtask[w] \in Names})'
  BY BusyHasTask, PTL
<1> QED
  BY <1>1

(* A step that leaves the list, what was saved and the tasks in hand alone.*)
LEMMA IdleIsQuiet ==
  TypeInv /\ TypeInv' /\ RunInv
    /\ UNCHANGED <<processList, pushed, saved, wtask, wrun, abandoned>> => Quiet
<1> SUFFICES ASSUME TypeInv, TypeInv', RunInv,
                    UNCHANGED <<processList, pushed, saved, wtask, wrun, abandoned>>
             PROVE  Quiet
  OBVIOUS
<1>1. Busy' = Busy
  BY BusyHasTask, BusyHasTaskNext
<1>2. /\ NodesIn("NewAdd")' = NodesIn("NewAdd")
      /\ NodesIn("Processing")' = NodesIn("Processing")
      /\ NodesIn("Processed")' = NodesIn("Processed")
  BY DEF NodesIn
<1> QED
  BY <1>1, <1>2
  DEF Quiet, Claimed, RunInv, SameRuns, SameDone, SameNames, DoneNodes, DoneEntry

LEMMA PushIsQuiet ==
  ASSUME NEW c \in Clients, TypeInv, TypeInv', RunInv, AddTaskPush(c)
  PROVE  Quiet
<1> USE DEF TypeInv, TypeOK
<1>0. UNCHANGED <<wtask, wrun, abandoned, saved>>
  BY DEF AddTaskPush, workerVars, runVars
<1>1. Busy' = Busy
  BY <1>0, BusyHasTask, BusyHasTaskNext
<1>2. /\ pushed' = pushed + 1
      /\ DOMAIN processList' = DOMAIN processList \cup {pushed + 1}
      /\ \A i \in DOMAIN processList : processList'[i] = processList[i]
      /\ processList'[pushed + 1].st = "NewAdd"
      /\ pushed + 1 \notin DOMAIN processList \cup DOMAIN saved
      /\ pushed \in Nat
  BY DEF AddTaskPush
<1>3. /\ NodesIn("NewAdd")' = NodesIn("NewAdd") \cup {pushed + 1}
      /\ NodesIn("Processing")' = NodesIn("Processing")
      /\ NodesIn("Processed")' = NodesIn("Processed")
      /\ \A s : NodesIn(s) \subseteq DOMAIN processList
  BY <1>2 DEF NodesIn
<1>4. Claimed' = Claimed
  BY <1>2, <1>3 DEF Claimed
<1>5. DoneNodes' = DoneNodes /\ SameDone(DoneNodes)
  BY <1>0, <1>2, <1>3 DEF DoneNodes, SameDone, DoneEntry
<1> QED
  BY <1>0, <1>1, <1>2, <1>3, <1>4, <1>5 DEF Quiet, RunInv, SameRuns, SameNames

LEMMA SaveIsQuiet == TypeInv /\ TypeInv' /\ RunInv /\ SaveRecord => Quiet
<1> SUFFICES ASSUME TypeInv, TypeInv', RunInv, SaveRecord PROVE Quiet
  OBVIOUS
<1> USE DEF TypeInv, TypeOK
<1>0. UNCHANGED <<wtask, wrun, abandoned, pushed>>
  BY DEF SaveRecord, workerVars, runVars
<1>1. Busy' = Busy
  BY <1>0, BusyHasTask, BusyHasTaskNext
<1>2. PICK i \in DOMAIN processList :
        /\ processList[i].st = "Processed"
        /\ processList' = [j \in DOMAIN processList \ {i} |-> processList[j]]
        /\ saved' = [j \in DOMAIN saved \cup {i} |->
                       IF j = i THEN processList[i] ELSE saved[j]]
  BY DEF SaveRecord, IsFirst, NodesIn
<1>3. /\ DOMAIN processList' = DOMAIN processList \ {i}
      /\ \A j \in DOMAIN processList \ {i} : processList'[j] = processList[j]
      /\ DOMAIN saved' = DOMAIN saved \cup {i}
      /\ saved'[i] = processList[i]
      /\ \A j \in DOMAIN saved : j # i /\ saved'[j] = saved[j]
  BY <1>2 DEF RunInv
<1>4. /\ NodesIn("NewAdd")' = NodesIn("NewAdd")
      /\ NodesIn("Processing")' = NodesIn("Processing")
      /\ NodesIn("Processed")' = NodesIn("Processed") \ {i}
      /\ i \in NodesIn("Processed")
      /\ \A s : NodesIn(s) \subseteq DOMAIN processList
      /\ i \notin NodesIn("Processing")
  BY <1>2, <1>3 DEF NodesIn
<1>5. DoneNodes' = DoneNodes
  BY <1>3, <1>4 DEF DoneNodes
<1>6. SameDone(DoneNodes)
  BY <1>3, <1>4 DEF DoneNodes, SameDone, DoneEntry, RunInv
<1> QED
  BY <1>0, <1>1, <1>3, <1>4, <1>5, <1>6
  DEF Quiet, Claimed, RunInv, SameRuns, SameNames

LEMMA ClaimEffect ==
  ASSUME NEW w \in OcrThreads, TypeInv, TypeInv', RunInv, GetTaskClaim(w)
  PROVE  Quiet \/ \E i \in DOMAIN processList : Claims(w, i)
<1> USE DEF TypeInv, TypeOK
<1>1. UNCHANGED <<pushed, saved, abandoned>>
  BY DEF GetTaskClaim, runVars
<1>2. CASE UNCHANGED <<processList, wtask, wrun>>
  BY <1>1, <1>2, IdleIsQuiet
<1>3. ASSUME NEW i \in DOMAIN processList,
             IsFirst(i, NodesIn("NewAdd")),
             processList' = [processList EXCEPT ![i].st = "Processing"],
             wtask' = [wtask EXCEPT ![w] = processList[i].name],
             wrun' = [wrun EXCEPT ![w] = i]
      PROVE  Claims(w, i)
  <2>1. /\ DOMAIN processList' = DOMAIN processList
        /\ \A j \in DOMAIN processList : j # i => processList'[j] = processList[j]
        /\ processList'[i].st = "Processing"
        /\ processList'[i].name = processList[i].name
        /\ processList[i].name \in Names
        /\ i \in 1..pushed
        /\ processList[i].st = "NewAdd"
        /\ \A j \in NodesIn("NewAdd") : i <= j
    BY <1>3 DEF Entry, IsFirst, NodesIn
  <2>2. /\ NodesIn("NewAdd")' = NodesIn("NewAdd") \ {i}
        /\ i \in NodesIn("NewAdd")
        /\ NodesIn("Processing")' = NodesIn("Processing") \cup {i}
        /\ NodesIn("Processed")' = NodesIn("Processed")
        /\ i \notin NodesIn("Processed")
        /\ \A s : NodesIn(s) \subseteq DOMAIN processList
    BY <2>1 DEF NodesIn
  <2>3. /\ wtask'[w] = processList[i].name /\ wrun'[w] = i
        /\ \A v \in OcrThreads : v # w => wtask'[v] = wtask[v] /\ wrun'[v] = wrun[v]
    BY <1>3
  <2>4. w \notin Busy /\ Busy \subseteq OcrThreads
    BY DEF Busy, GetTaskClaim
  <2>5. Busy' = Busy \cup {w}
    BY <2>1, <2>3, BusyHasTask, BusyHasTaskNext
  <2>6. Claimed' = Claimed \cup {i}
    BY <1>1, <2>1, <2>2 DEF Claimed
  <2>7. DoneNodes' = DoneNodes /\ SameDone(DoneNodes)
    BY <1>1, <2>1, <2>2 DEF DoneNodes, SameDone, DoneEntry
  <2>8. SameRuns(Busy) /\ SameNames(NodesIn("Processing") \cup {i})
    BY <2>1, <2>2, <2>3, <2>4 DEF SameRuns, SameNames
  <2> QED
    BY <1>1, <2>1, <2>2, <2>3, <2>4, <2>5, <2>6, <2>7, <2>8 DEF Claims, RunInv
<1> QED
  BY <1>2, <1>3 DEF GetTaskClaim

LEMMA AbandonEffect ==
  ASSUME NEW w \in OcrThreads, TypeInv, TypeInv', RunInv, wtask[w] \in Names,
         EndRun(w), UNCHANGED <<processList, pushed, saved>>,
         abandoned' = abandoned \cup {ResultOf(w)}
  PROVE  Abandons(w)
<1> USE DEF TypeInv, TypeOK
<1>1. /\ NodesIn("NewAdd")' = NodesIn("NewAdd")
      /\ NodesIn("Processing")' = NodesIn("Processing")
      /\ NodesIn("Processed")' = NodesIn("Processed")
  BY DEF NodesIn
<1>2. /\ wtask'[w] = NoTask
      /\ \A v \in OcrThreads : v # w => wtask'[v] = wtask[v] /\ wrun'[v] = wrun[v]
  BY DEF EndRun
<1>3. w \in Busy /\ Busy' = Busy \ {w} /\ SameRuns(Busy \ {w})
  BY <1>2, BusyHasTask, BusyHasTaskNext, SchedulerAssumption
  DEF SameRuns, SchedulerAssumption
<1>4. DoneNodes' = DoneNodes /\ SameDone(DoneNodes)
  BY <1>1 DEF DoneNodes, SameDone, DoneEntry
<1> QED
  BY <1>1, <1>3, <1>4 DEF Abandons, Claimed, SameNames, RunInv

LEMMA StoreEffect ==
  ASSUME NEW w \in OcrThreads, TypeInv, TypeInv', RunInv, SubmitProcess(w),
         NodesOf(wtask[w], "Processing") # {}
  PROVE  \E i \in DOMAIN processList : Stores(w, i)
<1> USE DEF TypeInv, TypeOK
<1>1. /\ UNCHANGED <<pushed, saved, abandoned>>
      /\ EndRun(w)
      /\ wtask[w] \in Names
  BY DEF SubmitProcess, runVars, TaskInHand
<1> DEFINE new == [name |-> wtask[w], st |-> "Processed", res |-> ResultOf(w)]
<1>2. PICK i \in DOMAIN processList :
        /\ i \in NodesOf(wtask[w], "Processing")
        /\ processList' = [processList EXCEPT ![i] = new]
  BY DEF SubmitProcess, IsFirst
<1>3. /\ DOMAIN processList' = DOMAIN processList
      /\ \A j \in DOMAIN processList : j # i => processList'[j] = processList[j]
      /\ processList'[i] = new
      /\ new.st = "Processed"
      /\ processList[i].st = "Processing"
  BY <1>2 DEF NodesOf, NodesIn
<1> HIDE DEF new
<1>4. /\ NodesIn("NewAdd")' = NodesIn("NewAdd")
      /\ NodesIn("Processing")' = NodesIn("Processing") \ {i}
      /\ NodesIn("Processed")' = NodesIn("Processed") \cup {i}
      /\ i \notin NodesIn("Processed")
      /\ \A s : NodesIn(s) \subseteq DOMAIN processList
  BY <1>3 DEF NodesIn
<1>5. i \notin DoneNodes /\ i \notin DOMAIN saved
  BY <1>4 DEF DoneNodes, RunInv
<1>6. DoneNodes' = DoneNodes \cup {i} /\ SameDone(DoneNodes) /\ DoneEntry(i)' = new
  BY <1>1, <1>3, <1>4, <1>5 DEF DoneNodes, SameDone, DoneEntry
<1>7. /\ wtask'[w] = NoTask
      /\ \A v \in OcrThreads : v # w => wtask'[v] = wtask[v] /\ wrun'[v] = wrun[v]
  BY <1>1 DEF EndRun
<1>8. w \in Busy /\ Busy' = Busy \ {w} /\ SameRuns(Busy \ {w})
  BY <1>1, <1>7, BusyHasTask, BusyHasTaskNext, SchedulerAssumption
  DEF SameRuns, SchedulerAssumption
<1>9. SameNames(NodesIn("Processing") \ {i})
  BY <1>3, <1>4 DEF SameNames
<1>10. Claimed' = Claimed
  BY <1>1, <1>4 DEF Claimed
<1> QED
  BY <1>1, <1>2, <1>3, <1>4, <1>5, <1>6, <1>8, <1>9, <1>10
  DEF Stores, RunInv, new
-----------------------------------------------------------------------------
(* SubmitTask always finds a node of its name that is still Processing.    *)
LEMMA SubmitFindsNode ==
  ASSUME NEW w \in Busy, RunsMatchNodes
  PROVE  NodesOf(wtask[w], "Processing") # {}
<1>1. ResultOf(w) \in OpenRuns /\ ResultOf(w).name = wtask[w]
  BY DEF OpenRuns, ResultOf
<1>2. PICK f \in [OpenRuns -> NodesIn("Processing")] :
        \A r \in OpenRuns : processList[f[r]].name = r.name
  BY DEF RunsMatchNodes
<1> QED
  BY <1>1, <1>2 DEF NodesOf

LEMMA RunEffects ==
  ASSUME TypeInv, TypeInv', RunInv, RunsMatchNodes, [Next]_vars
  PROVE  \/ Quiet
         \/ \E w \in OcrThreads :
              \/ \E i \in DOMAIN processList : Claims(w, i) \/ Stores(w, i)
              \/ Abandons(w)
<1> USE DEF runVars, clientVars, workerVars
<1>1. ASSUME NEW c \in Clients, ClientStep(c) PROVE Quiet
  <2>1. CASE AddTaskPush(c)
    BY <2>1, PushIsQuiet
  <2>2. CASE ~AddTaskPush(c)
    <3>1. UNCHANGED <<processList, pushed, saved, wtask, wrun, abandoned>>
      BY <1>1, <2>2
      DEF ClientStep, AddTaskCheck, AddTaskInsert, GetResult, CloseTask,
          SendFails, EndGet
    <3> QED
      BY <3>1, IdleIsQuiet
  <2> QED
    BY <2>1, <2>2
<1>2. ASSUME NEW w \in OcrThreads,
             GetTaskMark(w) \/ StartRun(w) \/ SubmitAccept(w)
      PROVE  Quiet
  <2>1. UNCHANGED <<processList, pushed, saved, wtask, wrun, abandoned>>
    BY <1>2 DEF GetTaskMark, StartRun, SubmitAccept
  <2> QED
    BY <2>1, IdleIsQuiet
<1>3. ASSUME NEW w \in OcrThreads, SubmitProcess(w)
      PROVE  \E i \in DOMAIN processList : Stores(w, i)
  <2>1. wtask[w] \in Names
    BY <1>3 DEF SubmitProcess, TypeInv, TaskInHand
  <2>2. NodesOf(wtask[w], "Processing") # {}
    BY <2>1, BusyHasTask, SubmitFindsNode
  <2> QED
    BY <1>3, <2>2, StoreEffect
<1>4. ASSUME NEW w \in OcrThreads, OcrFails(w) PROVE Abandons(w)
  BY <1>4, AbandonEffect DEF OcrFails, TypeInv, TaskInHand
<1>5. CASE UNCHANGED vars
  BY <1>5, IdleIsQuiet DEF vars
<1> QED
  BY <1>1, <1>2, <1>3, <1>4, <1>5, ClaimEffect, SaveIsQuiet
  DEF Next, WorkerStep

LEMMA RunInvStep ==
  TypeInv /\ TypeInv' /\ RunInv /\ RunsMatchNodes /\ [Next]_vars => RunInv'
<1> SUFFICES ASSUME TypeInv, TypeInv', RunInv, RunsMatchNodes, [Next]_vars
             PROVE  RunInv'
  OBVIOUS
<1>1. Busy \subseteq OcrThreads
  BY DEF Busy
<1>2. CASE Quiet
  <2>1. \A w \in Busy : ResultOf(w)' = ResultOf(w) /\ wrun'[w] = wrun[w]
    BY <1>2 DEF Quiet, SameRuns, ResultOf
  <2>2. \A i \in DoneNodes : DoneEntry(i)' = DoneEntry(i)
    BY <1>2 DEF Quiet, SameDone
  <2> QED
    BY <1>2, <2>1, <2>2 DEF Quiet, RunInv
<1>3. ASSUME NEW w \in OcrThreads, NEW i \in DOMAIN processList, Claims(w, i)
      PROVE  RunInv'
  <2>1. \A v \in Busy : ResultOf(v)' = ResultOf(v) /\ wrun'[v] = wrun[v]
    BY <1>3 DEF Claims, SameRuns, ResultOf
  <2>2. \A j \in DoneNodes : DoneEntry(j)' = DoneEntry(j)
    BY <1>3 DEF Claims, SameDone
  <2>3. /\ ResultOf(w)' = [name |-> processList[i].name, run |-> i]
        /\ wrun'[w] = i
        /\ i \notin Claimed /\ i \in Claimed'
        /\ processList[i].name \in Names
    BY <1>3 DEF Claims, ResultOf, Claimed, TypeInv, TypeOK, Entry
  <2>4. /\ \A v \in Busy : wrun[v] \in Claimed
        /\ \A r \in abandoned : r.run \in Claimed
        /\ \A j \in DoneNodes : DoneEntry(j).res.run \in Claimed
    BY DEF RunInv, ResultOf
  <2> QED
    BY <1>3, <2>1, <2>2, <2>3, <2>4 DEF Claims, RunInv
<1>4. ASSUME NEW w \in OcrThreads, NEW i \in DOMAIN processList, Stores(w, i)
      PROVE  RunInv'
  <2>1. /\ \A v \in Busy' : ResultOf(v)' = ResultOf(v) /\ wrun'[v] = wrun[v]
        /\ w \in Busy /\ Busy' = Busy \ {w}
    BY <1>4 DEF Stores, SameRuns, ResultOf
  <2>2. \A j \in DoneNodes : DoneEntry(j)' = DoneEntry(j)
    BY <1>4 DEF Stores, SameDone
  <2>3. /\ (DoneEntry(i)').res = ResultOf(w)
        /\ (DoneEntry(i)').name = wtask[w]
        /\ ResultOf(w).name = wtask[w] /\ ResultOf(w).run = wrun[w]
        /\ DoneNodes' = DoneNodes \cup {i}
    BY <1>4 DEF Stores, ResultOf
  <2>4. Claimed' = Claimed /\ abandoned' = abandoned
        /\ DOMAIN processList' \cap DOMAIN saved' = {}
    BY <1>4 DEF Stores
  <2>5. \A j \in DoneNodes' :
          /\ (DoneEntry(j)').res \in [name : Names, run : Claimed']
          /\ (DoneEntry(j)').res.name = (DoneEntry(j)').name
    BY <2>1, <2>2, <2>3, <2>4 DEF RunInv
  <2>6. \A j, k \in DoneNodes' :
          (DoneEntry(j)').res.run = (DoneEntry(k)').res.run => j = k
    BY <2>1, <2>2, <2>3 DEF RunInv
  <2>7. \A v \in Busy' : \A j \in DoneNodes' : (DoneEntry(j)').res.run # wrun'[v]
    BY <2>1, <2>2, <2>3 DEF RunInv
  <2> QED
    BY <2>1, <2>4, <2>5, <2>6, <2>7 DEF RunInv
<1>5. ASSUME NEW w \in OcrThreads, Abandons(w) PROVE RunInv'
  <2>1. /\ \A v \in Busy' : ResultOf(v)' = ResultOf(v) /\ wrun'[v] = wrun[v]
        /\ w \in Busy /\ Busy' = Busy \ {w}
    BY <1>5 DEF Abandons, SameRuns, ResultOf
  <2>2. \A j \in DoneNodes : DoneEntry(j)' = DoneEntry(j)
    BY <1>5 DEF Abandons, SameDone
  <2>3. ResultOf(w).run = wrun[w]
    BY DEF ResultOf
  <2> QED
    BY <1>5, <2>1, <2>2, <2>3 DEF Abandons, RunInv
<1> QED
  BY <1>2, <1>3, <1>4, <1>5, RunEffects
-----------------------------------------------------------------------------
(* A witness for RunsMatchNodes.                                           *)
Match(f) ==
  /\ f \in [OpenRuns -> NodesIn("Processing")]
  /\ \A r \in OpenRuns : processList[f[r]].name = r.name
  /\ \A r, s \in OpenRuns : f[r] = f[s] => r = s
  /\ \A i \in NodesIn("Processing") : \E r \in OpenRuns : f[r] = i

(* A witness for RunsMatchNodes in the next state.                         *)
MatchNext(g) ==
  /\ g \in [OpenRuns' -> NodesIn("Processing")']
  /\ \A r \in OpenRuns' : processList'[g[r]].name = r.name
  /\ \A r, s \in OpenRuns' : g[r] = g[s] => r = s
  /\ \A i \in NodesIn("Processing")' : \E r \in OpenRuns' : g[r] = i

LEMMA MatchStep ==
  TypeInv /\ TypeInv' /\ RunInv /\ RunsMatchNodes /\ [Next]_vars => RunsMatchNodes'
<1> SUFFICES ASSUME TypeInv, TypeInv', RunInv, RunsMatchNodes, [Next]_vars
             PROVE  \E g : MatchNext(g)
  BY DEF MatchNext, RunsMatchNodes
<1>1. PICK f : Match(f)
  BY DEF Match, RunsMatchNodes
<1>2. \A v \in Busy : ResultOf(v) \in OpenRuns
  BY DEF OpenRuns
<1>3. CASE Quiet
  <2>1. OpenRuns' = OpenRuns
    BY <1>3 DEF OpenRuns, Quiet, SameRuns, ResultOf
  <2>2. MatchNext(f)
    BY <1>1, <1>3, <2>1 DEF Match, MatchNext, Quiet, SameNames
  <2> QED
    BY <2>2
<1>4. ASSUME NEW w \in OcrThreads, NEW i \in DOMAIN processList, Claims(w, i)
      PROVE  \E g : MatchNext(g)
  <2> DEFINE new == [name |-> processList[i].name, run |-> i]
             g == [r \in OpenRuns' |-> IF r = new THEN i ELSE f[r]]
  <2>1. OpenRuns' = OpenRuns \cup {new}
    BY <1>4 DEF Claims, OpenRuns, SameRuns, ResultOf
  <2>2. new \notin OpenRuns
    BY <1>4 DEF Claims, OpenRuns, ResultOf, RunInv, Claimed
  <2>3. i \notin NodesIn("Processing") /\ new.name = processList[i].name
    BY <1>4 DEF Claims, NodesIn
  <2>4. /\ NodesIn("Processing")' = NodesIn("Processing") \cup {i}
        /\ SameNames(NodesIn("Processing") \cup {i})
    BY <1>4 DEF Claims
  <2> HIDE DEF new
  <2>5. MatchNext(g)
    BY <1>1, <2>1, <2>2, <2>3, <2>4 DEF Match, MatchNext, SameNames
  <2> QED
    BY <2>5
<1>5. ASSUME NEW w \in OcrThreads, NEW i \in DOMAIN processList, Stores(w, i)
      PROVE  \E g : MatchNext(g)
  <2> DEFINE old == ResultOf(w)
             g == [r \in OpenRuns' |-> IF f[r] = i THEN f[old] ELSE f[r]]
  <2>1. old \in OpenRuns /\ old.name = wtask[w] /\ old.run = wrun[w] /\ w \in Busy
    BY <1>2, <1>5 DEF Stores, ResultOf
  <2>2. OpenRuns' = OpenRuns \ {old}
    <3>1. OpenRuns' = {ResultOf(v) : v \in Busy \ {w}} \cup abandoned
      BY <1>5 DEF Stores, OpenRuns, SameRuns, ResultOf
    <3>2. old \notin {ResultOf(v) : v \in Busy \ {w}} \cup abandoned
      BY <2>1 DEF RunInv, ResultOf
    <3> QED
      BY <3>1, <3>2 DEF OpenRuns
  <2>3. /\ i \in NodesIn("Processing") /\ processList[i].name = wtask[w]
        /\ NodesIn("Processing")' = NodesIn("Processing") \ {i}
        /\ \A j \in NodesIn("Processing") \ {i} :
             processList'[j].name = processList[j].name
    BY <1>5 DEF Stores, NodesOf, SameNames
  <2> HIDE DEF old
  <2>4. \A r \in OpenRuns' : f[r] = i => f[old] # i /\ r.name = old.name
    BY <1>1, <2>1, <2>2, <2>3 DEF Match
  <2>5. g \in [OpenRuns' -> NodesIn("Processing")']
    BY <1>1, <2>1, <2>2, <2>3, <2>4 DEF Match
  <2>6. \A r \in OpenRuns' : processList'[g[r]].name = r.name
    BY <1>1, <2>1, <2>2, <2>3, <2>4, <2>5 DEF Match
  <2>7. \A r, s \in OpenRuns' : g[r] = g[s] => r = s
    BY <1>1, <2>1, <2>2, <2>4 DEF Match
  <2>8. \A j \in NodesIn("Processing")' : \E r \in OpenRuns' : g[r] = j
    <3> SUFFICES ASSUME NEW j \in NodesIn("Processing"), j # i
                 PROVE  \E r \in OpenRuns' : g[r] = j
      BY <2>3
    <3>1. PICK s \in OpenRuns : f[s] = j
      BY <1>1 DEF Match
    <3>2. PICK t \in OpenRuns : f[t] = i
      BY <1>1, <2>3 DEF Match
    <3> QED
      BY <1>1, <2>1, <2>2, <3>1, <3>2 DEF Match
  <2>9. MatchNext(g)
    BY <2>5, <2>6, <2>7, <2>8 DEF MatchNext
  <2> QED
    BY <2>9
<1>6. ASSUME NEW w \in OcrThreads, Abandons(w) PROVE \E g : MatchNext(g)
  <2>1. OpenRuns' = OpenRuns
    BY <1>6 DEF OpenRuns, Abandons, SameRuns, ResultOf
  <2>2. MatchNext(f)
    BY <1>1, <1>6, <2>1 DEF Match, MatchNext, Abandons, SameNames
  <2> QED
    BY <2>2
<1> QED
  BY <1>3, <1>4, <1>5, <1>6, RunEffects
-----------------------------------------------------------------------------
(* DoneResults through a step.                                             *)
LEMMA DoneResultsNext ==
  ASSUME TypeInv, TypeInv', RunInv
  PROVE  /\ Quiet => DoneResults' = DoneResults
         /\ \A w \in OcrThreads :
              /\ \A i \in DOMAIN processList :
                   /\ Claims(w, i) => DoneResults' = DoneResults
                   /\ Stores(w, i) => DoneResults' = DoneResults \cup {ResultOf(w)}
              /\ Abandons(w) => DoneResults' = DoneResults
<1>1. ASSUME DoneNodes' = DoneNodes, SameDone(DoneNodes)
      PROVE  DoneResults' = DoneResults
  BY <1>1 DEF DoneResults, SameDone
<1>2. ASSUME NEW w \in OcrThreads, NEW i \in DOMAIN processList, Stores(w, i)
      PROVE  DoneResults' = DoneResults \cup {ResultOf(w)}
  <2>1. /\ DoneNodes' = DoneNodes \cup {i}
        /\ \A j \in DoneNodes : DoneEntry(j)' = DoneEntry(j)
        /\ (DoneEntry(i)').res = ResultOf(w)
        /\ i \notin DoneNodes
    BY <1>2 DEF Stores, SameDone
  <2> QED
    BY <2>1 DEF DoneResults
<1> QED
  BY <1>1, <1>2 DEF Quiet, Claims, Abandons

(* An OCR thread between the halves of SubmitTask is busy.                 *)
LEMMA SubmittingIsBusy ==
  TypeInv => \A w \in OcrThreads : wpc[w] = "submit" => w \in Busy
  BY BusyHasTask DEF TypeInv, TaskInHand

(* What clients may see: DoneResults and Submitting together only grow,    *)
(* and only by SubmitAccept.                                               *)
Produced == DoneResults \cup Submitting

LEMMA ProducedNext ==
  ASSUME TypeInv, TypeInv', RunInv, RunsMatchNodes, [Next]_vars
  PROVE  \/ Produced' = Produced
         \/ \E w \in OcrThreads :
              /\ SubmitAccept(w)
              /\ Produced' = Produced \cup {ResultOf(w)}
<1> USE DEF TypeInv, TypeOK, runVars, clientVars, workerVars
<1> DEFINE Sub == {v \in OcrThreads : wpc[v] = "submit"}
<1>1. ASSUME Sub' = Sub, SameRuns(Sub) PROVE Submitting' = Submitting
  BY <1>1 DEF Submitting, SameRuns, ResultOf
<1>2. ASSUME UNCHANGED <<wpc, wtask, wrun>>, DoneResults' = DoneResults
      PROVE  Produced' = Produced
  BY <1>1, <1>2 DEF Produced, SameRuns
<1>3. ASSUME Quiet PROVE DoneResults' = DoneResults
  BY <1>3, DoneResultsNext
<1>4. ASSUME NEW c \in Clients, ClientStep(c) PROVE Produced' = Produced
  <2>1. UNCHANGED <<wpc, wtask, wrun>>
    BY <1>4 DEF ClientStep, AddTaskCheck, AddTaskInsert, AddTaskPush,
                GetResult, CloseTask, SendFails, EndGet
  <2>2. Quiet
    <3>1. CASE AddTaskPush(c)
      BY <3>1, PushIsQuiet
    <3>2. CASE ~AddTaskPush(c)
      BY <1>4, <3>2, IdleIsQuiet
      DEF ClientStep, AddTaskCheck, AddTaskInsert, GetResult, CloseTask,
          SendFails, EndGet
    <3> QED
      BY <3>1, <3>2
  <2> QED
    BY <1>2, <1>3, <2>1, <2>2
<1>5. ASSUME NEW w \in OcrThreads, GetTaskClaim(w) PROVE Produced' = Produced
  <2>1. Sub' = Sub /\ SameRuns(Sub)
    BY <1>5 DEF GetTaskClaim, SameRuns
  <2>2. DoneResults' = DoneResults
    BY <1>5, ClaimEffect, DoneResultsNext
  <2> QED
    BY <1>1, <2>1, <2>2 DEF Produced
<1>6. ASSUME NEW w \in OcrThreads, GetTaskMark(w) \/ StartRun(w)
      PROVE  Produced' = Produced
  <2>1. Sub' = Sub /\ SameRuns(Sub)
    BY <1>6 DEF GetTaskMark, StartRun, SameRuns
  <2>2. UNCHANGED <<processList, pushed, saved, wtask, wrun, abandoned>>
    BY <1>6 DEF GetTaskMark, StartRun
  <2> QED
    BY <1>1, <1>3, <2>1, <2>2, IdleIsQuiet DEF Produced
<1>7. ASSUME NEW w \in OcrThreads, SubmitAccept(w)
      PROVE  Produced' = Produced \cup {ResultOf(w)}
  <2>1. Sub' = Sub \cup {w} /\ UNCHANGED <<wtask, wrun>>
    BY <1>7 DEF SubmitAccept
  <2>2. Submitting' = Submitting \cup {ResultOf(w)}
    BY <2>1 DEF Submitting, ResultOf
  <2>3. UNCHANGED <<processList, pushed, saved, wtask, wrun, abandoned>>
    BY <1>7 DEF SubmitAccept
  <2> QED
    BY <1>3, <2>2, <2>3, IdleIsQuiet DEF Produced
<1>8. ASSUME NEW w \in OcrThreads, SubmitProcess(w) PROVE Produced' = Produced
  <2>1. /\ Sub' = Sub \ {w} /\ w \in Sub
        /\ \A v \in Sub \ {w} : ResultOf(v)' = ResultOf(v)
    BY <1>8 DEF SubmitProcess, EndRun, ResultOf
  <2>2. Submitting' \cup {ResultOf(w)} = Submitting
    BY <2>1 DEF Submitting
  <2>3. NodesOf(wtask[w], "Processing") # {}
    BY <2>1, SubmittingIsBusy, SubmitFindsNode
  <2>4. DoneResults' = DoneResults \cup {ResultOf(w)}
    BY <1>8, <2>3, StoreEffect, DoneResultsNext
  <2> QED
    BY <2>2, <2>4 DEF Produced
<1>9. ASSUME NEW w \in OcrThreads, OcrFails(w) PROVE Produced' = Produced
  <2>1. Sub' = Sub /\ SameRuns(Sub)
    BY <1>9 DEF OcrFails, EndRun, SameRuns
  <2>2. Abandons(w)
    BY <1>9, AbandonEffect DEF OcrFails, TaskInHand
  <2> QED
    BY <1>1, <2>1, <2>2, DoneResultsNext DEF Produced
<1>10. CASE SaveRecord
  BY <1>2, <1>3, <1>10, SaveIsQuiet DEF SaveRecord
<1>11. CASE UNCHANGED vars
  BY <1>2, <1>3, <1>11, IdleIsQuiet DEF vars
<1> QED
  BY <1>4, <1>5, <1>6, <1>7, <1>8, <1>9, <1>10, <1>11 DEF Next, WorkerStep
-----------------------------------------------------------------------------
LEMMA VisibleStep ==
  TypeInv /\ TypeInv' /\ RunInv /\ RunsMatchNodes /\ VisibleResultIsKept
    /\ [Next]_vars => VisibleResultIsKept'
<1> SUFFICES ASSUME TypeInv, TypeInv', RunInv, RunsMatchNodes,
                    VisibleResultIsKept, [Next]_vars,
                    NEW n \in Names, acceptMap'[n].st = "Processed"
             PROVE  acceptMap'[n].res.name = n /\ acceptMap'[n].res \in Produced'
  BY DEF VisibleResultIsKept, Produced
<1>1. Produced \subseteq Produced'
  BY ProducedNext
<1>2. CASE acceptMap'[n] = acceptMap[n]
  BY <1>1, <1>2 DEF VisibleResultIsKept, Produced
<1>3. CASE acceptMap'[n] # acceptMap[n]
  <2>1. PICK w \in OcrThreads : SubmitAccept(w) /\ wtask[w] = n
    <3>1. ASSUME NEW c \in Clients, ClientStep(c) PROVE FALSE
      BY <1>3, <3>1 DEF ClientStep, AddTaskCheck, AddTaskInsert, AddTaskPush,
                        GetResult, CloseTask, SendFails, EndGet, Absent,
                        TypeInv, TypeOK
    <3>2. ASSUME NEW w \in OcrThreads, GetTaskMark(w) PROVE FALSE
      BY <1>3, <3>2 DEF GetTaskMark, TypeInv, TypeOK, Slot
    <3>3. ASSUME NEW w \in OcrThreads, SubmitAccept(w) PROVE wtask[w] = n
      BY <1>3, <3>3 DEF SubmitAccept, TypeInv, TypeOK
    <3>4. ASSUME NEW w \in OcrThreads,
                 GetTaskClaim(w) \/ StartRun(w) \/ SubmitProcess(w) \/ OcrFails(w)
          PROVE  FALSE
      BY <1>3, <3>4 DEF GetTaskClaim, StartRun, SubmitProcess, OcrFails
    <3> QED
      BY <1>3, <3>1, <3>2, <3>3, <3>4 DEF Next, WorkerStep, SaveRecord, vars
  <2>2. acceptMap'[n] = [st |-> "Processed", res |-> ResultOf(w)]
    BY <1>3, <2>1 DEF SubmitAccept, TypeInv, TypeOK
  <2>3. ResultOf(w).name = n /\ w \in Busy
    BY <2>1, BusyHasTask DEF ResultOf
  <2>4. ResultOf(w) \in Produced'
    <3>1. wpc'[w] = "submit" /\ ResultOf(w)' = ResultOf(w)
      BY <2>1 DEF SubmitAccept, ResultOf, TypeInv, TypeOK
    <3> QED
      BY <3>1 DEF Produced, Submitting
  <2> QED
    BY <2>2, <2>3, <2>4
<1> QED
  BY <1>2, <1>3

LEMMA RunInit == Init => RunInv /\ RunsMatchNodes /\ VisibleResultIsKept
<1> SUFFICES ASSUME Init PROVE RunInv /\ RunsMatchNodes /\ VisibleResultIsKept
  OBVIOUS
<1>1. /\ Busy = {} /\ abandoned = {} /\ DOMAIN processList = {}
      /\ DOMAIN saved = {}
  BY DEF Init, Busy
<1>2. DoneNodes = {} /\ OpenRuns = {} /\ \A s : NodesIn(s) = {}
  BY <1>1 DEF DoneNodes, OpenRuns, NodesIn
<1>3. RunsMatchNodes
  <2> DEFINE f == [r \in {} |-> r]
  <2>1. f \in [OpenRuns -> NodesIn("Processing")]
    BY <1>2
  <2> QED
    BY <1>2, <2>1 DEF RunsMatchNodes
<1> QED
  BY <1>1, <1>2, <1>3 DEF Init, RunInv, VisibleResultIsKept, Absent

(* The inductive invariant of the scheduler.                               *)
SchedulerInv == TypeInv /\ RunInv /\ RunsMatchNodes /\ VisibleResultIsKept

LEMMA SchedulerInvariant == Spec => []SchedulerInv
<1>1. Init => SchedulerInv
  BY TypeInit, RunInit DEF SchedulerInv
<1>2. SchedulerInv /\ [Next]_vars => SchedulerInv'
  BY TypeStep, RunInvStep, MatchStep, VisibleStep DEF SchedulerInv
<1> QED
  BY <1>1, <1>2, PTL DEF Spec

(* Runs and Processing nodes always correspond one to one, whatever the    *)
(* number of OCR threads and however often a name is pushed.               *)
THEOREM RunsAndNodes == Spec => []RunsMatchNodes
<1>1. SchedulerInv => RunsMatchNodes
  BY DEF SchedulerInv
<1> QED
  BY <1>1, SchedulerInvariant, PTL

(* No result reaches two rows, and none reaches a row of another task.     *)
THEOREM ResultsOnce == Spec => []NoResultTwice
<1>1. SchedulerInv => NoResultTwice
  BY DEF SchedulerInv, RunInv, NoResultTwice
<1> QED
  BY <1>1, SchedulerInvariant, PTL

(* A result a client can see has a node of its own, or will get it when    *)
(* its OCR thread finishes SubmitTask.                                     *)
THEOREM VisibleIsKept == Spec => []VisibleResultIsKept
<1>1. SchedulerInv => VisibleResultIsKept
  BY DEF SchedulerInv
<1> QED
  BY <1>1, SchedulerInvariant, PTL
-----------------------------------------------------------------------------
(***************************************************************************)
(* The order of the list.                                                  *)
(***************************************************************************)
Prefix(S) == \A i \in S : 1..i \subseteq S

(* Nodes are claimed in the order of the list, and each claimed one is     *)
(* being run or is done.                                                   *)
ClaimedInOrder ==
  /\ Prefix(Claimed)
  /\ Claimed = NodesIn("Processing") \cup DoneNodes

(* With one OCR thread the list has no other Processing node than the one  *)
(* the thread has claimed, unless a run was abandoned.                     *)
OneRunInv ==
  abandoned = {} =>
    /\ NodesIn("Processing") = {wrun[w] : w \in Busy}
    /\ StoredWhereClaimed
    /\ Prefix(DoneNodes)
    /\ Prefix(DOMAIN saved)

LEMMA SetsOfNodes ==
  TypeInv => /\ \A s : NodesIn(s) \subseteq 1..pushed
             /\ DoneNodes \subseteq 1..pushed
             /\ Claimed \subseteq 1..pushed
             /\ pushed \in Nat
BY DEF TypeInv, TypeOK, NodesIn, DoneNodes, Claimed

LEMMA NodesOnce ==
  RunInv => DoneNodes \cap NodesIn("Processing") = {}
BY DEF RunInv, DoneNodes, NodesIn

LEMMA ClaimedStep ==
  ASSUME TypeInv, TypeInv', RunInv, RunsMatchNodes, ClaimedInOrder, [Next]_vars
  PROVE  ClaimedInOrder'
<1>1. ASSUME Claimed' = Claimed,
             (NodesIn("Processing") \cup DoneNodes)' = NodesIn("Processing") \cup DoneNodes
      PROVE  ClaimedInOrder'
  BY <1>1 DEF ClaimedInOrder, Prefix
<1>2. CASE Quiet
  BY <1>1, <1>2 DEF Quiet
<1>3. ASSUME NEW w \in OcrThreads, NEW i \in DOMAIN processList, Claims(w, i)
      PROVE  ClaimedInOrder'
  <2>1. /\ i \in NodesIn("NewAdd") /\ \A j \in NodesIn("NewAdd") : i <= j
        /\ Claimed' = Claimed \cup {i}
    BY <1>3 DEF Claims
  <2>2. i \in 1..pushed /\ pushed \in Nat
    BY <2>1, SetsOfNodes
  <2>3. 1..i \subseteq Claimed \cup {i}
    BY <2>1, <2>2 DEF Claimed
  <2>4. Prefix(Claimed)'
    BY <2>1, <2>3 DEF ClaimedInOrder, Prefix
  <2> QED
    BY <1>3, <2>1, <2>4 DEF ClaimedInOrder, Claims
<1>4. ASSUME NEW w \in OcrThreads, NEW i \in DOMAIN processList, Stores(w, i)
      PROVE  ClaimedInOrder'
  BY <1>1, <1>4 DEF Stores, NodesOf
<1>5. ASSUME NEW w \in OcrThreads, Abandons(w) PROVE ClaimedInOrder'
  BY <1>1, <1>5 DEF Abandons
<1> QED
  BY <1>2, <1>3, <1>4, <1>5, RunEffects

LEMMA SavedStep ==
  ASSUME TypeInv, TypeInv', RunInv, [Next]_vars, Prefix(DoneNodes), Prefix(DOMAIN saved)
  PROVE  Prefix(DOMAIN saved)'
<1>1. CASE UNCHANGED saved
  BY <1>1 DEF Prefix
<1>2. CASE SaveRecord
  <2>1. PICK i \in DOMAIN processList :
          /\ IsFirst(i, NodesIn("Processed"))
          /\ saved' = [j \in DOMAIN saved \cup {i} |->
                         IF j = i THEN processList[i] ELSE saved[j]]
    BY <1>2 DEF SaveRecord
  <2>2. i \in NodesIn("Processed") /\ \A j \in NodesIn("Processed") : i <= j
    BY <2>1 DEF IsFirst
  <2>3. i \in 1..pushed /\ pushed \in Nat
    BY <2>2, SetsOfNodes
  <2>4. 1..i \subseteq DOMAIN saved \cup NodesIn("Processed")
    BY <2>2 DEF Prefix, DoneNodes
  <2>5. 1..i \subseteq DOMAIN saved \cup {i}
    BY <2>2, <2>3, <2>4
  <2>6. DOMAIN saved' = DOMAIN saved \cup {i}
    BY <2>1
  <2> QED
    BY <2>5, <2>6 DEF Prefix
<1> QED
  BY <1>1, <1>2 DEF Next, ClientStep, WorkerStep, AddTaskCheck, AddTaskInsert,
     AddTaskPush, GetResult, CloseTask, SendFails, EndGet, GetTaskClaim,
     GetTaskMark, StartRun, SubmitAccept, SubmitProcess, OcrFails, vars

LEMMA OneRunStep ==
  ASSUME NEW w, OcrThreads = {w},
         TypeInv, TypeInv', RunInv, RunsMatchNodes, ClaimedInOrder, OneRunInv,
         [Next]_vars
  PROVE  OneRunInv'
<1> SUFFICES ASSUME abandoned' = {} PROVE OneRunInv'
  BY DEF OneRunInv
<1> DEFINE Runs == {wrun[v] : v \in Busy}
           Rest == NodesIn("Processing") = Runs /\ StoredWhereClaimed /\ Prefix(DoneNodes)
<1>1. abandoned = {}
  <2>1. abandoned \subseteq abandoned'
    BY DEF Next, ClientStep, WorkerStep, AddTaskCheck, AddTaskInsert,
       AddTaskPush, GetResult, CloseTask, SendFails, EndGet, GetTaskClaim,
       GetTaskMark, StartRun, SubmitAccept, SubmitProcess, OcrFails, SaveRecord,
       vars, workerVars, runVars
  <2> QED
    BY <2>1
<1>2. Rest /\ Prefix(DOMAIN saved)
  BY <1>1 DEF OneRunInv
<1>3. Prefix(DOMAIN saved)'
  BY <1>2, SavedStep
<1>4. Busy \subseteq {w}
  BY DEF Busy
<1>5. CASE Quiet
  <2>1. Runs' = Runs
    BY <1>5 DEF Quiet, SameRuns
  <2>2. StoredWhereClaimed'
    BY <1>2, <1>5 DEF Quiet, SameDone, StoredWhereClaimed
  <2> QED
    BY <1>2, <1>3, <1>5, <2>1, <2>2 DEF Quiet, OneRunInv, Prefix
<1>6. ASSUME NEW i \in DOMAIN processList, Claims(w, i) PROVE OneRunInv'
  <2>1. Busy = {} /\ Busy' = {w} /\ wrun'[w] = i
    BY <1>4, <1>6 DEF Claims
  <2>2. NodesIn("Processing")' = {i}
    BY <1>2, <1>6, <2>1 DEF Claims
  <2>3. StoredWhereClaimed'
    BY <1>2, <1>6 DEF Claims, SameDone, StoredWhereClaimed
  <2> QED
    BY <1>2, <1>3, <1>6, <2>1, <2>2, <2>3 DEF Claims, OneRunInv, Prefix
<1>7. ASSUME NEW i \in DOMAIN processList, Stores(w, i) PROVE OneRunInv'
  <2>1. Busy = {w} /\ Busy' = {}
    BY <1>4, <1>7 DEF Stores
  <2>2. NodesIn("Processing") = {i} /\ i = wrun[w]
    BY <1>2, <1>7, <2>1 DEF Stores, NodesOf
  <2>3. StoredWhereClaimed'
    <3>1. DoneEntry(i)'.res.run = i
      BY <1>7, <2>2 DEF Stores, ResultOf
    <3> QED
      BY <1>2, <1>7, <3>1 DEF Stores, SameDone, StoredWhereClaimed
  <2>4. Claimed = DoneNodes \cup {i} /\ Prefix(Claimed)
    BY <2>2 DEF ClaimedInOrder
  <2>5. Prefix(DoneNodes)'
    BY <1>7, <2>4 DEF Stores, Prefix
  <2> QED
    BY <1>3, <1>7, <2>1, <2>2, <2>3, <2>5 DEF Stores, OneRunInv
<1>8. CASE Abandons(w)
  BY <1>8 DEF Abandons
<1> QED
  BY <1>5, <1>6, <1>7, <1>8, RunEffects

LEMMA OrderInit == Init => ClaimedInOrder /\ OneRunInv
<1> SUFFICES ASSUME Init PROVE ClaimedInOrder /\ OneRunInv
  OBVIOUS
<1>1. Busy = {} /\ DOMAIN saved = {} /\ pushed = 0 /\ \A s : NodesIn(s) = {}
  BY DEF Init, Busy, NodesIn
<1>2. DoneNodes = {} /\ Claimed = {}
  BY <1>1 DEF DoneNodes, Claimed
<1> QED
  BY <1>1, <1>2 DEF ClaimedInOrder, OneRunInv, Prefix, StoredWhereClaimed

(* For any number of OCR threads tasks are begun in the order in which     *)
(* they were pushed (GetTask walks the list from its front).               *)
THEOREM BegunInOrder == Spec => []ClaimedInOrder
<1>1. SchedulerInv /\ SchedulerInv' /\ ClaimedInOrder /\ [Next]_vars => ClaimedInOrder'
  BY ClaimedStep DEF SchedulerInv
<1> QED
  BY <1>1, OrderInit, SchedulerInvariant, PTL DEF Spec

LEMMA OneThread ==
  ASSUME NEW w, OcrThreads = {w}
  PROVE  Spec => [](abandoned = {} => StoredWhereClaimed /\ RecordedInOrder)
<1>1. SchedulerInv /\ SchedulerInv' /\ ClaimedInOrder /\ OneRunInv /\ [Next]_vars
        => OneRunInv'
  BY OneRunStep DEF SchedulerInv
<1>2. OneRunInv => (abandoned = {} => StoredWhereClaimed /\ RecordedInOrder)
  BY DEF OneRunInv, RecordedInOrder, Prefix
<1> QED
  BY <1>1, <1>2, OrderInit, BegunInOrder, SchedulerInvariant, PTL DEF Spec

(* With one OCR thread a result is stored in the node whose claim started  *)
(* its run, until a recognition raises an exception.                       *)
THEOREM StoredAtClaim ==
  ASSUME NEW w, OcrThreads = {w}
  PROVE  Spec => [](abandoned = {} => StoredWhereClaimed)
<1>1. Spec => [](abandoned = {} => StoredWhereClaimed /\ RecordedInOrder)
  BY OneThread
<1> QED
  BY <1>1, PTL

(* With one OCR thread SaveRecord hands out the tasks in the order of      *)
(* AddTask and leaves none out, until a recognition raises an exception.   *)
THEOREM SavedInOrder ==
  ASSUME NEW w, OcrThreads = {w}
  PROVE  Spec => [](abandoned = {} => RecordedInOrder)
<1>1. Spec => [](abandoned = {} => StoredWhereClaimed /\ RecordedInOrder)
  BY OneThread
<1> QED
  BY <1>1, PTL

(* If no recognition raises an exception, no run is abandoned, and the two *)
(* theorems hold without the condition.                                    *)
LEMMA NothingAbandoned == ~OcrMayFail => (Spec => [](abandoned = {}))
<1> SUFFICES ASSUME ~OcrMayFail PROVE Spec => [](abandoned = {})
  OBVIOUS
<1>1. Init => abandoned = {}
  BY DEF Init
<1>2. abandoned = {} /\ [Next]_vars => (abandoned = {})'
  BY DEF Next, ClientStep, WorkerStep, AddTaskCheck, AddTaskInsert,
     AddTaskPush, GetResult, CloseTask, SendFails, EndGet, GetTaskClaim,
     GetTaskMark, StartRun, SubmitAccept, SubmitProcess, OcrFails, SaveRecord,
     vars, workerVars, runVars
<1> QED
  BY <1>1, <1>2, PTL DEF Spec

-----------------------------------------------------------------------------
(* A client that is inside a method uses a name of its own.                *)
OwnNames == \A c \in Clients : cpc[c] # "idle" => ctask[c] \in NamesOf[c]

(* A step is a step of one client, or changes nothing that a client has,   *)
(* and no slot that is Processed.                                          *)
LEMMA WhoseStep ==
  ASSUME TypeInv, [Next]_vars
  PROVE  \/ \E c \in Clients : ClientStep(c)
         \/ /\ UNCHANGED clientVars
            /\ \A n \in Names : acceptMap[n].st = "Processed" => acceptMap'[n] = acceptMap[n]
<1> USE DEF TypeInv, TypeOK, clientVars
<1>1. ASSUME NEW w \in OcrThreads, WorkerStep(w)
      PROVE  /\ UNCHANGED clientVars
             /\ \A n \in Names : acceptMap[n].st = "Processed" => acceptMap'[n] = acceptMap[n]
  <2>1. CASE GetTaskMark(w)
    BY <2>1 DEF GetTaskMark
  <2>2. CASE SubmitAccept(w)
    BY <2>2 DEF SubmitAccept
  <2>3. CASE GetTaskClaim(w) \/ StartRun(w) \/ SubmitProcess(w) \/ OcrFails(w)
    BY <2>3 DEF GetTaskClaim, StartRun, SubmitProcess, OcrFails
  <2> QED
    BY <1>1, <2>1, <2>2, <2>3 DEF WorkerStep
<1> QED
  BY <1>1 DEF Next, SaveRecord, vars

LEMMA ClosesStep ==
  ASSUME TypeInv, OwnNames, ClosesWhatItGot, [Next]_vars
  PROVE  OwnNames' /\ ClosesWhatItGot'
<1> USE DEF TypeInv, TypeOK, clientVars
<1> DEFINE Others(c, n) == \A d \in Clients \ {c} : n \notin NamesOf[d]
           Got(c) == acceptMap[ctask[c]] = [st |-> "Processed", res |-> cres[c]]
<1>1. ASSUME NEW d \in Clients, ClientStep(d)
      PROVE  OwnNames' /\ ClosesWhatItGot'
  <2>1. /\ \A c \in Clients \ {d} :
             cpc'[c] = cpc[c] /\ ctask'[c] = ctask[c] /\ cres'[c] = cres[c]
        /\ cpc'[d] # "idle" => ctask'[d] \in NamesOf[d]
    <3>1. ASSUME NEW n \in NamesOf[d], AddTaskCheck(d, n) \/ GetResult(d, n)
          PROVE  <2>1!1 /\ <2>1!2
      BY <3>1 DEF AddTaskCheck, GetResult
    <3>2. CASE AddTaskInsert(d) \/ AddTaskPush(d)
      BY <3>2 DEF AddTaskInsert, AddTaskPush, OwnNames
    <3>3. CASE CloseTask(d) \/ SendFails(d)
      BY <3>3 DEF CloseTask, SendFails, EndGet
    <3> QED
      BY <1>1, <3>1, <3>2, <3>3 DEF ClientStep
  <2>2. OwnNames'
    BY <2>1 DEF OwnNames
  <2> SUFFICES ASSUME NEW c \in Clients, cpc'[c] = "got", Others(c, ctask'[c])
               PROVE  Got(c)'
    BY <2>2 DEF ClosesWhatItGot
  <2>3. CASE c = d
    <3>1. PICK n \in NamesOf[d] : GetResult(d, n)
      BY <1>1, <2>3 DEF ClientStep, AddTaskCheck, AddTaskInsert, AddTaskPush,
                        CloseTask, SendFails, EndGet
    <3>2. /\ ctask'[c] = n /\ cres'[c] = acceptMap[n].res
          /\ acceptMap' = acceptMap /\ acceptMap[n].st = "Processed"
          /\ n \in Names
      BY <2>3, <3>1, SchedulerAssumption DEF GetResult, SchedulerAssumption
    <3>3. acceptMap[n] \in Slot
      BY <3>2
    <3> QED
      BY <3>2, <3>3 DEF Slot
  <2>4. CASE c # d
    <3>1. Got(c) /\ ctask'[c] = ctask[c] /\ cres'[c] = cres[c]
      BY <2>1, <2>4 DEF ClosesWhatItGot
    <3>2. ctask[c] \in Names
      BY <2>1, <2>4 DEF TaskInHand
    <3>3. cpc[d] # "idle" => ctask[d] # ctask[c]
      BY <2>1, <2>4 DEF OwnNames
    <3>4. acceptMap'[ctask[c]] = acceptMap[ctask[c]]
      <4>1. CASE AddTaskInsert(d)
        BY <3>2, <3>3, <4>1 DEF AddTaskInsert
      <4>2. CASE CloseTask(d)
        BY <3>2, <3>3, <4>2 DEF CloseTask
      <4> QED
        BY <1>1, <4>1, <4>2 DEF ClientStep, AddTaskCheck, AddTaskPush, GetResult, SendFails
    <3> QED
      BY <3>1, <3>4
  <2> QED
    BY <2>3, <2>4
<1>2. ASSUME UNCHANGED clientVars,
             \A n \in Names : acceptMap[n].st = "Processed" => acceptMap'[n] = acceptMap[n]
      PROVE  OwnNames' /\ ClosesWhatItGot'
  <2>1. OwnNames'
    BY <1>2 DEF OwnNames
  <2>2. ASSUME NEW c \in Clients, cpc[c] = "got", Others(c, ctask[c])
        PROVE  acceptMap'[ctask[c]] = [st |-> "Processed", res |-> cres[c]]
    <3>1. Got(c) /\ ctask[c] \in Names
      BY <2>2 DEF ClosesWhatItGot, TaskInHand
    <3> QED
      BY <1>2, <3>1
  <2> QED
    BY <1>2, <2>1, <2>2 DEF ClosesWhatItGot
<1> QED
  BY <1>1, <1>2, WhoseStep

(* CloseTask erases the very task whose result the client was given, when  *)
(* no other client uses the name: nothing the OCR threads do between       *)
(* GetResult and CloseTask replaces it.                                    *)
THEOREM ClosesOwn == Spec => []ClosesWhatItGot
<1>1. Init => OwnNames /\ ClosesWhatItGot
  BY DEF Init, OwnNames, ClosesWhatItGot
<1>2. TypeInv /\ OwnNames /\ ClosesWhatItGot /\ [Next]_vars
        => OwnNames' /\ ClosesWhatItGot'
  BY ClosesStep
<1> QED
  BY <1>1, <1>2, TypeInit, TypeStep, PTL DEF Spec
-----------------------------------------------------------------------------
(***************************************************************************)
(* The scheduler implements OcrService: the two copies of a task under two *)
(* mutexes look to clients like one.                                       *)
(***************************************************************************)
(* The names of the nodes and the runs stay within the bound of the model. *)
PushBound == pushed + Cardinality(Adding) <= MaxPush

(* A slot has a result exactly when it is Processed.                       *)
SlotResult ==
  \A n \in Names : acceptMap[n].st # "Processed" =>
    /\ acceptMap[n].st \in {"Absent", "NewAdd", "Processing"}
    /\ acceptMap[n].res = NoResult
-----------------------------------------------------------------------------
LEMMA AddingIsFinite == IsFiniteSet(Adding) /\ Cardinality(Adding) \in Nat
<1>1. Adding \in SUBSET Clients
  BY DEF Adding
<1> QED
  BY <1>1, SchedulerAssumption, FS_Subset, FS_CardinalityType
  DEF SchedulerAssumption

LEMMA PushBoundStep == TypeInv /\ PushBound /\ [Next]_vars => PushBound'
<1> SUFFICES ASSUME TypeInv, PushBound, [Next]_vars PROVE PushBound'
  OBVIOUS
<1> USE DEF TypeInv, TypeOK
<1>0. pushed \in Nat /\ MaxPush \in Nat
  BY SchedulerAssumption DEF SchedulerAssumption
<1>1. ASSUME NEW c \in Clients, NEW n \in NamesOf[c], AddTaskCheck(c, n)
      PROVE  PushBound'
  <2>1. Adding' = Adding \cup {c} /\ c \notin Adding /\ pushed' = pushed
    BY <1>1 DEF AddTaskCheck, Adding
  <2>2. Cardinality(Adding') = Cardinality(Adding) + 1
    BY <2>1, AddingIsFinite, FS_AddElement
  <2> QED
    BY <1>0, <1>1, <2>1, <2>2, AddingIsFinite DEF AddTaskCheck, PushBound
<1>2. ASSUME NEW c \in Clients, AddTaskPush(c) PROVE PushBound'
  <2>1. Adding' = Adding \ {c} /\ c \in Adding /\ pushed' = pushed + 1
    BY <1>2 DEF AddTaskPush, Adding
  <2>2. Cardinality(Adding') = Cardinality(Adding) - 1
    BY <2>1, AddingIsFinite, FS_RemoveElement
  <2> QED
    BY <1>0, <2>1, <2>2, AddingIsFinite DEF PushBound
<1>3. ASSUME NEW c \in Clients,
             \/ AddTaskInsert(c) \/ CloseTask(c) \/ SendFails(c)
             \/ \E n \in NamesOf[c] : GetResult(c, n)
      PROVE  PushBound'
  <2>1. Adding' = Adding /\ pushed' = pushed
    BY <1>3 DEF AddTaskInsert, CloseTask, SendFails, GetResult, EndGet, Adding
  <2> QED
    BY <2>1 DEF PushBound
<1>4. CASE UNCHANGED <<pushed, cpc>>
  BY <1>4 DEF PushBound, Adding
<1>5. ASSUME NEW w \in OcrThreads, WorkerStep(w) PROVE UNCHANGED <<pushed, cpc>>
  BY <1>5 DEF WorkerStep, GetTaskClaim, GetTaskMark, StartRun, SubmitAccept,
              SubmitProcess, OcrFails, clientVars
<1> QED
  BY <1>1, <1>2, <1>3, <1>4, <1>5
  DEF Next, ClientStep, SaveRecord, vars, clientVars

LEMMA SlotResultStep == TypeInv /\ SlotResult /\ [Next]_vars => SlotResult'
<1> SUFFICES ASSUME TypeInv, SlotResult, [Next]_vars PROVE SlotResult'
  OBVIOUS
<1> USE DEF TypeInv, TypeOK, SlotResult
<1>1. ASSUME NEW c \in Clients, ClientStep(c) PROVE SlotResult'
  BY <1>1 DEF ClientStep, AddTaskCheck, AddTaskInsert, AddTaskPush, GetResult,
              CloseTask, SendFails, EndGet, Absent
<1>2. ASSUME NEW w \in OcrThreads, GetTaskMark(w) PROVE SlotResult'
  BY <1>2 DEF GetTaskMark, Slot
<1>3. ASSUME NEW w \in OcrThreads, SubmitAccept(w) PROVE SlotResult'
  BY <1>3 DEF SubmitAccept
<1>4. CASE UNCHANGED acceptMap
  BY <1>4
<1> QED
  BY <1>1, <1>2, <1>3, <1>4
  DEF Next, WorkerStep, GetTaskClaim, StartRun, SubmitProcess, OcrFails,
      SaveRecord, vars

LEMMA BoundsInit == Init => PushBound /\ SlotResult
<1> SUFFICES ASSUME Init PROVE PushBound /\ SlotResult
  OBVIOUS
<1>1. Adding = {}
  BY DEF Init, Adding
<1>2. Cardinality(Adding) = 0
  BY <1>1, FS_EmptySet
<1> QED
  BY <1>2, SchedulerAssumption
  DEF SchedulerAssumption, Init, PushBound, SlotResult, Absent
-----------------------------------------------------------------------------
Recorded == {saved[i].res : i \in DOMAIN saved}
Results == [name : Names, run : 1..MaxPush]

FullInv == SchedulerInv /\ PushBound /\ SlotResult

LEMMA RunsAreResults ==
  FullInv => /\ \A w \in Busy : ResultOf(w) \in Results
             /\ DoneResults \subseteq Results
<1> SUFFICES ASSUME FullInv
             PROVE  /\ \A w \in Busy : ResultOf(w) \in Results
                    /\ DoneResults \subseteq Results
  OBVIOUS
<1>1. pushed <= MaxPush /\ pushed \in Nat /\ MaxPush \in Nat
  BY AddingIsFinite, SchedulerAssumption
  DEF FullInv, SchedulerInv, TypeInv, TypeOK, PushBound, SchedulerAssumption
<1>2. Claimed \subseteq 1..MaxPush
  BY <1>1 DEF Claimed
<1>3. [name : Names, run : Claimed] \subseteq Results
  BY <1>2 DEF Results
<1> QED
  BY <1>3 DEF FullInv, SchedulerInv, RunInv, DoneResults

(* The result of a run is new when SubmitAccept publishes it.              *)
LEMMA ResultIsNew ==
  ASSUME FullInv, NEW w \in OcrThreads, wpc[w] = "run"
  PROVE  w \in Busy /\ ResultOf(w) \notin Produced
<1> USE DEF FullInv, SchedulerInv, RunInv
<1>1. w \in Busy
  BY BusyHasTask DEF TypeInv, TaskInHand
<1>2. ResultOf(w) \notin DoneResults
  BY <1>1 DEF DoneResults, ResultOf
<1>3. ResultOf(w) \notin Submitting
  BY <1>1, SubmittingIsBusy DEF Submitting, ResultOf
<1> QED
  BY <1>1, <1>2, <1>3 DEF Produced

(* Only SaveRecord hands anything to the storage thread, and what it hands *)
(* over was produced and not handed over before.                           *)
LEMMA SaveEffect ==
  ASSUME FullInv, FullInv', SaveRecord
  PROVE  \E r \in Results :
           /\ r \in Produced \ Recorded
           /\ Recorded' = Recorded \cup {r}
           /\ Produced' = Produced
           /\ acceptMap' = acceptMap
<1> USE DEF FullInv, SchedulerInv
<1>1. PICK i \in DOMAIN processList :
        /\ processList[i].st = "Processed"
        /\ saved' = [j \in DOMAIN saved \cup {i} |->
                       IF j = i THEN processList[i] ELSE saved[j]]
  BY DEF SaveRecord, IsFirst, NodesIn
<1> DEFINE r == processList[i].res
<1>2. i \notin DOMAIN saved
  BY DEF RunInv
<1>3. Recorded' = Recorded \cup {r}
  BY <1>1, <1>2 DEF Recorded
<1>4. i \in DoneNodes /\ DoneEntry(i).res = r
  BY <1>1, <1>2 DEF DoneNodes, DoneEntry, NodesIn
<1>5. \A j \in DOMAIN saved : j \in DoneNodes /\ DoneEntry(j).res = saved[j].res
  BY DEF DoneNodes, DoneEntry
<1>6. r \notin Recorded
  BY <1>2, <1>4, <1>5 DEF Recorded, RunInv
<1>7. r \in DoneResults
  BY <1>4 DEF DoneResults
<1>8. r \in Produced /\ r \in Results
  BY <1>7, RunsAreResults DEF Produced
<1>9. DoneResults' = DoneResults
  BY SaveIsQuiet, DoneResultsNext
<1>10. Submitting' = Submitting /\ acceptMap' = acceptMap
  BY DEF SaveRecord, Submitting, ResultOf, workerVars
<1> QED
  BY <1>3, <1>6, <1>8, <1>9, <1>10 DEF Produced

(***************************************************************************)
(* Each step of the scheduler is a step of OcrService or a stutter.        *)
(***************************************************************************)
LEMMA MapStep ==
  ASSUME FullInv, FullInv', [Next]_vars
  PROVE  [Service!SvcNext]_(Service!svcVars)
<1> USE DEF FullInv, SchedulerInv, TypeInv, TypeOK
<1> DEFINE Mapped == <<acceptMap, Produced, Recorded>>
<1>1. ASSUME UNCHANGED Mapped PROVE UNCHANGED Service!svcVars
  BY <1>1 DEF Service!svcVars, Produced, Recorded
<1>2. ASSUME UNCHANGED saved PROVE Recorded' = Recorded
  BY <1>2 DEF Recorded
<1>3. ASSUME NEW n \in Names, Service!Accept(n) \/ Service!Start(n) \/ Service!Close(n)
      PROVE  Service!SvcNext
  BY <1>3 DEF Service!SvcNext
<1>4. ASSUME NEW c \in Clients, ClientStep(c)
      PROVE  [Service!SvcNext]_(Service!svcVars)
  <2>1. Produced' = Produced /\ Recorded' = Recorded
    <3>1. UNCHANGED <<wpc, saved>>
      BY <1>4 DEF ClientStep, AddTaskCheck, AddTaskInsert, AddTaskPush,
                  GetResult, CloseTask, SendFails, EndGet, workerVars
    <3>2. \A w \in OcrThreads : ~SubmitAccept(w)
      BY <3>1 DEF SubmitAccept
    <3> QED
      BY <1>2, <3>1, <3>2, ProducedNext
  <2>2. CASE UNCHANGED acceptMap
    BY <1>1, <2>1, <2>2
  <2>3. CASE /\ AddTaskInsert(c)
             /\ acceptMap[ctask[c]] = Absent
             /\ acceptMap' = [acceptMap EXCEPT ![ctask[c]] =
                                [st |-> "NewAdd", res |-> NoResult]]
    <3>1. ctask[c] \in Names
      BY <2>3 DEF AddTaskInsert, TaskInHand
    <3>2. Service!Accept(ctask[c])
      BY <2>1, <2>3 DEF Service!Accept, Service!Empty, Absent, Produced, Recorded
    <3> QED
      BY <1>3, <3>1, <3>2
  <2>4. CASE /\ CloseTask(c)
             /\ acceptMap[ctask[c]].st = "Processed"
             /\ acceptMap' = [acceptMap EXCEPT ![ctask[c]] = Absent]
    <3>1. ctask[c] \in Names
      BY <2>4 DEF CloseTask, TaskInHand
    <3>2. Service!Close(ctask[c])
      BY <2>1, <2>4 DEF Service!Close, Service!Empty, Absent, Produced, Recorded
    <3> QED
      BY <1>3, <3>1, <3>2
  <2> QED
    BY <1>4, <2>2, <2>3, <2>4
    DEF ClientStep, AddTaskCheck, AddTaskInsert, AddTaskPush, GetResult,
        CloseTask, SendFails
<1>5. ASSUME NEW w \in OcrThreads,
             GetTaskClaim(w) \/ StartRun(w) \/ SubmitProcess(w) \/ OcrFails(w)
      PROVE  UNCHANGED Service!svcVars
  <2>1. UNCHANGED <<acceptMap, saved>>
    BY <1>5 DEF GetTaskClaim, StartRun, SubmitProcess, OcrFails
  <2>2. \A v \in OcrThreads : ~SubmitAccept(v)
    <3> SUFFICES ASSUME NEW v \in OcrThreads, SubmitAccept(v) PROVE FALSE
      OBVIOUS
    <3>1. wpc[v] = "run" /\ wpc'[v] = "submit"
      BY DEF SubmitAccept
    <3>2. /\ wpc'[w] # "submit"
          /\ \A u \in OcrThreads \ {w} : wpc'[u] = wpc[u]
      BY <1>5 DEF GetTaskClaim, StartRun, SubmitProcess, OcrFails, EndRun
    <3> QED
      BY <3>1, <3>2
  <2> QED
    BY <1>1, <1>2, <2>1, <2>2, ProducedNext
<1>6. ASSUME NEW w \in OcrThreads, GetTaskMark(w)
      PROVE  [Service!SvcNext]_(Service!svcVars)
  <2>1. Produced' = Produced /\ Recorded' = Recorded
    <3>1. UNCHANGED saved /\ \A v \in OcrThreads : ~SubmitAccept(v)
      BY <1>6 DEF GetTaskMark, SubmitAccept
    <3> QED
      BY <1>2, <3>1, ProducedNext
  <2>2. CASE UNCHANGED acceptMap
    BY <1>1, <2>1, <2>2
  <2>3. CASE /\ wtask[w] \in Names
             /\ acceptMap[wtask[w]].st = "NewAdd"
             /\ acceptMap' = [acceptMap EXCEPT ![wtask[w]].st = "Processing"]
    <3>1. acceptMap[wtask[w]] = [st |-> "NewAdd", res |-> NoResult]
      <4>1. acceptMap[wtask[w]] \in Slot
        BY <2>3
      <4>2. acceptMap[wtask[w]].res = NoResult
        BY <2>3 DEF SlotResult
      <4> QED
        BY <2>3, <4>1, <4>2 DEF Slot
    <3>2. acceptMap' = [acceptMap EXCEPT ![wtask[w]] =
                          [st |-> "Processing", res |-> NoResult]]
      <4>1. [acceptMap[wtask[w]] EXCEPT !.st = "Processing"] =
              [st |-> "Processing", res |-> NoResult]
        BY <3>1
      <4> QED
        BY <2>3, <4>1
    <3>3. Service!Start(wtask[w])
      BY <2>1, <3>1, <3>2 DEF Service!Start, Produced, Recorded
    <3> QED
      BY <1>3, <2>3, <3>3
  <2> QED
    BY <1>6, <2>2, <2>3 DEF GetTaskMark
<1>7. ASSUME NEW w \in OcrThreads, SubmitAccept(w)
      PROVE  Service!SvcNext
  <2> DEFINE r == ResultOf(w)
  <2>1. r \notin Produced /\ r \in Results /\ r.name = wtask[w]
    BY <1>7, ResultIsNew, RunsAreResults DEF SubmitAccept, ResultOf
  <2>2. Recorded' = Recorded
    BY <1>2, <1>7 DEF SubmitAccept
  <2>3. Produced' = Produced \cup {r}
    <3>1. DoneResults' = DoneResults
      BY <1>7, IdleIsQuiet, DoneResultsNext DEF SubmitAccept, runVars
    <3>2. Submitting' = Submitting \cup {r}
      BY <1>7 DEF SubmitAccept, Submitting, ResultOf
    <3> QED
      BY <3>1, <3>2 DEF Produced
  <2>4. /\ acceptMap[r.name].st = "Processing" =>
             acceptMap' = [acceptMap EXCEPT ![r.name] =
                             [st |-> "Processed", res |-> r]]
        /\ acceptMap[r.name].st # "Processing" => acceptMap' = acceptMap
    BY <1>7, <2>1 DEF SubmitAccept
  <2> HIDE DEF r
  <2>5. Service!Finish(r)
    BY <2>1, <2>2, <2>3, <2>4 DEF Service!Finish, Produced, Recorded
  <2> QED
    BY <2>1, <2>5 DEF Service!SvcNext, Results
<1>8. ASSUME SaveRecord PROVE Service!SvcNext
  <2>1. PICK r \in Results :
          /\ r \in Produced \ Recorded
          /\ Recorded' = Recorded \cup {r}
          /\ Produced' = Produced
          /\ acceptMap' = acceptMap
    BY <1>8, SaveEffect
  <2>2. Service!Record(r)
    BY <2>1 DEF Service!Record, Produced, Recorded
  <2> QED
    BY <2>1, <2>2 DEF Service!SvcNext, Results
<1>9. CASE UNCHANGED vars
  <2>1. UNCHANGED <<acceptMap, saved>> /\ \A v \in OcrThreads : ~SubmitAccept(v)
    BY <1>9 DEF vars, workerVars, SubmitAccept
  <2> QED
    BY <1>1, <1>2, <2>1, ProducedNext
<1> QED
  BY <1>4, <1>5, <1>6, <1>7, <1>8, <1>9 DEF Next, WorkerStep

LEMMA MapInit == Init => Service!SvcInit
<1> SUFFICES ASSUME Init PROVE Service!SvcInit
  OBVIOUS
<1>1. DoneResults = {} /\ Submitting = {} /\ {saved[i].res : i \in DOMAIN saved} = {}
  BY DEF Init, DoneResults, DoneNodes, NodesIn, Submitting
<1> QED
  BY <1>1 DEF Init, Service!SvcInit, Service!Empty, Absent

(* The scheduler implements OcrService: whatever the interleaving of the   *)
(* critical sections, a client sees each name go through NewAdd,           *)
(* Processing and Processed in this order, its result never replaced, and  *)
(* every result is recorded at most once.                                  *)
THEOREM ImplementsService == Spec => ServiceSpec
<1>1. Init => FullInv
  BY TypeInit, RunInit, BoundsInit DEF FullInv, SchedulerInv
<1>2. FullInv /\ [Next]_vars => FullInv'
  BY TypeStep, RunInvStep, MatchStep, VisibleStep, PushBoundStep, SlotResultStep
  DEF FullInv, SchedulerInv
<1>3. FullInv /\ FullInv' /\ [Next]_vars => [Service!SvcNext]_(Service!svcVars)
  BY MapStep
<1> QED
  BY <1>1, <1>2, <1>3, MapInit, PTL DEF Spec, ServiceSpec, Service!SvcSpec
=============================================================================
