-------------------------- MODULE TaskScheduleProps --------------------------
(***************************************************************************)
(* What must hold of the scheduler: the two copies of a task may disagree  *)
(* while a method is between its critical sections, and these properties   *)
(* say how far.                                                            *)
(***************************************************************************)
EXTENDS TaskSchedule

(* Runs that have begun and whose result is not yet in the list: those in  *)
(* the hands of an OCR thread, and those an exception ended.               *)
OpenRuns == {ResultOf(w) : w \in Busy} \cup abandoned

(* Nodes whose run is over, still in the list or already saved.            *)
DoneNodes == NodesIn("Processed") \cup DOMAIN saved
DoneEntry(i) == IF i \in DOMAIN saved THEN saved[i] ELSE processList[i]
DoneResults == {DoneEntry(i).res : i \in DoneNodes}

(* Results clients can already see whose list node is not yet marked.      *)
Submitting == {ResultOf(w) : w \in {v \in OcrThreads : wpc[v] = "submit"}}

(* A task that waits in the map is not forgotten: some client is about to  *)
(* push a node for it, a node for it waits in the list, or an OCR thread   *)
(* has claimed one and is about to mark the slot (TaskSchedule.cpp: the    *)
(* three sections of AddTask against the two of GetTask).                  *)
WaitingIsAttended ==
  \A n \in Names : acceptMap[n].st = "NewAdd" =>
    \/ \E c \in Clients : cpc[c] = "push" /\ ctask[c] = n
    \/ NodesOf(n, "NewAdd") # {}
    \/ \E w \in OcrThreads : wpc[w] = "mark" /\ wtask[w] = n

(* A task that a client sees as Processing is run by some OCR thread that  *)
(* will still submit it, or its run ended in an exception.                 *)
ProcessingIsAttended ==
  \A n \in Names : acceptMap[n].st = "Processing" =>
    \/ \E w \in OcrThreads : wpc[w] \in {"start", "run"} /\ wtask[w] = n
    \/ \E r \in abandoned : r.name = n

(* The two together: from the insertion of its name to its result no task  *)
(* a client waits for is forgotten.                                        *)
NoTaskForgotten == WaitingIsAttended /\ ProcessingIsAttended

(* Runs and Processing nodes correspond one to one, name by name, although *)
(* SubmitTask looks its node up by name and two nodes can share a name.    *)
RunsMatchNodes ==
  \E f \in [OpenRuns -> NodesIn("Processing")] :
    /\ \A r \in OpenRuns : processList[f[r]].name = r.name
    /\ \A r, s \in OpenRuns : f[r] = f[s] => r = s
    /\ \A i \in NodesIn("Processing") : \E r \in OpenRuns : f[r] = i

(* No result is stored in two nodes, and a node holds a result of its own  *)
(* name: no row is lost to another task or written twice.                  *)
NoResultTwice ==
  /\ \A i \in DoneNodes : DoneEntry(i).res.name = DoneEntry(i).name
  /\ \A i, j \in DoneNodes : DoneEntry(i).res = DoneEntry(j).res => i = j

(* With the one OCR thread main.cpp starts, and no exception, SubmitTask    *)
(* stores a result in the very node GetTask claimed, although it looks for *)
(* the node by name.  A second OCR thread, or an abandoned run of the same *)
(* name, breaks it.                                                        *)
StoredWhereClaimed == \A i \in DoneNodes : DoneEntry(i).res.run = i

(* Under the same conditions tasks are recorded in the order in which they *)
(* were pushed, and none is left out.                                      *)
RecordedInOrder == \A i \in DOMAIN saved : 1..i \subseteq DOMAIN saved

(* A result a client can see is in the list, saved, or in the hands of the *)
(* OCR thread that has done the first half of SubmitTask.                  *)
VisibleResultIsKept ==
  \A n \in Names : acceptMap[n].st = "Processed" =>
    /\ acceptMap[n].res.name = n
    /\ acceptMap[n].res \in DoneResults \cup Submitting

(* A client that is about to close a task closes the one whose result it   *)
(* has just been given, if no other client uses the name.                  *)
ClosesWhatItGot ==
  \A c \in Clients :
    cpc[c] = "got" /\ (\A d \in Clients \ {c} : ctask[c] \notin NamesOf[d]) =>
      acceptMap[ctask[c]] = [st |-> "Processed", res |-> cres[c]]

(* Every result given to a client is recorded in the end.                  *)
DeliveredIsRecorded ==
  \A c \in Clients : \A n \in NamesOf[c] : \A k \in 1..MaxPush :
    (cres[c] = [name |-> n, run |-> k])
      ~> (\E i \in DOMAIN saved : saved[i].res = [name |-> n, run |-> k])

(* The scheduler implements OcrService.  A result is produced when the     *)
(* first half of SubmitTask publishes it.                                  *)
Service == INSTANCE OcrService WITH
  Results <- [name : Names, run : 1..MaxPush],
  slot <- acceptMap,
  produced <- DoneResults \cup Submitting,
  recorded <- {saved[i].res : i \in DOMAIN saved}

ServiceSpec == Service!SvcSpec
ServiceLive == Service!SvcLive

(* TaskSchedule.cpp:16, on the early return of AddTask: "the task is in    *)
(* the queue already, it is not added again".                              *)
NoUnfinishedTwice ==
  \A i, j \in NodesIn("NewAdd") \cup NodesIn("Processing") :
    processList[i].name = processList[j].name => i = j
=============================================================================
