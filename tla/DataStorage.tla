---------------------------- MODULE DataStorage ----------------------------
(***************************************************************************)
(* The records: the storage thread (DataStorage::Start), the table it      *)
(* inserts into, and the connection threads that select from it with       *)
(* GetSelect, all over one SQLite connection.                              *)
(*                                                                         *)
(* SQLite is external: its calls exclude each other and each may fail; a   *)
(* statement that reads sees rows that were inserted after it began, if it *)
(* has not come to the end.  The process may die at any point and start    *)
(* again with the rows it left.  Seconds in which nothing is stamped and   *)
(* nobody sleeps are not told apart.                                       *)
(***************************************************************************)
EXTENDS Naturals, Sequences

CONSTANTS
  Conns,      \* connection threads
  MaxTasks,   \* bound: tasks the recognition finishes
  MaxRuns,    \* bound: starts of the process
  MayFail     \* may calls of SQLite, and opening a result file, fail?

ASSUME StorageAssumption ==
  /\ MaxTasks \in Nat /\ MaxRuns \in Nat
  /\ MayFail \in BOOLEAN

VARIABLES
  clock,        \* the local time, in seconds
  runs, alive,  \* starts of the process; is it running?
  finished,     \* number of tasks finished; they are 1..finished
  processed,    \* the finished tasks in the scheduler, first to last
  \* the storage thread
  m_running, spc, hand, tt, slept,
  \* the database: does the table exist?  its rows, oldest first
  table, rows,
  \* history: tasks whose insertion failed, or that died with the process
  lost, gone,
  \* each connection thread in GetSelect
  cpc, selectState,
  cursor,       \* the row the statement is at
  ret,          \* the rows in the list of SelectByDT
  begun,        \* history: number of rows when the statement was prepared
  reply         \* the last reply: which rows it shows

sysVars == <<clock, runs, alive>>
taskVars == <<finished, processed>>
threadVars == <<m_running, spc, hand, tt, slept>>
dbVars == <<table, rows>>
lossVars == <<lost, gone>>
selectVars == <<cpc, selectState, cursor, ret, begun, reply>>
storageVars == <<sysVars, taskVars, threadVars, dbVars, lossVars, selectVars>>

NoTask == 0
NoReply == [to |-> 0, found |-> << >>, texts |-> << >>, shows |-> 0]
Elements(s) == {s[k] : k \in DOMAIN s}
Stored == {rows[k].task : k \in DOMAIN rows}
InHand == {hand} \ {NoTask}
-----------------------------------------------------------------------------
Quiet ==
  /\ cpc' = [c \in Conns |-> "recv"]
  /\ selectState' = [c \in Conns |-> 0]
  /\ cursor' = [c \in Conns |-> 0]
  /\ ret' = [c \in Conns |-> << >>]
  /\ begun' = [c \in Conns |-> 0]
  /\ reply' = [c \in Conns |-> NoReply]

StorageInit ==
  /\ clock = 1 /\ runs = 0 /\ alive = FALSE
  /\ finished = 0 /\ processed = << >>
  /\ m_running = FALSE /\ spc = "off" /\ hand = NoTask /\ tt = 0 /\ slept = 0
  /\ table = FALSE /\ rows = << >>
  /\ lost = {} /\ gone = {}
  /\ cpc = [c \in Conns |-> "recv"] /\ selectState = [c \in Conns |-> 0]
  /\ cursor = [c \in Conns |-> 0] /\ ret = [c \in Conns |-> << >>]
  /\ begun = [c \in Conns |-> 0] /\ reply = [c \in Conns |-> NoReply]

(* The process starts: the connection is opened, then the constructor of   *)
(* g_dataSaver creates the table; if that fails the exception is printed   *)
(* and the program goes on.  The user answers two questions before the     *)
(* thread runs, so the second of the last stamp is over.                   *)
Boot ==
  /\ ~alive /\ runs < MaxRuns
  /\ slept < clock
  /\ runs' = runs + 1
  /\ alive' = TRUE
  /\ table' \in {TRUE} \cup (IF MayFail THEN {table} ELSE {})
  /\ m_running' = TRUE /\ spc' = "top"
  /\ UNCHANGED <<clock, taskVars, hand, tt, slept, rows, lossVars, selectVars>>

(* The process ends, by an exception, by exit, or from outside: only the   *)
(* database stays.                                                         *)
Perish ==
  /\ alive' = FALSE
  /\ gone' = gone \cup Elements(processed) \cup InHand
  /\ processed' = << >> /\ hand' = NoTask /\ tt' = 0 /\ slept' = clock
  /\ m_running' = FALSE /\ spc' = "off"
  /\ Quiet
  /\ UNCHANGED <<clock, runs, finished, dbVars, lost>>

Tick ==
  /\ clock \in {slept, tt}
  /\ clock' = clock + 1
  /\ UNCHANGED <<runs, alive, taskVars, threadVars, dbVars, lossVars, selectVars>>

(* The recognition of a task ends: SubmitTask marks its node Processed.    *)
Finish ==
  /\ alive /\ finished < MaxTasks
  /\ finished' = finished + 1
  /\ processed' = Append(processed, finished + 1)
  /\ UNCHANGED <<sysVars, threadVars, dbVars, lossVars, selectVars>>

-----------------------------------------------------------------------------
(* The loop of Start: it asks m_running, takes one finished task from the  *)
(* scheduler, and sleeps for a second.  A round that finds no task changes *)
(* nothing.                                                                *)
LoopTop ==
  /\ alive /\ spc = "top"
  /\ spc' = IF m_running THEN "take" ELSE "ended"
  /\ UNCHANGED <<sysVars, taskVars, m_running, hand, tt, slept, dbVars, lossVars, selectVars>>

NothingToSave ==
  /\ alive /\ spc = "take" /\ processed = << >>
  /\ spc' = "top"
  /\ UNCHANGED <<sysVars, taskVars, m_running, hand, tt, slept, dbVars, lossVars, selectVars>>

(* Mutant: the task stays in the list of the scheduler.                    *)
SaveRecord_Stays ==
  /\ alive /\ spc = "take" /\ processed # << >>
  /\ hand' = Head(processed) /\ UNCHANGED processed
  /\ spc' = "stamp"
  /\ UNCHANGED <<sysVars, finished, m_running, tt, slept, dbVars, lossVars, selectVars>>

(* Mutant: the last task is taken.                                         *)
SaveRecord_Last ==
  /\ alive /\ spc = "take" /\ processed # << >>
  /\ hand' = processed[Len(processed)]
  /\ processed' = SubSeq(processed, 1, Len(processed) - 1)
  /\ spc' = "stamp"
  /\ UNCHANGED <<sysVars, finished, m_running, tt, slept, dbVars, lossVars, selectVars>>

SaveRecord ==
  /\ alive /\ spc = "take" /\ processed # << >>
  /\ hand' = Head(processed) /\ processed' = Tail(processed)
  /\ spc' = "stamp"
  /\ UNCHANGED <<sysVars, finished, m_running, tt, slept, dbVars, lossVars, selectVars>>

Stamp ==
  /\ alive /\ spc = "stamp"
  /\ tt' = clock
  /\ spc' = "insert"
  /\ UNCHANGED <<sysVars, taskVars, m_running, hand, slept, dbVars, lossVars, selectVars>>

Insert ==
  /\ alive /\ spc = "insert" /\ table
  /\ rows' = Append(rows, [task |-> hand, time |-> tt])
  /\ hand' = NoTask /\ tt' = 0 /\ slept' = clock
  /\ spc' = "sleep"
  /\ UNCHANGED <<sysVars, taskVars, m_running, table, lossVars, selectVars>>

(* Mutant: the exception ends the thread.                                  *)
InsertFails_Ends ==
  /\ alive /\ spc = "insert" /\ (MayFail \/ ~table)
  /\ lost' = lost \cup {hand}
  /\ hand' = NoTask /\ tt' = 0 /\ slept' = clock
  /\ spc' = "ended"
  /\ UNCHANGED <<sysVars, taskVars, m_running, dbVars, gone, selectVars>>

(* Preparing or executing the insertion throws; Insert prints it, and the  *)
(* task, which has left the scheduler, has no row.                         *)
InsertFails ==
  /\ alive /\ spc = "insert" /\ (MayFail \/ ~table)
  /\ lost' = lost \cup {hand}
  /\ hand' = NoTask /\ tt' = 0 /\ slept' = clock
  /\ spc' = "sleep"
  /\ UNCHANGED <<sysVars, taskVars, m_running, dbVars, gone, selectVars>>

(* Mutant: the thread does not sleep.                                      *)
Wake_AtOnce ==
  /\ alive /\ spc = "sleep"
  /\ spc' = "top"
  /\ UNCHANGED <<sysVars, taskVars, m_running, hand, tt, slept, dbVars, lossVars, selectVars>>

(* A second later.                                                         *)
Wake ==
  /\ alive /\ spc = "sleep" /\ slept < clock
  /\ spc' = "top"
  /\ UNCHANGED <<sysVars, taskVars, m_running, hand, tt, slept, dbVars, lossVars, selectVars>>

(* Another thread tells the loop to end.                                   *)
Stop ==
  /\ alive
  /\ m_running' = FALSE
  /\ UNCHANGED <<sysVars, taskVars, spc, hand, tt, slept, dbVars, lossVars, selectVars>>
-----------------------------------------------------------------------------
Goes(c, at) == cpc' = [cpc EXCEPT ![c] = at]

(* RequestSelect: the connection remembers the time the client asks for.   *)
RequestSelect(c, t) ==
  /\ alive /\ cpc[c] = "recv"
  /\ selectState' = [selectState EXCEPT ![c] = t]
  /\ reply' = [reply EXCEPT ![c] = NoReply]
  /\ UNCHANGED <<sysVars, taskVars, threadVars, dbVars, lossVars, cpc, cursor, ret, begun>>

(* GetSelect calls SelectByDT, which prepares its statement.               *)
PrepareSelect(c) ==
  /\ alive /\ cpc[c] = "recv" /\ table
  /\ begun' = [begun EXCEPT ![c] = Len(rows)]
  /\ reply' = [reply EXCEPT ![c] = NoReply]
  /\ Goes(c, "first")
  /\ UNCHANGED <<sysVars, taskVars, threadVars, dbVars, lossVars,
                 selectState, cursor, ret>>

Matching(c) == {k \in DOMAIN rows : k > cursor[c] /\ rows[k].time = selectState[c]}

(* Mutant: the step of begin is made twice, and its first row skipped.     *)
NextRow_SkipsFirst(c) ==
  /\ alive /\ cpc[c] \in {"first", "next"}
  /\ \E k \in Matching(c) :
       /\ \A j \in Matching(c) : k <= j
       /\ cursor' = [cursor EXCEPT ![c] = k]
       /\ ret' = IF cpc[c] = "first" THEN ret ELSE [ret EXCEPT ![c] = Append(@, k)]
  /\ Goes(c, "next")
  /\ UNCHANGED <<sysVars, taskVars, threadVars, dbVars, lossVars, selectState, begun, reply>>

(* A step of the statement finds the next row with that time.              *)
NextRow(c) ==
  /\ alive /\ cpc[c] \in {"first", "next"}
  /\ \E k \in Matching(c) :
       /\ \A j \in Matching(c) : k <= j
       /\ cursor' = [cursor EXCEPT ![c] = k]
       /\ ret' = [ret EXCEPT ![c] = Append(@, k)]
  /\ Goes(c, "next")
  /\ UNCHANGED <<sysVars, taskVars, threadVars, dbVars, lossVars, selectState, begun, reply>>

(* The statement is done.                                                  *)
NoMoreRows(c) ==
  /\ alive /\ cpc[c] \in {"first", "next"} /\ Matching(c) = {}
  /\ Goes(c, "read")
  /\ UNCHANGED <<sysVars, taskVars, threadVars, dbVars, lossVars,
                 selectState, cursor, ret, begun, reply>>

(* An exception of SQLite.  From the first step it leaves begin, which is  *)
(* noexcept; from elsewhere it is caught and SelectByDT ends without a     *)
(* return value: the caller uses and destroys a list that does not exist.  *)
(* Whether it still sends something or not, the process does not survive.  *)
SelectFails(c) ==
  /\ alive
  /\ \/ cpc[c] = "recv" /\ (MayFail \/ ~table)
     \/ cpc[c] \in {"first", "next"} /\ MayFail
  /\ Perish

(* Each row's result file is read into one buffer; a text that is not      *)
(* empty is also appended to displayStr.  What is sent is the buffer.      *)
Texts == {"text", "blank"} \cup (IF MayFail THEN {"error"} ELSE {})

Answer(c) ==
  /\ alive /\ cpc[c] = "read"
  /\ \E texts \in [DOMAIN ret[c] -> Texts] :
       LET empty == \A k \in DOMAIN texts : texts[k] = "blank"
       IN  reply' = [reply EXCEPT ![c] =
             [to |-> selectState[c], found |-> ret[c], texts |-> texts,
              shows |-> IF empty THEN 0 ELSE Len(ret[c])]]
  /\ cursor' = [cursor EXCEPT ![c] = 0]
  /\ ret' = [ret EXCEPT ![c] = << >>]
  /\ begun' = [begun EXCEPT ![c] = 0]
  /\ Goes(c, "recv")
  /\ UNCHANGED <<sysVars, taskVars, threadVars, dbVars, lossVars, selectState>>
-----------------------------------------------------------------------------
StorageStep ==
  \/ LoopTop \/ NothingToSave \/ SaveRecord \/ Stamp
  \/ Insert \/ InsertFails \/ Wake

SelectStep(c) == NextRow(c) \/ NoMoreRows(c) \/ Answer(c)

StorageNext ==
  \/ Boot \/ Tick \/ Finish \/ Stop \/ StorageStep
  \/ alive /\ Perish
  \/ \E c \in Conns :
       \/ \E t \in 1..clock : RequestSelect(c, t)
       \/ PrepareSelect(c) \/ SelectStep(c) \/ SelectFails(c)

StorageSpec == StorageInit /\ [][StorageNext]_storageVars

(* The sleep ends, the loop goes round, and a selection is carried on.     *)
FairStorageSpec ==
  /\ StorageSpec
  /\ WF_storageVars(StorageStep) /\ WF_storageVars(Tick)
  /\ \A c \in Conns : WF_storageVars(SelectStep(c))
-----------------------------------------------------------------------------
(* The types of the state of the storage thread, the table and the         *)
(* selections.                                                             *)
ThreadOK ==
  /\ clock \in Nat /\ runs \in 0..MaxRuns /\ alive \in BOOLEAN
  /\ finished \in 0..MaxTasks /\ processed \in Seq(Nat \ {0})
  /\ m_running \in BOOLEAN
  /\ spc \in {"off", "top", "take", "stamp", "insert", "sleep", "ended"}
  /\ alive <=> spc # "off"
  /\ spc \in {"stamp", "insert"} <=> hand # NoTask
  /\ hand \in Nat /\ tt \in 0..clock /\ slept \in 0..clock

RowsOK ==
  /\ table \in BOOLEAN /\ rows \in Seq([task : Nat, time : Nat])
  /\ lost \subseteq Nat /\ gone \subseteq Nat

SelectsOK ==
  /\ cpc \in [Conns -> {"recv", "first", "next", "read"}]
  /\ selectState \in [Conns -> 0..clock]
  /\ cursor \in [Conns -> 0..Len(rows)]
  /\ ret \in [Conns -> Seq(Nat)]
  /\ begun \in [Conns -> 0..Len(rows)]
  /\ reply \in [Conns -> [to : Nat, found : Seq(Nat), texts : Seq(Texts), shows : Nat]]

StorageTypeOK == ThreadOK /\ RowsOK /\ SelectsOK

(* Every finished task is in one place only: it waits in the scheduler, is *)
(* in the hands of the storage thread, has one row, or is lost, because    *)
(* its insertion failed or because the process ended before it.            *)
OneFate ==
  LET places == <<Elements(processed), InHand, Stored, lost, gone>> IN
  /\ UNION Elements(places) = 1..finished
  /\ \A j, k \in DOMAIN places : j # k => places[j] \cap places[k] = {}
  /\ \A j, k \in DOMAIN rows : rows[j].task = rows[k].task => j = k
  /\ \A j, k \in DOMAIN processed : processed[j] = processed[k] => j = k

(* Rows are in the order in which the tasks were finished, and no two have *)
(* the same time, across restarts too: the time is the key of a selection. *)
RowsInOrder ==
  \A j, k \in DOMAIN rows :
    j < k => rows[j].task < rows[k].task /\ rows[j].time < rows[k].time

(* A selection that comes to its end has found every row with its time     *)
(* that was there when it began, no row twice and no other, although the   *)
(* storage thread inserts into the table it steps through.                 *)
SelectsAll ==
  \A c \in Conns : cpc[c] = "read" =>
    /\ \A k \in 1..begun[c] :
         rows[k].time = selectState[c] => k \in Elements(ret[c])
    /\ \A j \in DOMAIN ret[c] : rows[ret[c][j]].time = selectState[c]
    /\ \A j, k \in DOMAIN ret[c] : j < k => ret[c][j] < ret[c][k]

(* GetSelect sends one buffer for the whole list: it shows every row that  *)
(* was found and has a text.                                               *)
ShowsEveryRow ==
  \A c \in Conns : \A k \in DOMAIN reply[c].texts :
    reply[c].texts[k] # "blank" => reply[c].shows = k

(* Unless the thread was told to end or the process ends, a finished task  *)
(* gets its row, or the loss of an insertion, and the next one its turn.   *)
EventuallyRecorded ==
  \A t \in 1..MaxTasks :
    t \in Elements(processed) ~> t \in Stored \cup lost \/ ~m_running
=============================================================================
