-------------------------- MODULE DataStorageProofs --------------------------
(***************************************************************************)
(* Proofs about the records, for every number of tasks, connections and    *)
(* starts of the process, with failures of SQLite and deaths at any step.  *)
(***************************************************************************)
EXTENDS DataStorage, SequenceTheorems, TLAPS

(* The tasks come in ascending order out of the scheduler: what waits      *)
(* there is younger than what the thread has in its hands, and that is     *)
(* younger than all that have met their fate.                              *)
Past == Stored \cup lost \cup gone

PlacesInv ==
  /\ \A k \in DOMAIN processed :
       /\ processed[k] \in 1..finished
       /\ \A t \in InHand \cup Past : t < processed[k]
       /\ \A j \in 1..(k - 1) : processed[j] < processed[k]
  /\ \A h \in InHand : \A t \in Past : t < h
  /\ 1..finished = Elements(processed) \cup InHand \cup Past
  /\ Stored \cap lost = {} /\ Stored \cap gone = {} /\ lost \cap gone = {}
  /\ \A j, k \in DOMAIN rows : j < k => rows[j].task < rows[k].task

(* The thread sleeps until the second of its last row is over, before it   *)
(* stamps the next one.                                                    *)
TimeInv ==
  /\ \A k \in DOMAIN rows : rows[k].time <= slept
  /\ \A j, k \in DOMAIN rows : j < k => rows[j].time < rows[k].time
  /\ spc \in {"top", "take", "stamp"} => slept < clock
  /\ spc = "insert" => slept < tt

(* The list of a selection holds the rows with its time up to the cursor.  *)
SelectInv ==
  \A c \in Conns :
    /\ cpc[c] = "recv" => cursor[c] = 0 /\ ret[c] = << >>
    /\ \A j \in DOMAIN ret[c] :
         ret[c][j] \in 1..cursor[c] /\ rows[ret[c][j]].time = selectState[c]
    /\ \A j, k \in DOMAIN ret[c] : j < k => ret[c][j] < ret[c][k]
    /\ \A k \in 1..cursor[c] : rows[k].time = selectState[c] => k \in Elements(ret[c])
    /\ cpc[c] = "read" =>
         \A k \in 1..begun[c] : rows[k].time = selectState[c] => k \in Elements(ret[c])

StorageInv ==
  StorageTypeOK /\ PlacesInv /\ TimeInv /\ SelectInv /\ ShowsEveryRow
-----------------------------------------------------------------------------
LEMMA AddLast ==
  ASSUME NEW S, NEW s \in Seq(S), NEW x \in S
  PROVE  /\ Append(s, x) \in Seq(S)
         /\ Len(s) \in Nat /\ Len(Append(s, x)) = Len(s) + 1
         /\ DOMAIN s = 1..Len(s) /\ DOMAIN Append(s, x) = 1..(Len(s) + 1)
         /\ \A k \in 1..Len(s) : Append(s, x)[k] = s[k]
         /\ Append(s, x)[Len(s) + 1] = x
         /\ \A k \in DOMAIN Append(s, x) : k \in DOMAIN s \/ k = Len(s) + 1
         /\ Elements(Append(s, x)) = Elements(s) \cup {x}
<1>1. /\ Append(s, x) \in Seq(S)
      /\ Len(s) \in Nat /\ Len(Append(s, x)) = Len(s) + 1
      /\ DOMAIN s = 1..Len(s) /\ DOMAIN Append(s, x) = 1..(Len(s) + 1)
      /\ \A k \in 1..Len(s) : Append(s, x)[k] = s[k]
      /\ Append(s, x)[Len(s) + 1] = x
  BY AppendProperties
<1>2. \A n \in Nat : \A k \in 1..(n + 1) : k \in 1..n \/ k = n + 1
  OBVIOUS
<1>3. \A k \in DOMAIN Append(s, x) : k \in DOMAIN s \/ k = Len(s) + 1
  BY <1>1, <1>2
<1>4. \A n \in Nat : n + 1 \in 1..(n + 1) /\ 1..n \subseteq 1..(n + 1)
  OBVIOUS
<1>5. Elements(Append(s, x)) = Elements(s) \cup {x}
  BY <1>1, <1>3, <1>4 DEF Elements
<1> QED BY <1>1, <1>3, <1>5

LEMMA TakeFirst ==
  ASSUME NEW S, NEW s \in Seq(S), s # << >>
  PROVE  /\ Head(s) = s[1] /\ Head(s) \in S /\ Tail(s) \in Seq(S)
         /\ 1 \in DOMAIN s /\ Len(s) \in Nat \ {0} /\ DOMAIN s = 1..Len(s)
         /\ DOMAIN Tail(s) = 1..(Len(s) - 1)
         /\ \A k \in DOMAIN Tail(s) : k + 1 \in DOMAIN s /\ Tail(s)[k] = s[k + 1]
         /\ Elements(s) = Elements(Tail(s)) \cup {Head(s)}
<1>1. /\ Head(s) = s[1] /\ Head(s) \in S /\ Tail(s) \in Seq(S)
      /\ Len(s) \in Nat \ {0} /\ DOMAIN s = 1..Len(s) /\ Len(Tail(s)) = Len(s) - 1
      /\ DOMAIN Tail(s) = 1..(Len(s) - 1)
  OBVIOUS
<1>2. \A k \in 1..(Len(s) - 1) : Tail(s)[k] = s[k + 1]
  OBVIOUS
<1>3. \A n \in Nat \ {0} : /\ 1 \in 1..n
                           /\ \A k \in 1..(n - 1) : k + 1 \in 1..n
                           /\ \A k \in 1..n : k # 1 => k - 1 \in 1..(n - 1) /\ (k - 1) + 1 = k
  OBVIOUS
<1>4. \A k \in DOMAIN s : k = 1 \/ (k - 1 \in DOMAIN Tail(s) /\ s[k] = Tail(s)[k - 1])
  BY <1>1, <1>2, <1>3
<1>5. \A k \in DOMAIN Tail(s) : k + 1 \in DOMAIN s /\ Tail(s)[k] = s[k + 1]
  BY <1>1, <1>2, <1>3
<1>6. Elements(s) = Elements(Tail(s)) \cup {Head(s)}
  <2>1. ASSUME NEW x \in Elements(s) PROVE x \in Elements(Tail(s)) \cup {Head(s)}
    <3>1. PICK k \in DOMAIN s : x = s[k]
      BY <2>1 DEF Elements
    <3> QED BY <1>1, <1>4, <3>1 DEF Elements
  <2>2. ASSUME NEW x \in Elements(Tail(s)) PROVE x \in Elements(s)
    BY <1>5, <2>2 DEF Elements
  <2>3. Head(s) \in Elements(s)
    BY <1>1, <1>3 DEF Elements
  <2> QED BY <2>1, <2>2, <2>3
<1> QED BY <1>1, <1>3, <1>5, <1>6

LEMMA NoElements == << >> \in Seq(Nat \ {0}) /\ DOMAIN << >> = {} /\ Elements(<< >>) = {}
BY DEF Elements
-----------------------------------------------------------------------------
(* The steps that do not touch a task, or a selection.                     *)
LEMMA TaskSteps ==
  ASSUME StorageNext
  PROVE  \/ UNCHANGED <<finished, processed, hand, rows, lost, gone>>
         \/ Finish \/ SaveRecord \/ Insert \/ InsertFails \/ Perish
<1>1. CASE Boot \/ Tick \/ Stop
  BY <1>1 DEF Boot, Tick, Stop, taskVars, threadVars, dbVars, lossVars
<1>2. CASE LoopTop \/ NothingToSave \/ Stamp \/ Wake
  BY <1>2 DEF LoopTop, NothingToSave, Stamp, Wake, taskVars, dbVars, lossVars
<1>3. ASSUME NEW c \in Conns,
             \/ \E t \in 1..clock : RequestSelect(c, t)
             \/ PrepareSelect(c) \/ SelectStep(c)
      PROVE  UNCHANGED <<finished, processed, hand, rows, lost, gone>>
  BY <1>3 DEF RequestSelect, PrepareSelect, SelectStep, NextRow, NoMoreRows, Answer,
     taskVars, threadVars, dbVars, lossVars
<1>4. ASSUME NEW c \in Conns, SelectFails(c) PROVE Perish
  BY <1>4 DEF SelectFails
<1> QED BY <1>1, <1>2, <1>3, <1>4 DEF StorageNext, StorageStep

LEMMA SelectSteps ==
  ASSUME StorageNext
  PROVE  \/ UNCHANGED <<rows, selectVars>>
         \/ Insert \/ Perish
         \/ \E c \in Conns : \/ \E t \in 1..clock : RequestSelect(c, t)
                             \/ PrepareSelect(c) \/ SelectStep(c)
<1>1. CASE Boot \/ Tick \/ Stop \/ Finish
  BY <1>1 DEF Boot, Tick, Stop, Finish, dbVars
<1>2. CASE LoopTop \/ NothingToSave \/ Stamp \/ Wake \/ SaveRecord \/ InsertFails
  BY <1>2 DEF LoopTop, NothingToSave, Stamp, Wake, SaveRecord, InsertFails, dbVars
<1>3. ASSUME NEW c \in Conns, SelectFails(c) PROVE Perish
  BY <1>3 DEF SelectFails
<1> QED BY <1>1, <1>2, <1>3 DEF StorageNext, StorageStep

(* The clock goes on, and rows are only added, behind the others.          *)
LEMMA Forward ==
  ASSUME ThreadOK, RowsOK, StorageNext
  PROVE  /\ clock \in Nat /\ clock' \in Nat /\ clock <= clock'
         /\ Len(rows) \in Nat /\ Len(rows') \in Nat /\ Len(rows) <= Len(rows')
         /\ DOMAIN rows = 1..Len(rows) /\ rows' \in Seq([task : Nat, time : Nat])
         /\ \A k \in DOMAIN rows : k \in DOMAIN rows' /\ rows'[k] = rows[k]
<1>1. clock \in Nat /\ Len(rows) \in Nat /\ DOMAIN rows = 1..Len(rows)
  BY DEF ThreadOK, RowsOK
<1>2. clock' \in {clock, clock + 1}
  BY DEF StorageNext, StorageStep, Boot, Tick, Stop, Finish, LoopTop, NothingToSave, Stamp,
     Wake, SaveRecord, Insert, InsertFails, Perish, RequestSelect, PrepareSelect, SelectStep,
     NextRow, NoMoreRows, Answer, SelectFails, sysVars
<1>3. CASE Insert
  <2>1. [task |-> hand, time |-> tt] \in [task : Nat, time : Nat]
    BY DEF ThreadOK
  <2>2. rows' = Append(rows, [task |-> hand, time |-> tt])
    BY <1>3 DEF Insert
  <2>3. \A n \in Nat : n <= n + 1 /\ 1..n \subseteq 1..(n + 1)
    OBVIOUS
  <2> QED BY <1>1, <1>2, <2>1, <2>2, <2>3, AddLast DEF RowsOK
<1>4. CASE ~Insert
  <2>1. rows' = rows
    BY <1>4, TaskSteps DEF Finish, SaveRecord, InsertFails, Perish, dbVars
  <2> QED BY <1>1, <1>2, <2>1 DEF RowsOK
<1> QED BY <1>3, <1>4
-----------------------------------------------------------------------------
LEMMA StorageInitial == StorageInit => StorageInv
<1> SUFFICES ASSUME StorageInit PROVE StorageInv
  OBVIOUS
<1>1. /\ processed = << >> /\ rows = << >> /\ lost = {} /\ gone = {}
      /\ hand = NoTask /\ finished = 0 /\ NoTask = 0
      /\ spc = "off" /\ clock = 1 /\ slept = 0 /\ tt = 0
      /\ reply = [c \in Conns |-> NoReply]
  BY DEF StorageInit, NoTask
<1>2. /\ << >> \in Seq(Nat) /\ << >> \in Seq([task : Nat, time : Nat])
      /\ << >> \in Seq(Texts) /\ Len(<< >>) = 0 /\ DOMAIN << >> = {}
  OBVIOUS
<1>3. ThreadOK /\ RowsOK
  <2>1. 0 \in 0..MaxTasks /\ 0 \in 0..MaxRuns /\ 0 \in 0..1 /\ << >> \in Seq(Nat \ {0})
    BY StorageAssumption
  <2> QED BY <1>2, <2>1 DEF StorageInit, ThreadOK, RowsOK, NoTask
<1>4. SelectsOK
  <2>1. NoReply \in [to : Nat, found : Seq(Nat), texts : Seq(Texts), shows : Nat]
    BY <1>2 DEF NoReply
  <2>2. 0 \in 0..clock /\ 0 \in 0..Len(rows)
    BY <1>1, <1>2
  <2> QED BY <1>1, <1>2, <2>1, <2>2 DEF StorageInit, SelectsOK
<1>5. PlacesInv
  <2>1. InHand = {} /\ Past = {} /\ Stored = {} /\ Elements(processed) = {} /\ 1..finished = {}
    BY <1>1, <1>2 DEF InHand, Past, Stored, Elements
  <2> QED BY <1>1, <1>2, <2>1 DEF PlacesInv
<1>6. TimeInv
  BY <1>1, <1>2 DEF TimeInv
<1>7. SelectInv
  <2>1. \A c \in Conns : /\ cpc[c] = "recv" /\ cursor[c] = 0 /\ ret[c] = << >>
                         /\ 1..cursor[c] = {}
    <3>1. 1..0 = {}
      OBVIOUS
    <3> QED BY <3>1 DEF StorageInit
  <2> QED BY <1>2, <2>1 DEF SelectInv
<1>8. ShowsEveryRow
  BY <1>1, <1>2 DEF ShowsEveryRow, NoReply
<1> QED BY <1>3, <1>4, <1>5, <1>6, <1>7, <1>8 DEF StorageInv, StorageTypeOK

LEMMA ThreadStep ==
  ASSUME ThreadOK, RowsOK, StorageNext
  PROVE  ThreadOK'
<1> USE DEF ThreadOK, NoTask
<1>0. clock \in Nat /\ clock \in 0..clock /\ 0 \in 0..clock /\ MaxRuns \in Nat /\ MaxTasks \in Nat
  BY StorageAssumption
<1>1. CASE Boot
  <2>1. runs + 1 \in 0..MaxRuns
    BY <1>0, <1>1 DEF Boot
  <2> QED BY <1>1, <2>1 DEF Boot, taskVars
<1>2. CASE Tick
  <2>1. clock' = clock + 1 /\ UNCHANGED <<runs, alive, taskVars, threadVars>>
    BY <1>2 DEF Tick
  <2>2. 0..clock \subseteq 0..clock' /\ clock' \in Nat
    BY <1>0, <2>1
  <2> QED BY <2>1, <2>2 DEF taskVars, threadVars
<1>3. CASE Finish
  <2>1. finished + 1 \in 0..MaxTasks /\ finished + 1 \in Nat \ {0}
    BY <1>0, <1>3 DEF Finish
  <2>2. processed' \in Seq(Nat \ {0})
    BY <1>3, <2>1, AddLast DEF Finish
  <2> QED BY <1>3, <2>1, <2>2 DEF Finish, sysVars, threadVars
<1>4. CASE LoopTop \/ NothingToSave \/ Wake \/ Stop
  BY <1>4 DEF LoopTop, NothingToSave, Wake, Stop, sysVars, taskVars
<1>5. CASE SaveRecord
  <2>1. processed' \in Seq(Nat \ {0}) /\ hand' = processed[1] /\ 1 \in DOMAIN processed
    BY <1>5, TakeFirst DEF SaveRecord
  <2>2. hand' \in Nat \ {0}
    BY <2>1
  <2>3. /\ UNCHANGED <<clock, runs, alive, finished, m_running, tt, slept>>
        /\ alive /\ spc' = "stamp"
    BY <1>5 DEF SaveRecord, sysVars
  <2> QED BY <2>1, <2>2, <2>3
<1>6. CASE Stamp
  BY <1>0, <1>6 DEF Stamp, sysVars, taskVars
<1>7. CASE Insert \/ InsertFails
  BY <1>0, <1>7 DEF Insert, InsertFails, sysVars, taskVars
<1>8. CASE Perish
  BY <1>0, <1>8, NoElements DEF Perish
<1>9. ASSUME NEW c \in Conns,
             \/ \E t \in 1..clock : RequestSelect(c, t)
             \/ PrepareSelect(c) \/ SelectStep(c) \/ SelectFails(c)
      PROVE  ThreadOK'
  <2>1. CASE SelectFails(c)
    BY <1>8, <2>1 DEF SelectFails
  <2>2. CASE ~SelectFails(c)
    BY <1>9, <2>2 DEF RequestSelect, PrepareSelect, SelectStep, NextRow, NoMoreRows, Answer,
       sysVars, taskVars, threadVars
  <2> QED BY <2>1, <2>2
<1> QED BY <1>1, <1>2, <1>3, <1>4, <1>5, <1>6, <1>7, <1>8, <1>9 DEF StorageNext, StorageStep

LEMMA RowsStep ==
  ASSUME ThreadOK, RowsOK, StorageNext
  PROVE  RowsOK'
<1> USE DEF RowsOK
<1>0. rows' \in Seq([task : Nat, time : Nat])
  BY Forward
<1>1. CASE Boot
  BY <1>0, <1>1 DEF Boot, lossVars
<1>2. CASE Tick \/ Finish \/ Stop
  BY <1>2 DEF Tick, Finish, Stop, dbVars, lossVars
<1>3. CASE StorageStep
  BY <1>0, <1>3 DEF StorageStep, LoopTop, NothingToSave, SaveRecord, Stamp, Insert, InsertFails,
     Wake, dbVars, lossVars, ThreadOK
<1>4. CASE Perish
  <2>1. Elements(processed) \subseteq Nat /\ InHand \subseteq Nat
    <3>1. \A k \in DOMAIN processed : processed[k] \in Nat
      BY DEF ThreadOK
    <3> QED BY <3>1 DEF Elements, InHand, ThreadOK
  <2> QED BY <1>4, <2>1 DEF Perish, dbVars
<1>5. ASSUME NEW c \in Conns,
             \/ \E t \in 1..clock : RequestSelect(c, t)
             \/ PrepareSelect(c) \/ SelectStep(c) \/ SelectFails(c)
      PROVE  RowsOK'
  <2>1. CASE SelectFails(c)
    BY <1>4, <2>1 DEF SelectFails
  <2>2. CASE ~SelectFails(c)
    BY <1>5, <2>2 DEF RequestSelect, PrepareSelect, SelectStep, NextRow, NoMoreRows, Answer,
       dbVars, lossVars
  <2> QED BY <2>1, <2>2
<1> QED BY <1>1, <1>2, <1>3, <1>4, <1>5 DEF StorageNext

(* Whatever the threads do, a connection's part of the state keeps its     *)
(* type while the table and the clock grow.                                *)
LEMMA SelectsStep ==
  ASSUME ThreadOK, RowsOK, SelectsOK, StorageNext
  PROVE  SelectsOK'
<1> USE DEF SelectsOK
<1>0. /\ 0..clock \subseteq 0..clock' /\ 0..Len(rows) \subseteq 0..Len(rows')
      /\ 0 \in 0..clock' /\ 0 \in 0..Len(rows') /\ 1..clock \subseteq 0..clock'
      /\ Len(rows) \in 0..Len(rows') /\ DOMAIN rows \subseteq 0..Len(rows')
      /\ DOMAIN rows \subseteq Nat
  <2>1. \A m, n \in Nat : m <= n => /\ 0..m \subseteq 0..n /\ 0 \in 0..n /\ 1..m \subseteq 0..n
                                    /\ m \in 0..n /\ 1..m \subseteq Nat
    OBVIOUS
  <2> QED BY <2>1, Forward
<1>a. << >> \in Seq(Nat) /\ << >> \in Seq(Texts)
  OBVIOUS
<1>b. NoReply \in [to : Nat, found : Seq(Nat), texts : Seq(Texts), shows : Nat]
  BY <1>a DEF NoReply
<1>1. CASE UNCHANGED selectVars
  <2>1. UNCHANGED <<cpc, selectState, cursor, ret, begun, reply>>
    BY <1>1 DEF selectVars
  <2>2. /\ selectState' \in [Conns -> 0..clock'] /\ cursor' \in [Conns -> 0..Len(rows')]
        /\ begun' \in [Conns -> 0..Len(rows')]
    BY <1>0, <2>1
  <2> QED BY <2>1, <2>2
<1>2. CASE Perish
  BY <1>0, <1>a, <1>b, <1>2 DEF Perish, Quiet
<1>3. ASSUME NEW c \in Conns, NEW t \in 1..clock, RequestSelect(c, t) PROVE SelectsOK'
  <2>1. t \in 0..clock'
    BY <1>0
  <2>2. /\ selectState' = [selectState EXCEPT ![c] = t] /\ reply' = [reply EXCEPT ![c] = NoReply]
        /\ UNCHANGED <<cpc, cursor, ret, begun>>
    BY <1>3 DEF RequestSelect
  <2>3. /\ selectState' \in [Conns -> 0..clock'] /\ cursor' \in [Conns -> 0..Len(rows')]
        /\ begun' \in [Conns -> 0..Len(rows')]
    BY <1>0, <2>1, <2>2
  <2> QED BY <1>b, <2>2, <2>3
<1>4. ASSUME NEW c \in Conns, PrepareSelect(c) PROVE SelectsOK'
  <2>1. /\ begun' = [begun EXCEPT ![c] = Len(rows)] /\ reply' = [reply EXCEPT ![c] = NoReply]
        /\ cpc' = [cpc EXCEPT ![c] = "first"] /\ UNCHANGED <<selectState, cursor, ret>>
    BY <1>4 DEF PrepareSelect, Goes
  <2>2. /\ selectState' \in [Conns -> 0..clock'] /\ cursor' \in [Conns -> 0..Len(rows')]
        /\ begun' \in [Conns -> 0..Len(rows')]
    BY <1>0, <2>1
  <2> QED BY <1>b, <2>1, <2>2
<1>5. ASSUME NEW c \in Conns, NextRow(c) PROVE SelectsOK'
  <2>1. PICK k \in Matching(c) : /\ cursor' = [cursor EXCEPT ![c] = k]
                                 /\ ret' = [ret EXCEPT ![c] = Append(@, k)]
    BY <1>5 DEF NextRow
  <2>2. /\ cpc' = [cpc EXCEPT ![c] = "next"] /\ UNCHANGED <<selectState, begun, reply>>
    BY <1>5 DEF NextRow, Goes
  <2>3. k \in 0..Len(rows') /\ k \in Nat
    BY <1>0, <2>1 DEF Matching
  <2>4. Append(ret[c], k) \in Seq(Nat)
    BY <2>3
  <2>5. /\ selectState' \in [Conns -> 0..clock'] /\ cursor' \in [Conns -> 0..Len(rows')]
        /\ begun' \in [Conns -> 0..Len(rows')]
    BY <1>0, <2>1, <2>2, <2>3
  <2>6. ret' \in [Conns -> Seq(Nat)]
    BY <2>1, <2>4
  <2> QED BY <2>2, <2>5, <2>6
<1>6. ASSUME NEW c \in Conns, NoMoreRows(c) PROVE SelectsOK'
  <2>1. /\ cpc' = [cpc EXCEPT ![c] = "read"]
        /\ UNCHANGED <<selectState, cursor, ret, begun, reply>>
    BY <1>6 DEF NoMoreRows, Goes
  <2>2. /\ selectState' \in [Conns -> 0..clock'] /\ cursor' \in [Conns -> 0..Len(rows')]
        /\ begun' \in [Conns -> 0..Len(rows')]
    BY <1>0, <2>1
  <2> QED BY <2>1, <2>2
<1>7. ASSUME NEW c \in Conns, Answer(c) PROVE SelectsOK'
  <2>1. /\ cpc' = [cpc EXCEPT ![c] = "recv"] /\ cursor' = [cursor EXCEPT ![c] = 0]
        /\ ret' = [ret EXCEPT ![c] = << >>] /\ begun' = [begun EXCEPT ![c] = 0]
        /\ UNCHANGED selectState
    BY <1>7 DEF Answer, Goes
  <2>2. PICK texts \in [DOMAIN ret[c] -> Texts] :
          LET empty == \A k \in DOMAIN texts : texts[k] = "blank"
          IN  reply' = [reply EXCEPT ![c] =
                [to |-> selectState[c], found |-> ret[c], texts |-> texts,
                 shows |-> IF empty THEN 0 ELSE Len(ret[c])]]
    BY <1>7 DEF Answer
  <2> DEFINE n == IF \A k \in DOMAIN texts : texts[k] = "blank" THEN 0 ELSE Len(ret[c])
  <2>3. Len(ret[c]) \in Nat /\ DOMAIN ret[c] = 1..Len(ret[c]) /\ n \in Nat
    OBVIOUS
  <2>4. texts \in Seq(Texts)
    BY <2>3
  <2>5. selectState[c] \in Nat
    <3>1. \A m \in Nat : 0..m \subseteq Nat
      OBVIOUS
    <3> QED BY <3>1 DEF ThreadOK
  <2>6. reply' = [reply EXCEPT ![c] = [to |-> selectState[c], found |-> ret[c], texts |-> texts,
                                       shows |-> n]]
    BY <2>2
  <2>7. reply' \in [Conns -> [to : Nat, found : Seq(Nat), texts : Seq(Texts), shows : Nat]]
    <3> HIDE DEF n
    <3> QED BY <2>3, <2>4, <2>5, <2>6
  <2>8. /\ selectState' \in [Conns -> 0..clock'] /\ cursor' \in [Conns -> 0..Len(rows')]
        /\ begun' \in [Conns -> 0..Len(rows')]
    BY <1>0, <2>1
  <2>9. ret' \in [Conns -> Seq(Nat)] /\ cpc' \in [Conns -> {"recv", "first", "next", "read"}]
    BY <1>a, <2>1
  <2> QED BY <2>7, <2>8, <2>9
<1>8. CASE Insert
  BY <1>1, <1>8 DEF Insert
<1> QED
  BY <1>1, <1>2, <1>3, <1>4, <1>5, <1>6, <1>7, <1>8, SelectSteps DEF SelectStep
-----------------------------------------------------------------------------
(* Appending a row adds its task to the tasks that have one.               *)
LEMMA RowAdded ==
  ASSUME ThreadOK, RowsOK, Insert
  PROVE  /\ Stored' = Stored \cup {hand} /\ hand \in Nat
         /\ Len(rows) \in Nat /\ DOMAIN rows = 1..Len(rows)
         /\ \A k \in DOMAIN rows : k \in DOMAIN rows' /\ rows'[k] = rows[k] /\ k < Len(rows) + 1
         /\ \A k \in DOMAIN rows' : k \in DOMAIN rows \/ k = Len(rows) + 1
         /\ rows'[Len(rows) + 1] = [task |-> hand, time |-> tt]
<1>1. [task |-> hand, time |-> tt] \in [task : Nat, time : Nat] /\ hand \in Nat
  BY DEF ThreadOK
<1>2. rows' = Append(rows, [task |-> hand, time |-> tt])
  BY DEF Insert
<1>3. /\ Len(rows) \in Nat /\ DOMAIN rows = 1..Len(rows) /\ DOMAIN rows' = 1..(Len(rows) + 1)
      /\ \A k \in 1..Len(rows) : rows'[k] = rows[k]
      /\ rows'[Len(rows) + 1] = [task |-> hand, time |-> tt]
      /\ \A k \in DOMAIN rows' : k \in DOMAIN rows \/ k = Len(rows) + 1
  BY <1>1, <1>2, AddLast DEF RowsOK
<1>4. \A n \in Nat : /\ n + 1 \in 1..(n + 1)
                     /\ \A k \in 1..n : k \in 1..(n + 1) /\ k < n + 1
  OBVIOUS
<1>5. Stored' = Stored \cup {hand}
  <2>1. \A k \in DOMAIN rows : k \in DOMAIN rows' /\ rows'[k].task = rows[k].task
    BY <1>3, <1>4
  <2>2. Len(rows) + 1 \in DOMAIN rows' /\ rows'[Len(rows) + 1].task = hand
    BY <1>3, <1>4
  <2> QED BY <1>3, <2>1, <2>2 DEF Stored
<1> QED BY <1>1, <1>3, <1>4, <1>5

LEMMA PlacesStep ==
  ASSUME ThreadOK, RowsOK, PlacesInv, StorageNext
  PROVE  PlacesInv'
<1> USE DEF PlacesInv
<1>0. /\ finished \in Nat /\ hand \in Nat /\ NoTask = 0
      /\ Len(processed) \in Nat /\ DOMAIN processed = 1..Len(processed)
      /\ \A k \in DOMAIN processed : processed[k] \in Nat \ {0} /\ processed[k] \in Elements(processed)
      /\ \A t \in InHand \cup Past \cup Elements(processed) : t \in 1..finished /\ t \in Nat
  <2>1. \A n \in Nat : 1..n \subseteq Nat
    OBVIOUS
  <2> QED BY <2>1, StorageAssumption DEF ThreadOK, NoTask, Elements
<1>1. CASE UNCHANGED <<finished, processed, hand, rows, lost, gone>>
  BY <1>1 DEF Stored, InHand, Past, Elements
<1>2. CASE Finish
  <2>1. /\ UNCHANGED <<hand, rows, lost, gone>> /\ finished' = finished + 1
        /\ processed' = Append(processed, finished + 1)
    BY <1>2 DEF Finish, threadVars, dbVars, lossVars
  <2>2. InHand' = InHand /\ Past' = Past /\ Stored' = Stored
    BY <2>1 DEF InHand, Past, Stored
  <2>3. finished + 1 \in Nat \ {0}
    BY <1>0
  <2>4. /\ DOMAIN processed' = 1..(Len(processed) + 1)
        /\ \A k \in 1..Len(processed) : processed'[k] = processed[k]
        /\ processed'[Len(processed) + 1] = finished + 1
        /\ \A k \in DOMAIN processed' : k \in DOMAIN processed \/ k = Len(processed) + 1
        /\ Elements(processed') = Elements(processed) \cup {finished + 1}
    BY <2>1, <2>3, AddLast DEF ThreadOK
  <2>5. \A n \in Nat : /\ 1..(n + 1) = 1..n \cup {n + 1}
                       /\ \A t \in 1..n : t < n + 1
                       /\ \A k \in 1..n : \A j \in 1..(k - 1) : j \in 1..n
                       /\ \A j \in 1..((n + 1) - 1) : j \in 1..n
    OBVIOUS
  <2>6. ASSUME NEW k \in DOMAIN processed'
        PROVE  /\ processed'[k] \in 1..finished'
               /\ \A t \in InHand' \cup Past' : t < processed'[k]
               /\ \A j \in 1..(k - 1) : processed'[j] < processed'[k]
    <3>1. CASE k \in DOMAIN processed
      <4>1. \A j \in 1..(k - 1) : processed'[j] = processed[j]
        <5>1. \A j \in 1..(k - 1) : j \in 1..Len(processed)
          BY <1>0, <2>5, <3>1
        <5> QED BY <2>4, <5>1
      <4>2. processed'[k] = processed[k]
        BY <1>0, <2>4, <3>1
      <4>3. processed[k] \in 1..finished'
        BY <1>0, <2>1, <2>5, <3>1
      <4> QED BY <2>2, <3>1, <4>1, <4>2, <4>3
    <3>2. CASE k = Len(processed) + 1
      <4>1. processed'[k] = finished + 1
        BY <2>4, <3>2
      <4>2. \A j \in 1..(k - 1) : processed'[j] = processed[j] /\ processed[j] \in 1..finished
        <5>1. \A j \in 1..(k - 1) : j \in 1..Len(processed)
          BY <1>0, <2>5, <3>2
        <5> QED BY <1>0, <2>4, <5>1
      <4>3. \A t \in InHand \cup Past : t < finished + 1
        BY <1>0, <2>5
      <4>4. \A j \in 1..(k - 1) : processed'[j] < finished + 1
        BY <1>0, <2>5, <4>2
      <4> QED BY <1>0, <2>1, <2>2, <2>5, <4>1, <4>3, <4>4
    <3> QED BY <2>4, <3>1, <3>2
  <2> QED BY <1>0, <2>1, <2>2, <2>4, <2>5, <2>6
<1>3. CASE SaveRecord
  <2>1. /\ UNCHANGED <<finished, rows, lost, gone>> /\ spc = "take" /\ processed # << >>
        /\ hand' = Head(processed) /\ processed' = Tail(processed)
    BY <1>3 DEF SaveRecord, dbVars, lossVars
  <2>2. InHand = {} /\ Past' = Past /\ Stored' = Stored
    BY <2>1 DEF InHand, Past, Stored, ThreadOK
  <2>3. /\ hand' = processed[1] /\ 1 \in DOMAIN processed
        /\ DOMAIN processed' = 1..(Len(processed) - 1)
        /\ \A k \in DOMAIN processed' : k + 1 \in DOMAIN processed /\ processed'[k] = processed[k + 1]
        /\ Elements(processed) = Elements(processed') \cup {hand'}
    BY <2>1, TakeFirst DEF ThreadOK
  <2>4. InHand' = {hand'}
    BY <1>0, <2>3 DEF InHand
  <2>5. \A n \in Nat : \A k \in 1..(n - 1) :
          /\ k + 1 \in 1..n /\ 1 \in 1..((k + 1) - 1)
          /\ \A j \in 1..(k - 1) : j \in 1..(n - 1) /\ j + 1 \in 1..((k + 1) - 1)
    OBVIOUS
  <2>6. ASSUME NEW k \in DOMAIN processed'
        PROVE  /\ processed'[k] \in 1..finished'
               /\ \A t \in InHand' \cup Past' : t < processed'[k]
               /\ \A j \in 1..(k - 1) : processed'[j] < processed'[k]
    <3>1. /\ k + 1 \in DOMAIN processed /\ processed'[k] = processed[k + 1]
          /\ 1 \in 1..((k + 1) - 1)
          /\ \A j \in 1..(k - 1) : /\ processed'[j] = processed[j + 1]
                                   /\ j + 1 \in 1..((k + 1) - 1)
      BY <1>0, <2>3, <2>5
    <3>2. hand' < processed[k + 1]
      BY <2>3, <3>1
    <3> QED BY <2>1, <2>2, <2>4, <3>1, <3>2
  <2>7. \A h \in InHand' : \A t \in Past' : t < h
    BY <2>2, <2>3, <2>4
  <2> QED BY <2>1, <2>2, <2>3, <2>4, <2>6, <2>7
<1>4. CASE Insert
  <2>1. /\ UNCHANGED <<finished, processed, lost, gone>> /\ hand' = NoTask /\ hand # NoTask
    BY <1>4 DEF Insert, taskVars, lossVars, ThreadOK
  <2>2. InHand = {hand} /\ InHand' = {} /\ Past' = Past \cup {hand}
    BY <1>4, <2>1, RowAdded DEF InHand, Past
  <2>3. hand \notin Past
    BY <1>0, <2>2
  <2>4. \A j, k \in DOMAIN rows' : j < k => rows'[j].task < rows'[k].task
    <3> SUFFICES ASSUME NEW j \in DOMAIN rows', NEW k \in DOMAIN rows', j < k
                 PROVE  rows'[j].task < rows'[k].task
      OBVIOUS
    <3>1. j \in DOMAIN rows
      BY <1>4, RowAdded
    <3>2. CASE k \in DOMAIN rows
      BY <1>4, <3>1, <3>2, RowAdded
    <3>3. CASE k = Len(rows) + 1
      <4>1. rows[j].task \in Past
        BY <3>1 DEF Past, Stored
      <4> QED BY <1>4, <2>2, <3>1, <3>3, <4>1, RowAdded
    <3> QED BY <1>4, <3>2, <3>3, RowAdded
  <2>5. Elements(processed') = Elements(processed)
    BY <2>1
  <2> QED BY <1>4, <2>1, <2>2, <2>3, <2>4, <2>5, RowAdded DEF Past
<1>5. CASE InsertFails
  <2>1. /\ UNCHANGED <<finished, processed, rows, gone>> /\ lost' = lost \cup {hand}
        /\ hand' = NoTask /\ hand # NoTask
    BY <1>5 DEF InsertFails, taskVars, dbVars, ThreadOK
  <2>2. InHand = {hand} /\ InHand' = {} /\ Stored' = Stored /\ Past' = Past \cup {hand}
    BY <2>1 DEF InHand, Past, Stored
  <2>3. hand \notin Past
    BY <1>0, <2>2
  <2>4. Elements(processed') = Elements(processed)
    BY <2>1
  <2> QED BY <2>1, <2>2, <2>3, <2>4 DEF Past
<1>6. CASE Perish
  <2>1. /\ UNCHANGED <<finished, rows, lost>> /\ processed' = << >> /\ hand' = NoTask
        /\ gone' = gone \cup Elements(processed) \cup InHand
    BY <1>6 DEF Perish, dbVars
  <2>2. /\ InHand' = {} /\ Stored' = Stored /\ Elements(processed') = {} /\ DOMAIN processed' = {}
        /\ Past' = Past \cup Elements(processed) \cup InHand
    BY <2>1, NoElements DEF InHand, Past, Stored
  <2>3. (Elements(processed) \cup InHand) \cap Past = {}
    <3>1. \A t \in Elements(processed) \cup InHand : \A m \in Past : m < t /\ m \in Nat
      BY <1>0 DEF Elements
    <3> QED BY <1>0, <3>1
  <2> QED BY <2>1, <2>2, <2>3 DEF Past
<1> QED BY <1>1, <1>2, <1>3, <1>4, <1>5, <1>6, TaskSteps

LEMMA TimeStep ==
  ASSUME ThreadOK, RowsOK, TimeInv, StorageNext
  PROVE  TimeInv'
<1> USE DEF TimeInv
<1>0. /\ clock \in Nat /\ slept \in Nat /\ slept <= clock /\ tt \in Nat /\ tt <= clock
      /\ \A k \in DOMAIN rows : rows[k].time \in Nat
  <2>1. \A n \in Nat : \A m \in 0..n : m \in Nat /\ m <= n
    OBVIOUS
  <2>2. rows \in Seq([task : Nat, time : Nat])
    BY DEF RowsOK
  <2>3. DOMAIN rows = 1..Len(rows)
    BY <2>2
  <2>4. \A k \in DOMAIN rows : rows[k] \in [task : Nat, time : Nat]
    BY <2>2, <2>3, ElementOfSeq
  <2> QED BY <2>1, <2>4 DEF ThreadOK
<1>1. CASE Boot
  BY <1>1 DEF Boot
<1>2. CASE Tick
  <2>1. clock' = clock + 1 /\ UNCHANGED <<rows, slept, tt, spc>>
    BY <1>2 DEF Tick, threadVars, dbVars
  <2> QED BY <1>0, <2>1
<1>3. CASE Finish \/ Stop
  BY <1>3 DEF Finish, Stop, sysVars, threadVars, dbVars
<1>4. CASE LoopTop \/ NothingToSave \/ SaveRecord
  BY <1>4 DEF LoopTop, NothingToSave, SaveRecord, sysVars, dbVars
<1>5. CASE Wake
  BY <1>5 DEF Wake, sysVars, dbVars
<1>6. CASE Stamp
  BY <1>6 DEF Stamp, sysVars, dbVars
<1>7. CASE Insert
  <2>1. slept' = clock /\ slept < tt /\ spc' = "sleep"
    BY <1>7 DEF Insert
  <2>2. ASSUME NEW k \in DOMAIN rows' PROVE rows'[k].time <= slept'
    BY <1>0, <1>7, <2>1, RowAdded
  <2>3. ASSUME NEW j \in DOMAIN rows', NEW k \in DOMAIN rows', j < k
        PROVE  rows'[j].time < rows'[k].time
    <3>1. j \in DOMAIN rows
      BY <1>7, <2>3, RowAdded
    <3>2. CASE k \in DOMAIN rows
      BY <1>7, <2>3, <3>1, <3>2, RowAdded
    <3>3. CASE k = Len(rows) + 1
      BY <1>0, <1>7, <2>1, <3>1, <3>3, RowAdded
    <3> QED BY <1>7, <3>2, <3>3, RowAdded
  <2> QED BY <2>1, <2>2, <2>3
<1>8. CASE InsertFails \/ Perish
  <2>1. UNCHANGED rows /\ slept' = clock /\ spc' \in {"sleep", "off"}
    BY <1>8 DEF InsertFails, Perish, dbVars
  <2> QED BY <1>0, <2>1
<1>9. ASSUME NEW c \in Conns,
             \/ \E t \in 1..clock : RequestSelect(c, t)
             \/ PrepareSelect(c) \/ SelectStep(c) \/ SelectFails(c)
      PROVE  TimeInv'
  <2>1. CASE SelectFails(c)
    BY <1>8, <2>1 DEF SelectFails
  <2>2. CASE ~SelectFails(c)
    BY <1>9, <2>2 DEF RequestSelect, PrepareSelect, SelectStep, NextRow, NoMoreRows, Answer,
       sysVars, threadVars, dbVars
  <2> QED BY <2>1, <2>2
<1> QED
  BY <1>1, <1>2, <1>3, <1>4, <1>5, <1>6, <1>7, <1>8, <1>9 DEF StorageNext, StorageStep
-----------------------------------------------------------------------------
(* What SelectInv says of one connection.                                  *)
SelectionOK(c) ==
  /\ cpc[c] = "recv" => cursor[c] = 0 /\ ret[c] = << >>
  /\ \A j \in DOMAIN ret[c] :
       ret[c][j] \in 1..cursor[c] /\ rows[ret[c][j]].time = selectState[c]
  /\ \A j, k \in DOMAIN ret[c] : j < k => ret[c][j] < ret[c][k]
  /\ \A k \in 1..cursor[c] : rows[k].time = selectState[c] => k \in Elements(ret[c])
  /\ cpc[c] = "read" =>
       \A k \in 1..begun[c] : rows[k].time = selectState[c] => k \in Elements(ret[c])

LEMMA SelectInvStep ==
  ASSUME ThreadOK, RowsOK, SelectsOK, SelectInv, StorageNext
  PROVE  SelectInv'
<1> SUFFICES ASSUME NEW c \in Conns PROVE SelectionOK(c)'
  BY DEF SelectInv, SelectionOK
<1> USE DEF SelectionOK, SelectsOK
<1>0. /\ SelectionOK(c) /\ cursor[c] \in Nat /\ begun[c] \in Nat
      /\ 1..cursor[c] \subseteq DOMAIN rows /\ 1..begun[c] \subseteq DOMAIN rows
      /\ DOMAIN rows \subseteq Nat
  <2>1. \A n \in Nat : \A m \in 0..n : m \in Nat /\ 1..m \subseteq 1..n /\ 1..n \subseteq Nat
    OBVIOUS
  <2> QED BY <2>1, Forward DEF SelectInv
<1>1. ASSUME UNCHANGED <<cpc[c], selectState[c], cursor[c], ret[c], begun[c]>>
      PROVE  SelectionOK(c)'
  <2>1. \A k \in DOMAIN rows : rows'[k] = rows[k]
    BY Forward
  <2>2. \A j \in DOMAIN ret[c] : ret[c][j] \in DOMAIN rows
    BY <1>0
  <2>3. \A j \in DOMAIN ret'[c] :
          ret'[c][j] \in 1..cursor'[c] /\ rows'[ret'[c][j]].time = selectState'[c]
    BY <1>0, <1>1, <2>1, <2>2
  <2>4. Elements(ret'[c]) = Elements(ret[c])
    BY <1>1
  <2>5. \A k \in 1..cursor'[c] : rows'[k].time = selectState'[c] => k \in Elements(ret'[c])
    BY <1>0, <1>1, <2>1, <2>4
  <2>6. cpc'[c] = "read" =>
          \A k \in 1..begun'[c] : rows'[k].time = selectState'[c] => k \in Elements(ret'[c])
    BY <1>0, <1>1, <2>1, <2>4
  <2> QED BY <1>0, <1>1, <2>3, <2>5, <2>6
<1>2. CASE UNCHANGED selectVars \/ Insert
  BY <1>1, <1>2 DEF selectVars, Insert
<1>3. CASE Perish
  <2>1. cpc'[c] = "recv" /\ cursor'[c] = 0 /\ ret'[c] = << >>
    BY <1>3 DEF Perish, Quiet
  <2>2. 1..cursor'[c] = {} /\ DOMAIN ret'[c] = {}
    BY <2>1, NoElements
  <2> QED BY <2>1, <2>2
<1>4. ASSUME NEW d \in Conns, d # c,
             \/ \E t \in 1..clock : RequestSelect(d, t)
             \/ PrepareSelect(d) \/ SelectStep(d)
      PROVE  SelectionOK(c)'
  BY <1>1, <1>4 DEF RequestSelect, PrepareSelect, SelectStep, NextRow, NoMoreRows, Answer, Goes
<1>5. ASSUME NEW t \in 1..clock, RequestSelect(c, t) PROVE SelectionOK(c)'
  <2>1. /\ cpc[c] = "recv" /\ cpc'[c] = "recv" /\ UNCHANGED <<cursor, ret>>
    BY <1>5 DEF RequestSelect
  <2>2. cursor'[c] = 0 /\ ret'[c] = << >>
    BY <1>0, <2>1
  <2>3. 1..cursor'[c] = {} /\ DOMAIN ret'[c] = {}
    BY <2>2, NoElements
  <2> QED BY <2>1, <2>2, <2>3
<1>6. CASE PrepareSelect(c)
  <2>1. /\ cpc[c] = "recv" /\ cpc'[c] = "first" /\ UNCHANGED <<cursor, ret>>
    BY <1>6 DEF PrepareSelect, Goes
  <2>2. cursor'[c] = 0 /\ ret'[c] = << >>
    BY <1>0, <2>1
  <2>3. 1..cursor'[c] = {} /\ DOMAIN ret'[c] = {}
    BY <2>2, NoElements
  <2> QED BY <2>1, <2>3
<1>7. CASE NextRow(c)
  <2>1. PICK k \in Matching(c) :
          /\ \A j \in Matching(c) : k <= j
          /\ cursor' = [cursor EXCEPT ![c] = k] /\ ret' = [ret EXCEPT ![c] = Append(@, k)]
    BY <1>7 DEF NextRow
  <2>2. cpc'[c] = "next" /\ UNCHANGED <<rows, selectState>>
    BY <1>7 DEF NextRow, Goes, dbVars
  <2>3. k \in DOMAIN rows /\ k \in Nat /\ cursor[c] < k /\ rows[k].time = selectState[c]
    BY <1>0, <2>1 DEF Matching
  <2>4. ret[c] \in Seq(Nat) /\ cursor'[c] = k /\ ret'[c] = Append(ret[c], k)
    BY <2>1
  <2>5. /\ Len(ret[c]) \in Nat /\ DOMAIN ret[c] = 1..Len(ret[c])
        /\ \A j \in DOMAIN ret[c] : ret'[c][j] = ret[c][j]
        /\ ret'[c][Len(ret[c]) + 1] = k
        /\ \A j \in DOMAIN ret'[c] : j \in DOMAIN ret[c] \/ j = Len(ret[c]) + 1
        /\ Elements(ret'[c]) = Elements(ret[c]) \cup {k}
    <3> DEFINE r == ret[c]
    <3>1. r \in Seq(Nat) /\ ret'[c] = Append(r, k)
      BY <2>4
    <3> HIDE DEF r, SelectionOK, SelectsOK
    <3>2. /\ Len(r) \in Nat /\ DOMAIN r = 1..Len(r)
          /\ \A j \in DOMAIN r : ret'[c][j] = r[j]
          /\ ret'[c][Len(r) + 1] = k
          /\ \A j \in DOMAIN ret'[c] : j \in DOMAIN r \/ j = Len(r) + 1
          /\ Elements(ret'[c]) = Elements(r) \cup {k}
      BY <2>3, <3>1, AddLast
    <3> QED BY <3>2 DEF r
  <2>6. \A j \in DOMAIN ret[c] : ret[c][j] \in 1..cursor[c] /\ ret[c][j] \in 1..k /\ ret[c][j] < k
    BY <1>0, <2>3
  <2>7. k \in 1..k
    BY <1>0, <2>3
  <2>8. \A j \in DOMAIN ret'[c] :
          ret'[c][j] \in 1..cursor'[c] /\ rows'[ret'[c][j]].time = selectState'[c]
    BY <1>0, <2>2, <2>3, <2>4, <2>5, <2>6, <2>7
  <2>9. ASSUME NEW i \in DOMAIN ret'[c], NEW j \in DOMAIN ret'[c], i < j
        PROVE  ret'[c][i] < ret'[c][j]
    <3>1. i \in DOMAIN ret[c]
      <4> DEFINE n == Len(ret[c])
      <4>1. n \in Nat /\ (i \in 1..n \/ i = n + 1) /\ (j \in 1..n \/ j = n + 1) /\ DOMAIN ret[c] = 1..n
        BY <2>5, <2>9
      <4> HIDE DEF n, SelectionOK, SelectsOK
      <4>2. i \in 1..n
        BY <2>9, <4>1
      <4> QED BY <4>1, <4>2
    <3> QED BY <1>0, <2>5, <2>6, <2>9, <3>1
  <2>10. ASSUME NEW j \in 1..k, rows[j].time = selectState[c]
         PROVE  j \in Elements(ret'[c])
    <3>1. CASE j \in 1..cursor[c]
      BY <1>0, <2>5, <2>10, <3>1
    <3>2. CASE j \notin 1..cursor[c]
      <4>1. j > cursor[c] /\ j \in DOMAIN rows
        <5>1. ASSUME NEW n \in Nat, NEW l \in Nat, NEW x \in 1..k, k \in 1..n, x \notin 1..l
              PROVE  x > l /\ x \in 1..n
          BY <2>3, <5>1
        <5>2. Len(rows) \in Nat /\ DOMAIN rows = 1..Len(rows)
          BY Forward
        <5> QED BY <1>0, <2>3, <3>2, <5>1, <5>2
      <4>2. j \in Matching(c)
        BY <2>10, <4>1 DEF Matching
      <4>3. j = k
        BY <2>1, <2>3, <4>2
      <4> QED BY <2>5, <4>3
    <3> QED BY <3>1, <3>2
  <2> QED BY <2>2, <2>4, <2>8, <2>9, <2>10
<1>8. CASE NoMoreRows(c)
  <2>1. /\ cpc'[c] = "read" /\ Matching(c) = {}
        /\ UNCHANGED <<rows, selectState, cursor, ret, begun>>
    BY <1>8 DEF NoMoreRows, Goes, dbVars
  <2>2. ASSUME NEW k \in 1..begun[c], rows[k].time = selectState[c]
        PROVE  k \in Elements(ret[c])
    <3>1. k \in DOMAIN rows /\ ~(k > cursor[c])
      BY <1>0, <2>1, <2>2 DEF Matching
    <3>2. k \in 1..cursor[c]
      BY <1>0, <3>1
    <3> QED BY <1>0, <2>2, <3>2
  <2> QED BY <1>0, <2>1, <2>2
<1>9. CASE Answer(c)
  <2>1. cpc'[c] = "recv" /\ cursor'[c] = 0 /\ ret'[c] = << >>
    BY <1>9 DEF Answer, Goes
  <2>2. 1..cursor'[c] = {} /\ DOMAIN ret'[c] = {}
    BY <2>1, NoElements
  <2> QED BY <2>1, <2>2
<1>10. ASSUME NEW d \in Conns,
              \/ \E t \in 1..clock : RequestSelect(d, t)
              \/ PrepareSelect(d) \/ SelectStep(d)
       PROVE  SelectionOK(c)'
  BY <1>4, <1>5, <1>6, <1>7, <1>8, <1>9, <1>10 DEF SelectStep
<1> QED BY <1>2, <1>3, <1>10, SelectSteps

(* Times differ from row to row, so a selection finds at most one row.     *)
LEMMA AtMostOneRow ==
  ASSUME RowsOK, SelectsOK, TimeInv, SelectInv, NEW c \in Conns
  PROVE  Len(ret[c]) \in {0, 1} /\ DOMAIN ret[c] = 1..Len(ret[c])
<1>1. Len(ret[c]) \in Nat /\ DOMAIN ret[c] = 1..Len(ret[c])
  BY DEF SelectsOK
<1>2. ASSUME Len(ret[c]) \notin {0, 1} PROVE FALSE
  <2>1. 1 \in DOMAIN ret[c] /\ 2 \in DOMAIN ret[c]
    <3>1. \A n \in Nat : n \notin {0, 1} => 1 \in 1..n /\ 2 \in 1..n
      OBVIOUS
    <3> QED BY <1>1, <1>2, <3>1
  <2>2. /\ ret[c][1] \in 1..cursor[c] /\ ret[c][2] \in 1..cursor[c] /\ ret[c][1] < ret[c][2]
        /\ rows[ret[c][1]].time = rows[ret[c][2]].time
    BY <2>1 DEF SelectInv
  <2>3. 1..cursor[c] \subseteq DOMAIN rows
    <3>1. \A n \in Nat : \A m \in 0..n : 1..m \subseteq 1..n
      OBVIOUS
    <3> QED BY <3>1 DEF RowsOK, SelectsOK
  <2>4. rows[ret[c][1]].time < rows[ret[c][2]].time
    BY <2>2, <2>3 DEF TimeInv
  <2>5. rows[ret[c][1]] \in [task : Nat, time : Nat]
    <3>1. rows \in Seq([task : Nat, time : Nat]) /\ DOMAIN rows = 1..Len(rows)
      BY DEF RowsOK
    <3>2. ret[c][1] \in DOMAIN rows
      BY <2>2, <2>3
    <3> QED BY <3>1, <3>2, ElementOfSeq
  <2>6. rows[ret[c][1]].time \in Nat
    BY <2>5
  <2> QED BY <2>2, <2>4, <2>6
<1> QED BY <1>1, <1>2

LEMMA ShowsStep ==
  ASSUME ThreadOK, RowsOK, SelectsOK, TimeInv, SelectInv, ShowsEveryRow, StorageNext
  PROVE  ShowsEveryRow'
<1> USE DEF ShowsEveryRow
<1>1. DOMAIN reply = Conns
  BY DEF SelectsOK
<1>2. NoReply.texts = << >> /\ DOMAIN NoReply.texts = {}
  BY DEF NoReply
<1>3. CASE UNCHANGED reply
  BY <1>3
<1>4. CASE Perish
  <2>1. \A c \in Conns : reply'[c] = NoReply
    BY <1>4 DEF Perish, Quiet
  <2> QED BY <1>2, <2>1
<1>5. ASSUME NEW c \in Conns, reply' = [reply EXCEPT ![c] = NoReply] PROVE ShowsEveryRow'
  BY <1>1, <1>2, <1>5
<1>6. ASSUME NEW c \in Conns, Answer(c) PROVE ShowsEveryRow'
  <2>1. PICK texts \in [DOMAIN ret[c] -> Texts] :
          LET empty == \A k \in DOMAIN texts : texts[k] = "blank"
          IN  reply' = [reply EXCEPT ![c] =
                [to |-> selectState[c], found |-> ret[c], texts |-> texts,
                 shows |-> IF empty THEN 0 ELSE Len(ret[c])]]
    BY <1>6 DEF Answer
  <2>2. /\ reply'[c].texts = texts
        /\ (\E k \in DOMAIN texts : texts[k] # "blank") => reply'[c].shows = Len(ret[c])
        /\ \A d \in Conns : d # c => reply'[d] = reply[d]
    BY <1>1, <2>1
  <2>3. \A k \in DOMAIN texts : k = Len(ret[c])
    <3>1. DOMAIN texts = 1..Len(ret[c]) /\ Len(ret[c]) \in {0, 1}
      BY AtMostOneRow
    <3>2. \A n \in {0, 1} : \A k \in 1..n : k = n
      OBVIOUS
    <3> QED BY <3>1, <3>2
  <2> QED BY <2>2, <2>3
<1>7. ASSUME NEW c \in Conns,
             \/ \E t \in 1..clock : RequestSelect(c, t)
             \/ PrepareSelect(c) \/ SelectStep(c)
      PROVE  ShowsEveryRow'
  BY <1>3, <1>5, <1>6, <1>7 DEF RequestSelect, PrepareSelect, SelectStep, NextRow, NoMoreRows
<1> QED BY <1>3, <1>4, <1>7, SelectSteps DEF selectVars, Insert
-----------------------------------------------------------------------------
LEMMA StorageInvariance == StorageSpec => []StorageInv
<1>1. StorageInv /\ [StorageNext]_storageVars => StorageInv'
  <2> SUFFICES ASSUME StorageInv, [StorageNext]_storageVars PROVE StorageInv'
    OBVIOUS
  <2>1. CASE StorageNext
    BY <2>1, ThreadStep, RowsStep, SelectsStep, PlacesStep, TimeStep, SelectInvStep, ShowsStep
    DEF StorageInv, StorageTypeOK
  <2>2. CASE UNCHANGED storageVars
    BY <2>2 DEF storageVars, sysVars, taskVars, threadVars, dbVars, lossVars, selectVars,
       StorageInv, StorageTypeOK, ThreadOK, RowsOK, SelectsOK, PlacesInv, TimeInv, SelectInv,
       ShowsEveryRow, InHand, Past, Stored
  <2> QED BY <2>1, <2>2
<1> QED BY <1>1, StorageInitial, PTL DEF StorageSpec

(* The types of the state of the storage thread, the table and the         *)
(* selections.                                                             *)
THEOREM StorageTypes == StorageSpec => []StorageTypeOK
<1>1. StorageInv => StorageTypeOK
  BY DEF StorageInv
<1> QED BY <1>1, StorageInvariance, PTL

(* Every finished task waits, is in the hands of the storage thread, has   *)
(* one row or is lost, and is in one of these places only.                 *)
THEOREM OneFateEach == StorageSpec => []OneFate
<1>1. StorageInv => OneFate
  <2> SUFFICES ASSUME StorageInv PROVE OneFate
    OBVIOUS
  <2> DEFINE places == <<Elements(processed), InHand, Stored, lost, gone>>
  <2>1. /\ DOMAIN places = 1..5
        /\ places[1] = Elements(processed) /\ places[2] = InHand /\ places[3] = Stored
        /\ places[4] = lost /\ places[5] = gone
    OBVIOUS
  <2>2. 1..5 = {1, 2, 3, 4, 5}
    OBVIOUS
  <2>3. \A t \in 1..finished : t \in Nat
    OBVIOUS
  <2>4. 1..finished = Elements(processed) \cup InHand \cup Past
    BY DEF StorageInv, PlacesInv
  <2>5. UNION Elements(places) = 1..finished
    <3>1. Elements(places) = {places[1], places[2], places[3], places[4], places[5]}
      BY <2>1, <2>2 DEF Elements
    <3> HIDE DEF places
    <3> QED BY <2>1, <2>4, <3>1 DEF Past
  <2>6. \A t \in Elements(processed) : t \in Nat /\ \A m \in InHand \cup Past : m < t
    BY <2>3, <2>4 DEF StorageInv, PlacesInv, Elements
  <2>7. \A h \in InHand : h \in Nat /\ \A m \in Past : m < h
    BY <2>3, <2>4 DEF StorageInv, PlacesInv
  <2>8. /\ Elements(processed) \cap (InHand \cup Past) = {}
        /\ InHand \cap Past = {}
    BY <2>6, <2>7
  <2>9. Stored \cap lost = {} /\ Stored \cap gone = {} /\ lost \cap gone = {}
    BY DEF StorageInv, PlacesInv
  <2>10. \A j, k \in DOMAIN places : j # k => places[j] \cap places[k] = {}
    <3> HIDE DEF places
    <3> QED BY <2>1, <2>2, <2>8, <2>9 DEF Past
  <2>11. \A j, k \in DOMAIN rows : rows[j].task = rows[k].task => j = k
    <3> SUFFICES ASSUME NEW j \in DOMAIN rows, NEW k \in DOMAIN rows,
                        rows[j].task = rows[k].task
                 PROVE  j = k
      OBVIOUS
    <3>1. rows[j].task \in Nat /\ rows[k].task \in Nat
      BY <2>3, <2>4 DEF Past, Stored
    <3>2. j \in Nat /\ k \in Nat
      BY DEF StorageInv, StorageTypeOK, RowsOK
    <3>3. ~(j < k) /\ ~(k < j)
      BY <3>1 DEF StorageInv, PlacesInv
    <3> QED BY <3>2, <3>3
  <2>12. \A j, k \in DOMAIN processed : processed[j] = processed[k] => j = k
    <3> SUFFICES ASSUME NEW j \in DOMAIN processed, NEW k \in DOMAIN processed,
                        processed[j] = processed[k]
                 PROVE  j = k
      OBVIOUS
    <3>1. DOMAIN processed = 1..Len(processed) /\ Len(processed) \in Nat
      BY DEF StorageInv, StorageTypeOK, ThreadOK
    <3>2. processed[j] \in Nat
      BY <2>6 DEF Elements
    <3>3. /\ \A i \in 1..(j - 1) : processed[i] < processed[j]
          /\ \A i \in 1..(k - 1) : processed[i] < processed[k]
      BY DEF StorageInv, PlacesInv
    <3>4. j \notin 1..(k - 1) /\ k \notin 1..(j - 1)
      BY <3>2, <3>3
    <3> QED BY <3>1, <3>4
  <2> QED BY <2>5, <2>10, <2>11, <2>12 DEF OneFate
<1> QED BY <1>1, StorageInvariance, PTL

(* The rows are in the order in which the tasks were finished, and no two  *)
(* have the same time.                                                     *)
THEOREM RowsOrdered == StorageSpec => []RowsInOrder
<1>1. StorageInv => RowsInOrder
  BY DEF StorageInv, PlacesInv, TimeInv, RowsInOrder
<1> QED BY <1>1, StorageInvariance, PTL

(* A selection that comes to its end has found each row with its time that *)
(* was there when it began, once, and no other.                            *)
THEOREM SelectionComplete == StorageSpec => []SelectsAll
<1>1. StorageInv => SelectsAll
  BY DEF StorageInv, SelectInv, SelectsAll
<1> QED BY <1>1, StorageInvariance, PTL

(* The buffer GetSelect sends shows every row that was found and has a     *)
(* text.                                                                   *)
THEOREM AllShown == StorageSpec => []ShowsEveryRow
<1>1. StorageInv => ShowsEveryRow
  BY DEF StorageInv
<1> QED BY <1>1, StorageInvariance, PTL
=============================================================================
