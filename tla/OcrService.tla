----------------------------- MODULE OcrService -----------------------------
(***************************************************************************)
(* What the scheduler promises, without its two copies, its mutexes and    *)
(* its threads.  Each task name has one slot, which a client fills, which  *)
(* receives the result of one run and keeps it until a client closes it.   *)
(* Every run produces one result, and each result is recorded once.        *)
(***************************************************************************)
CONSTANTS
  Names,      \* task names
  Results,    \* the results a run may produce; each has a field name
  NoResult    \* the result of a slot that has none

VARIABLES
  slot,       \* name -> state and result a client sees
  produced,   \* results of finished runs
  recorded    \* results handed to the storage

svcVars == <<slot, produced, recorded>>

Empty == [st |-> "Absent", res |-> NoResult]

SvcInit ==
  /\ slot = [n \in Names |-> Empty]
  /\ produced = {}
  /\ recorded = {}

(* A client adds the name n, which has no task.                            *)
Accept(n) ==
  /\ slot[n] = Empty
  /\ slot' = [slot EXCEPT ![n] = [st |-> "NewAdd", res |-> NoResult]]
  /\ UNCHANGED <<produced, recorded>>

(* A run for the waiting task of n begins.                                 *)
Start(n) ==
  /\ slot[n] = [st |-> "NewAdd", res |-> NoResult]
  /\ slot' = [slot EXCEPT ![n] = [st |-> "Processing", res |-> NoResult]]
  /\ UNCHANGED <<produced, recorded>>

(* A run ends with a result nobody has seen.  The slot of its name takes   *)
(* the result if it waits for one, and never replaces a result it has.     *)
Finish(r) ==
  /\ r \notin produced
  /\ produced' = produced \cup {r}
  /\ IF slot[r.name].st = "Processing"
       THEN slot' = [slot EXCEPT ![r.name] = [st |-> "Processed", res |-> r]]
       ELSE UNCHANGED slot
  /\ UNCHANGED recorded

(* A client that was sent the result of n closes its task.                 *)
Close(n) ==
  /\ slot[n].st = "Processed"
  /\ slot' = [slot EXCEPT ![n] = Empty]
  /\ UNCHANGED <<produced, recorded>>

(* A result is recorded, once.                                             *)
Record(r) ==
  /\ r \in produced \ recorded
  /\ recorded' = recorded \cup {r}
  /\ UNCHANGED <<slot, produced>>

SvcNext ==
  \/ \E n \in Names : Accept(n) \/ Start(n) \/ Close(n)
  \/ \E r \in Results : Finish(r) \/ Record(r)

SvcSpec == SvcInit /\ [][SvcNext]_svcVars

(* Every task that waits gets a result, and every result is recorded.      *)
SvcLive ==
  /\ \A n \in Names : slot[n].st \in {"NewAdd", "Processing"}
                        ~> slot[n].st = "Processed"
  /\ \A r \in Results : r \in produced ~> r \in recorded

LiveService == SvcSpec /\ SvcLive
=============================================================================
