----------------------------- MODULE MpmcQueue -----------------------------
(***************************************************************************)
(* The lock-free queue between the threads that write to the log and the   *)
(* worker thread of an asynchronous logger (mpmc_bounded_q.h of spdlog).   *)
(*                                                                         *)
(* Every cell of the ring carries a sequence number that says whose turn   *)
(* it is: position p may be written when the number is p and read when it  *)
(* is p + 1; reading it passes the cell on to position p + Size.  A thread *)
(* loads a position, loads the number of the cell, claims the position by  *)
(* compare-and-swap and only then touches the data of the cell, so every   *)
(* load, swap and store is a step of its own here.                         *)
(*                                                                         *)
(* A compare-and-swap fails only when the position has moved: on x64 the   *)
(* weak form does not fail otherwise.  Positions are unbounded: size_t     *)
(* would wrap after 2^64 messages.                                         *)
(***************************************************************************)
EXTENDS Naturals, Sequences

CONSTANTS
  Producers,  \* threads that call enqueue
  Consumers,  \* threads that call dequeue
  Items,      \* what is put into the queue
  NoItem,     \* what is left in a cell whose data was moved out
  Size,       \* the number of cells, a power of two in the code
  MaxItems    \* bound: no enqueue starts at this position

ASSUME QueueAssumption ==
  /\ Size \in Nat /\ Size >= 2
  /\ NoItem \notin Items
  /\ Producers \cap Consumers = {}

VARIABLES
  enqueue_pos, dequeue_pos,
  sequence,   \* cell -> its sequence number
  data,       \* cell -> its data
  pc,         \* thread -> where it is in enqueue or dequeue
  pos,        \* thread -> the local variable pos
  item,       \* thread -> the item it brings or has got
  accepted    \* history: the items in the order of their positions

shared == <<enqueue_pos, dequeue_pos, sequence, data>>
queueVars == <<shared, pc, pos, item, accepted>>

Threads == Producers \cup Consumers
Cells == 0..(Size - 1)
Cell(p) == p % Size
-----------------------------------------------------------------------------
(* The constructor.                                                        *)
QueueInit ==
  /\ enqueue_pos = 0 /\ dequeue_pos = 0
  /\ sequence = [c \in Cells |-> c]
  /\ data = [c \in Cells |-> NoItem]
  /\ pc = [t \in Threads |-> "idle"]
  /\ pos = [t \in Threads |-> 0]
  /\ item = [t \in Threads |-> NoItem]
  /\ accepted = << >>

Goto(t, l) == pc' = [pc EXCEPT ![t] = l]
-----------------------------------------------------------------------------
Enqueue(t, x) ==
  /\ pc[t] = "idle"
  /\ enqueue_pos < MaxItems
  /\ item' = [item EXCEPT ![t] = x]
  /\ pos' = [pos EXCEPT ![t] = enqueue_pos]
  /\ Goto(t, "check")
  /\ UNCHANGED <<shared, accepted>>

(* Mutant: a cell that waits for its reader is taken for a free one.       *)
EnqueueCheck_Off(t) ==
  /\ pc[t] = "check"
  /\ LET seq == sequence[Cell(pos[t])] IN
     Goto(t, IF seq = pos[t] \/ seq + Size = pos[t] + 1 THEN "claim"
             ELSE IF seq < pos[t] THEN "idle" ELSE "reload")
  /\ UNCHANGED <<shared, pos, item, accepted>>

(* Mutant: enqueue gives up as soon as another producer was faster.        *)
EnqueueCheck_Impatient(t) ==
  /\ pc[t] = "check"
  /\ LET seq == sequence[Cell(pos[t])] IN
     Goto(t, IF seq = pos[t] THEN "claim" ELSE "idle")
  /\ UNCHANGED <<shared, pos, item, accepted>>

(* dif = seq - pos decides: claim the position, the queue is full, or      *)
(* another producer was faster.                                            *)
EnqueueCheck(t) ==
  /\ pc[t] = "check"
  /\ LET seq == sequence[Cell(pos[t])] IN
     Goto(t, IF seq = pos[t] THEN "claim"
             ELSE IF seq < pos[t] THEN "idle" ELSE "reload")
  /\ UNCHANGED <<shared, pos, item, accepted>>

EnqueueReload(t) ==
  /\ pc[t] = "reload"
  /\ pos' = [pos EXCEPT ![t] = enqueue_pos]
  /\ Goto(t, "check")
  /\ UNCHANGED <<shared, item, accepted>>

(* compare_exchange_weak: when it fails, pos is what was found.            *)
EnqueueClaim(t) ==
  /\ pc[t] = "claim"
  /\ IF enqueue_pos = pos[t]
       THEN /\ enqueue_pos' = enqueue_pos + 1
            /\ accepted' = Append(accepted, item[t])
            /\ Goto(t, "write")
            /\ UNCHANGED pos
       ELSE /\ pos' = [pos EXCEPT ![t] = enqueue_pos]
            /\ Goto(t, "check")
            /\ UNCHANGED <<enqueue_pos, accepted>>
  /\ UNCHANGED <<dequeue_pos, sequence, data, item>>

EnqueueWrite(t) ==
  /\ pc[t] = "write"
  /\ data' = [data EXCEPT ![Cell(pos[t])] = item[t]]
  /\ Goto(t, "publish")
  /\ UNCHANGED <<enqueue_pos, dequeue_pos, sequence, pos, item, accepted>>

EnqueuePublish(t) ==
  /\ pc[t] = "publish"
  /\ sequence' = [sequence EXCEPT ![Cell(pos[t])] = pos[t] + 1]
  /\ Goto(t, "idle")
  /\ UNCHANGED <<enqueue_pos, dequeue_pos, data, pos, item, accepted>>
-----------------------------------------------------------------------------
Dequeue(t) ==
  /\ pc[t] = "idle"
  /\ pos' = [pos EXCEPT ![t] = dequeue_pos]
  /\ Goto(t, "check")
  /\ UNCHANGED <<shared, item, accepted>>

(* Mutant: a cell that is still being written is taken for a full one.     *)
DequeueCheck_Early(t) ==
  /\ pc[t] = "check"
  /\ LET seq == sequence[Cell(pos[t])] IN
     Goto(t, IF seq \in {pos[t], pos[t] + 1} /\ pos[t] < enqueue_pos THEN "claim"
             ELSE IF seq < pos[t] + 1 THEN "idle" ELSE "reload")
  /\ UNCHANGED <<shared, pos, item, accepted>>

(* dif = seq - (pos + 1) decides: claim the position, nothing to read, or  *)
(* another consumer was faster.                                            *)
DequeueCheck(t) ==
  /\ pc[t] = "check"
  /\ LET seq == sequence[Cell(pos[t])] IN
     Goto(t, IF seq = pos[t] + 1 THEN "claim"
             ELSE IF seq < pos[t] + 1 THEN "idle" ELSE "reload")
  /\ UNCHANGED <<shared, pos, item, accepted>>

DequeueReload(t) ==
  /\ pc[t] = "reload"
  /\ pos' = [pos EXCEPT ![t] = dequeue_pos]
  /\ Goto(t, "check")
  /\ UNCHANGED <<shared, item, accepted>>

DequeueClaim(t) ==
  /\ pc[t] = "claim"
  /\ IF dequeue_pos = pos[t]
       THEN /\ dequeue_pos' = dequeue_pos + 1
            /\ Goto(t, "read")
            /\ UNCHANGED pos
       ELSE /\ pos' = [pos EXCEPT ![t] = dequeue_pos]
            /\ Goto(t, "check")
            /\ UNCHANGED dequeue_pos
  /\ UNCHANGED <<enqueue_pos, sequence, data, item, accepted>>

DequeueRead(t) ==
  /\ pc[t] = "read"
  /\ item' = [item EXCEPT ![t] = data[Cell(pos[t])]]
  /\ data' = [data EXCEPT ![Cell(pos[t])] = NoItem]
  /\ Goto(t, "release")
  /\ UNCHANGED <<enqueue_pos, dequeue_pos, sequence, pos, accepted>>

DequeueRelease(t) ==
  /\ pc[t] = "release"
  /\ sequence' = [sequence EXCEPT ![Cell(pos[t])] = pos[t] + Size]
  /\ Goto(t, "idle")
  /\ UNCHANGED <<enqueue_pos, dequeue_pos, data, pos, item, accepted>>
-----------------------------------------------------------------------------
Produce(t) ==
  \/ \E x \in Items : Enqueue(t, x)
  \/ EnqueueCheck(t) \/ EnqueueReload(t) \/ EnqueueClaim(t)
  \/ EnqueueWrite(t) \/ EnqueuePublish(t)

Consume(t) ==
  \/ Dequeue(t) \/ DequeueCheck(t) \/ DequeueReload(t) \/ DequeueClaim(t)
  \/ DequeueRead(t) \/ DequeueRelease(t)

QueueNext ==
  \/ \E t \in Producers : Produce(t)
  \/ \E t \in Consumers : Consume(t)

QueueSpec == QueueInit /\ [][QueueNext]_queueVars
-----------------------------------------------------------------------------
(* The types of the queue's state.                                         *)
TypeOK ==
  /\ enqueue_pos \in Nat /\ dequeue_pos \in Nat
  /\ sequence \in [Cells -> Nat]
  /\ data \in [Cells -> Items \cup {NoItem}]
  /\ pc \in [Threads -> {"idle", "check", "reload", "claim", "write", "publish",
                         "read", "release"}]
  /\ pos \in [Threads -> Nat]
  /\ item \in [Threads -> Items \cup {NoItem}]
  /\ accepted \in Seq(Items)
  /\ Len(accepted) = enqueue_pos

(* The threads between a successful swap and the store that ends it.       *)
Writing(t) == t \in Producers /\ pc[t] \in {"write", "publish"}
Reading(t) == t \in Consumers /\ pc[t] \in {"read", "release"}
Inside(t) == Writing(t) \/ Reading(t)

(* Only one thread at a time touches the data of a cell, whichever lap of  *)
(* the ring it is in: the data is not atomic.                              *)
NoCellRace ==
  \A s, t \in Threads :
    s # t /\ Inside(s) /\ Inside(t) => Cell(pos[s]) # Cell(pos[t])

(* A consumer gets the item that was accepted at the position it claimed:  *)
(* nothing is overwritten before it was read, or read before it is there.  *)
GetsItsItem ==
  \A t \in Consumers : pc[t] = "release" => item[t] = accepted[pos[t] + 1]

(* enqueue returns false only when the item that was accepted Size         *)
(* positions before is still in the queue or being read.                   *)
RefusesOnlyWhenFull ==
  [][\A t \in Producers : pc[t] = "check" /\ pc'[t] = "idle" =>
       /\ pos[t] = enqueue_pos
       /\ pos[t] >= Size
       /\ \/ dequeue_pos + Size <= pos[t]
          \/ \E c \in Consumers : Reading(c) /\ pos[c] + Size = pos[t]]_queueVars

(* dequeue returns false only when every accepted item has been claimed,   *)
(* or the oldest one is still being written (later ones may be complete).  *)
RefusesOnlyWhenEmpty ==
  [][\A t \in Consumers : pc[t] = "check" /\ pc'[t] = "idle" =>
       /\ pos[t] = dequeue_pos
       /\ \/ enqueue_pos = pos[t]
          \/ \E p \in Producers : Writing(p) /\ pos[p] = pos[t]]_queueVars

(* The two together: no call is refused without need.                      *)
RefusalsJustified == RefusesOnlyWhenFull /\ RefusesOnlyWhenEmpty

(* The queue is a bounded FIFO queue: an item enters it when its position  *)
(* is claimed and leaves it when that position is claimed by a consumer.   *)
Fifo == INSTANCE BoundedFifo WITH Capacity <- Size, taken <- dequeue_pos
IsFifo == Fifo!FifoSpec
=============================================================================
