-------------------------- MODULE MpmcQueueProofs --------------------------
(***************************************************************************)
(* Proofs about MpmcQueue, for any number of producers and consumers and   *)
(* any size of the ring.                                                   *)
(*                                                                         *)
(* The argument: every cell is in one of four states that its sequence     *)
(* number tells apart (CellInv), and a thread that is about to claim a     *)
(* position that is still current knows the number of its cell.  Cells of  *)
(* two positions are equal only if the positions are Size or more apart    *)
(* (CellGap), which is what keeps the laps of the ring apart.              *)
(***************************************************************************)
EXTENDS MpmcQueue, Integers, TLAPS

Free(c) ==
  /\ Cell(sequence[c]) = c
  /\ enqueue_pos <= sequence[c]
  /\ sequence[c] < dequeue_pos + Size

BeingWritten(c) ==
  \E t \in Producers : Writing(t) /\ pos[t] = sequence[c] /\ Cell(pos[t]) = c

Stored(c) ==
  \E p \in Nat :
    /\ dequeue_pos <= p /\ p < enqueue_pos
    /\ Cell(p) = c /\ sequence[c] = p + 1
    /\ data[c] = accepted[p + 1]

BeingRead(c) ==
  \E t \in Consumers : Reading(t) /\ pos[t] + 1 = sequence[c] /\ Cell(pos[t]) = c

CellInv == \A c \in Cells : Free(c) \/ BeingWritten(c) \/ Stored(c) \/ BeingRead(c)

PositionInv ==
  /\ dequeue_pos <= enqueue_pos
  /\ enqueue_pos <= dequeue_pos + Size

ProducerInv ==
  \A t \in Producers :
    /\ pc[t] \in {"idle", "check", "reload", "claim", "write", "publish"}
    /\ pc[t] # "idle" => item[t] \in Items
    /\ pos[t] <= enqueue_pos
    /\ pc[t] = "claim" /\ pos[t] = enqueue_pos => sequence[Cell(pos[t])] = pos[t]
    /\ Writing(t) =>
         /\ dequeue_pos <= pos[t] /\ pos[t] < enqueue_pos
         /\ sequence[Cell(pos[t])] = pos[t]
         /\ item[t] = accepted[pos[t] + 1]
    /\ pc[t] = "publish" => data[Cell(pos[t])] = item[t]

ConsumerInv ==
  \A t \in Consumers :
    /\ pc[t] \in {"idle", "check", "reload", "claim", "read", "release"}
    /\ pos[t] <= dequeue_pos
    /\ pc[t] = "claim" /\ pos[t] = dequeue_pos => sequence[Cell(pos[t])] = pos[t] + 1
    /\ Reading(t) =>
         /\ pos[t] < dequeue_pos /\ enqueue_pos <= pos[t] + Size
         /\ sequence[Cell(pos[t])] = pos[t] + 1
    /\ pc[t] = "read" => data[Cell(pos[t])] = accepted[pos[t] + 1]
    /\ pc[t] = "release" => item[t] = accepted[pos[t] + 1]

DistinctInv ==
  \A s, t \in Threads :
    /\ s # t
    /\ (Writing(s) /\ Writing(t)) \/ (Reading(s) /\ Reading(t))
    => pos[s] # pos[t]

IInv ==
  /\ TypeOK
  /\ PositionInv
  /\ CellInv
  /\ ProducerInv
  /\ ConsumerInv
  /\ DistinctInv
-----------------------------------------------------------------------------
(* Division with remainder, and that multiplication by Size is monotonic.  *)
LEMMA Division ==
  \A p \in Nat :
    /\ p \div Size \in Nat
    /\ p % Size \in 0..(Size - 1)
    /\ p = Size * (p \div Size) + (p % Size)
BY QueueAssumption

LEMMA TimesSize ==
  \A a, b \in Nat : a < b => Size * b >= Size * a + Size
<1> SUFFICES ASSUME NEW a \in Nat, NEW b \in Nat, a < b
             PROVE  Size * b >= Size * a + Size
  OBVIOUS
<1> DEFINE k == b - a - 1
<1>1. k \in Nat /\ b = a + 1 + k
  OBVIOUS
<1>2. Size * b = Size * a + Size + Size * k
  BY <1>1, QueueAssumption
<1>3. Size * k >= 0 /\ Size * a \in Nat /\ Size * b \in Nat /\ Size * k \in Nat
  BY <1>1, QueueAssumption
<1> HIDE DEF k
<1> QED
  BY <1>2, <1>3, QueueAssumption

(* Positions of the same cell are whole laps apart.                        *)
LEMMA CellGap ==
  \A p, q \in Nat : p < q /\ Cell(p) = Cell(q) => p + Size <= q
<1> SUFFICES ASSUME NEW p \in Nat, NEW q \in Nat, p < q, p % Size = q % Size
             PROVE  p + Size <= q
  BY DEF Cell
<1> DEFINE a == p \div Size
           b == q \div Size
<1>1. p = Size * a + (p % Size) /\ a \in Nat
  BY Division
<1>2. q = Size * b + (q % Size) /\ b \in Nat
  BY Division
<1>3. p % Size \in Nat /\ q % Size \in Nat
  BY Division, QueueAssumption
<1> HIDE DEF a, b
<1>4. Size * a \in Nat /\ Size * b \in Nat
  BY <1>1, <1>2, QueueAssumption
<1>5. ~ (b < a)
  BY TimesSize, <1>1, <1>2, <1>3, <1>4, QueueAssumption
<1>6. a # b
  BY <1>1, <1>2, <1>3, <1>4
<1>7. Size * b >= Size * a + Size
  BY <1>5, <1>6, TimesSize, <1>1, <1>2
<1> QED
  BY <1>1, <1>2, <1>3, <1>4, <1>7, QueueAssumption

(* A lap later it is the same cell again.                                  *)
LEMMA CellLap ==
  \A p \in Nat : Cell(p + Size) = Cell(p)
<1> SUFFICES ASSUME NEW p \in Nat PROVE (p + Size) % Size = p % Size
  BY DEF Cell
<1> DEFINE q == p + Size
           a == p \div Size
           b == q \div Size
           r == p % Size
           s == q % Size
<1>1. p = Size * a + r /\ a \in Nat /\ r \in 0..(Size - 1)
  BY Division
<1>2. q = Size * b + s /\ b \in Nat /\ s \in 0..(Size - 1)
  BY Division, QueueAssumption
<1>3. q = p + Size
  OBVIOUS
<1> HIDE DEF a, b, q, r, s
<1>4. Size * a \in Nat /\ Size * b \in Nat /\ Size * (a + 1) = Size * a + Size
  BY <1>1, <1>2, QueueAssumption
<1>5. ~ (b < a + 1)
  BY TimesSize, <1>1, <1>2, <1>3, <1>4, QueueAssumption
<1>6. ~ (a + 1 < b)
  BY TimesSize, <1>1, <1>2, <1>3, <1>4, QueueAssumption
<1>7. b = a + 1
  BY <1>5, <1>6, <1>1, <1>2
<1>8. r = s
  BY <1>7, <1>1, <1>2, <1>3, <1>4, QueueAssumption
<1> QED
  BY <1>8 DEF q, r, s

LEMMA CellType == \A p \in Nat : Cell(p) \in Cells
BY Division DEF Cell, Cells

(* The first lap visits the cells in order.                                *)
LEMMA FirstLap == \A c \in Cells : Cell(c) = c
<1> SUFFICES ASSUME NEW c \in Cells PROVE c % Size = c
  BY DEF Cell
<1> DEFINE a == c \div Size
           r == c % Size
<1>1. c \in Nat /\ c < Size
  BY QueueAssumption DEF Cells
<1>2. c = Size * a + r /\ a \in Nat /\ r \in 0..(Size - 1)
  BY <1>1, Division
<1> HIDE DEF a, r
<1>3. Size * a \in Nat /\ Size * 0 = 0
  BY <1>2, QueueAssumption
<1>4. ~ (0 < a)
  BY TimesSize, <1>1, <1>2, <1>3, QueueAssumption
<1>5. a = 0
  BY <1>2, <1>4
<1> QED
  BY <1>2, <1>3, <1>5 DEF r
-----------------------------------------------------------------------------
LEMMA InitInv == QueueInit => IInv
<1> SUFFICES ASSUME QueueInit PROVE IInv
  OBVIOUS
<1> USE DEF QueueInit
<1>1. TypeOK
  BY QueueAssumption DEF TypeOK, Cells
<1>2. PositionInv
  BY QueueAssumption DEF PositionInv
<1>3. CellInv
  BY FirstLap, QueueAssumption DEF CellInv, Free, Cells
<1>4. ProducerInv /\ ConsumerInv /\ DistinctInv
  BY DEF ProducerInv, ConsumerInv, DistinctInv, Writing, Reading, Threads
<1> QED
  BY <1>1, <1>2, <1>3, <1>4 DEF IInv

(* A step before a position is claimed touches nothing that is shared.     *)
Local(t) ==
  /\ UNCHANGED <<shared, accepted>>
  /\ \A u \in Threads \ {t} : pc'[u] = pc[u] /\ pos'[u] = pos[u] /\ item'[u] = item[u]
  /\ ~Inside(t) /\ ~Inside(t)'

LEMMA LocalStep ==
  ASSUME IInv, TypeOK', NEW t \in Threads, Local(t), ProducerInv', ConsumerInv'
  PROVE  IInv'
<1>1. PositionInv'
  BY DEF IInv, PositionInv, Local, shared
<1>2. ASSUME NEW u \in Threads
      PROVE  /\ Writing(u)' <=> Writing(u)
             /\ Reading(u)' <=> Reading(u)
             /\ Inside(u) => pos'[u] = pos[u] /\ item'[u] = item[u]
  BY DEF Local, Inside, Writing, Reading
<1>3. CellInv'
  <2> SUFFICES ASSUME NEW c \in Cells
               PROVE  (Free(c) \/ BeingWritten(c) \/ Stored(c) \/ BeingRead(c))'
    BY DEF CellInv, Cells
  <2>1. Free(c) \/ BeingWritten(c) \/ Stored(c) \/ BeingRead(c)
    BY DEF IInv, CellInv
  <2>2. CASE Free(c)
    BY <2>2 DEF Free, Local, shared
  <2>3. CASE BeingWritten(c)
    BY <2>3, <1>2 DEF BeingWritten, Local, shared, Inside, Threads
  <2>4. CASE Stored(c)
    BY <2>4 DEF Stored, Local, shared
  <2>5. CASE BeingRead(c)
    BY <2>5, <1>2 DEF BeingRead, Local, shared, Inside, Threads
  <2> QED
    BY <2>1, <2>2, <2>3, <2>4, <2>5
<1>4. DistinctInv'
  BY <1>2 DEF IInv, DistinctInv, Inside
<1> QED
  BY <1>1, <1>3, <1>4 DEF IInv

LEMMA EnqueueInv ==
  ASSUME IInv, NEW t \in Producers, NEW x \in Items, Enqueue(t, x)
  PROVE  IInv'
<1> USE QueueAssumption DEF IInv
<1>1. TypeOK'
  BY DEF Enqueue, TypeOK, Goto, shared, Threads
<1>2. Local(t)
  BY DEF Enqueue, TypeOK, Goto, shared, Local, Inside, Writing, Reading, Threads
<1>3. ProducerInv'
  BY DEF Enqueue, TypeOK, Goto, shared, ProducerInv, Writing, Threads
<1>4. ConsumerInv'
  BY DEF Enqueue, TypeOK, Goto, shared, ConsumerInv, Reading, Threads
<1> QED
  BY <1>1, <1>2, <1>3, <1>4, LocalStep DEF Threads

LEMMA EnqueueCheckInv ==
  ASSUME IInv, NEW t \in Producers, EnqueueCheck(t)
  PROVE  IInv'
<1> USE QueueAssumption DEF IInv
<1>1. TypeOK'
  BY DEF EnqueueCheck, TypeOK, Goto, shared, Threads
<1>2. Local(t)
  BY DEF EnqueueCheck, TypeOK, Goto, shared, Local, Inside, Writing, Reading, Threads
<1>3. ProducerInv'
  BY DEF EnqueueCheck, TypeOK, Goto, shared, ProducerInv, Writing, Threads
<1>4. ConsumerInv'
  BY DEF EnqueueCheck, TypeOK, Goto, shared, ConsumerInv, Reading, Threads
<1> QED
  BY <1>1, <1>2, <1>3, <1>4, LocalStep DEF Threads

LEMMA EnqueueReloadInv ==
  ASSUME IInv, NEW t \in Producers, EnqueueReload(t)
  PROVE  IInv'
<1> USE QueueAssumption DEF IInv
<1>1. TypeOK'
  BY DEF EnqueueReload, TypeOK, Goto, shared, Threads
<1>2. Local(t)
  BY DEF EnqueueReload, TypeOK, Goto, shared, Local, Inside, Writing, Reading, Threads
<1>3. ProducerInv'
  BY DEF EnqueueReload, TypeOK, Goto, shared, ProducerInv, Writing, Threads
<1>4. ConsumerInv'
  BY DEF EnqueueReload, TypeOK, Goto, shared, ConsumerInv, Reading, Threads
<1> QED
  BY <1>1, <1>2, <1>3, <1>4, LocalStep DEF Threads

LEMMA DequeueInv ==
  ASSUME IInv, NEW t \in Consumers, Dequeue(t)
  PROVE  IInv'
<1> USE QueueAssumption DEF IInv
<1>1. TypeOK'
  BY DEF Dequeue, TypeOK, Goto, shared, Threads
<1>2. Local(t)
  BY DEF Dequeue, TypeOK, Goto, shared, Local, Inside, Writing, Reading, Threads
<1>3. ProducerInv'
  BY DEF Dequeue, TypeOK, Goto, shared, ProducerInv, Writing, Threads
<1>4. ConsumerInv'
  BY DEF Dequeue, TypeOK, Goto, shared, ConsumerInv, Reading, Threads
<1> QED
  BY <1>1, <1>2, <1>3, <1>4, LocalStep DEF Threads

LEMMA DequeueCheckInv ==
  ASSUME IInv, NEW t \in Consumers, DequeueCheck(t)
  PROVE  IInv'
<1> USE QueueAssumption DEF IInv
<1>1. TypeOK'
  BY DEF DequeueCheck, TypeOK, Goto, shared, Threads
<1>2. Local(t)
  BY DEF DequeueCheck, TypeOK, Goto, shared, Local, Inside, Writing, Reading, Threads
<1>3. ProducerInv'
  BY DEF DequeueCheck, TypeOK, Goto, shared, ProducerInv, Writing, Threads
<1>4. ConsumerInv'
  BY DEF DequeueCheck, TypeOK, Goto, shared, ConsumerInv, Reading, Threads
<1> QED
  BY <1>1, <1>2, <1>3, <1>4, LocalStep DEF Threads

LEMMA DequeueReloadInv ==
  ASSUME IInv, NEW t \in Consumers, DequeueReload(t)
  PROVE  IInv'
<1> USE QueueAssumption DEF IInv
<1>1. TypeOK'
  BY DEF DequeueReload, TypeOK, Goto, shared, Threads
<1>2. Local(t)
  BY DEF DequeueReload, TypeOK, Goto, shared, Local, Inside, Writing, Reading, Threads
<1>3. ProducerInv'
  BY DEF DequeueReload, TypeOK, Goto, shared, ProducerInv, Writing, Threads
<1>4. ConsumerInv'
  BY DEF DequeueReload, TypeOK, Goto, shared, ConsumerInv, Reading, Threads
<1> QED
  BY <1>1, <1>2, <1>3, <1>4, LocalStep DEF Threads
-----------------------------------------------------------------------------
(* The number of the cell of a current position tells the state of the     *)
(* cell: its own number while it is free, one more when it can be read.    *)
LEMMA FreeAhead ==
  ASSUME IInv, sequence[Cell(enqueue_pos)] = enqueue_pos
  PROVE  enqueue_pos < dequeue_pos + Size
<1> DEFINE c == Cell(enqueue_pos)
<1> USE QueueAssumption DEF IInv, TypeOK, PositionInv
<1>1. c \in Cells
  BY CellType
<1>2. CASE Free(c)
  BY <1>2 DEF Free
<1>3. ~BeingWritten(c)
  BY DEF BeingWritten, ProducerInv
<1>4. ~Stored(c)
  BY CellGap DEF Stored
<1>5. ~BeingRead(c)
  BY CellGap DEF BeingRead, ConsumerInv, Threads
<1> QED
  BY <1>1, <1>2, <1>3, <1>4, <1>5 DEF CellInv

LEMMA StoredAhead ==
  ASSUME IInv, sequence[Cell(dequeue_pos)] = dequeue_pos + 1
  PROVE  /\ dequeue_pos < enqueue_pos
         /\ data[Cell(dequeue_pos)] = accepted[dequeue_pos + 1]
<1> DEFINE c == Cell(dequeue_pos)
<1> USE QueueAssumption DEF IInv, TypeOK, PositionInv
<1>1. c \in Cells
  BY CellType
<1>2. ~Free(c)
  BY CellGap DEF Free
<1>3. ~BeingWritten(c)
  BY CellGap DEF BeingWritten, ProducerInv, Threads
<1>4. CASE Stored(c)
  BY <1>4 DEF Stored
<1>5. ~BeingRead(c)
  BY DEF BeingRead, ConsumerInv, Threads
<1> QED
  BY <1>1, <1>2, <1>3, <1>4, <1>5 DEF CellInv
-----------------------------------------------------------------------------
LEMMA EnqueueClaimInv ==
  ASSUME IInv, NEW t \in Producers, EnqueueClaim(t)
  PROVE  IInv'
<1> USE QueueAssumption DEF IInv
<1>1. CASE enqueue_pos # pos[t]
  <2> USE <1>1
  <2>1. TypeOK'
    BY DEF EnqueueClaim, TypeOK, Goto, Threads
  <2>2. Local(t)
    BY DEF EnqueueClaim, TypeOK, Goto, shared, Local, Inside, Writing, Reading, Threads
  <2>3. ProducerInv'
    BY DEF EnqueueClaim, TypeOK, Goto, ProducerInv, Writing, Threads
  <2>4. ConsumerInv'
    BY DEF EnqueueClaim, TypeOK, Goto, ConsumerInv, Reading, Threads
  <2> QED
    BY <2>1, <2>2, <2>3, <2>4, LocalStep DEF Threads
<1>2. CASE enqueue_pos = pos[t]
  <2> DEFINE c0 == Cell(enqueue_pos)
  <2>1. /\ enqueue_pos' = enqueue_pos + 1
        /\ accepted' = Append(accepted, item[t])
        /\ pc' = [pc EXCEPT ![t] = "write"]
        /\ UNCHANGED <<pos, dequeue_pos, sequence, data, item>>
        /\ pc[t] = "claim"
    BY <1>2 DEF EnqueueClaim, Goto
  <2>2. sequence[c0] = enqueue_pos /\ item[t] \in Items
    BY <2>1, <1>2 DEF ProducerInv
  <2>3. enqueue_pos < dequeue_pos + Size
    BY <2>2, FreeAhead
  <2>4. TypeOK'
    BY <2>1, <2>2 DEF TypeOK, Threads
  <2>5. \A p \in Nat : p < enqueue_pos => accepted'[p + 1] = accepted[p + 1]
    BY <2>1 DEF TypeOK
  <2>6. accepted'[enqueue_pos + 1] = item[t]
    BY <2>1 DEF TypeOK
  <2>7. PositionInv'
    BY <2>1, <2>3 DEF PositionInv, TypeOK
  <2>8. ProducerInv'
    <3> SUFFICES ASSUME NEW u \in Producers
                 PROVE  ProducerInv!(u)'
      BY DEF ProducerInv
    <3>1. CASE u = t
      BY <3>1, <2>1, <2>2, <2>6, <1>2 DEF ProducerInv, TypeOK, Writing, PositionInv, Threads
    <3>2. CASE u # t
      BY <3>2, <2>1, <2>5 DEF ProducerInv, TypeOK, Writing, Threads
    <3> QED
      BY <3>1, <3>2
  <2>9. ConsumerInv'
    <3> SUFFICES ASSUME NEW u \in Consumers
                 PROVE  ConsumerInv!(u)'
      BY DEF ConsumerInv
    <3>1. pc'[u] = pc[u] /\ pos[u] \in Nat /\ pos[u] <= dequeue_pos
      BY <2>1 DEF TypeOK, Threads, ConsumerInv
    <3>2. Reading(u) => enqueue_pos # pos[u] + Size
      BY <2>2, CellLap, <3>1 DEF ConsumerInv
    <3>3. pc'[u] = pc[u] /\ Reading(u)' = Reading(u)
      BY <2>1, <3>1 DEF Reading
    <3>4. Reading(u) => enqueue_pos + 1 <= pos[u] + Size
      <4>1. enqueue_pos \in Nat
        BY DEF TypeOK
      <4>2. Reading(u) => enqueue_pos <= pos[u] + Size
        BY DEF ConsumerInv
      <4> QED
        BY <3>1, <3>2, <4>1, <4>2
    <3>5. pc[u] \in {"read", "release"} => pos[u] < enqueue_pos
      BY <3>1 DEF ConsumerInv, Reading, PositionInv, TypeOK
    <3>6. pc[u] \in {"read", "release"} => accepted'[pos[u] + 1] = accepted[pos[u] + 1]
      BY <2>5, <3>1, <3>5
    <3> QED
      BY <2>1, <3>1, <3>3, <3>4, <3>6 DEF ConsumerInv
  <2>10. DistinctInv'
    BY <2>1, <1>2 DEF DistinctInv, ProducerInv, TypeOK, Writing, Reading, Threads
  <2>11. CellInv'
    <3> SUFFICES ASSUME NEW c \in Cells
                 PROVE  (Free(c) \/ BeingWritten(c) \/ Stored(c) \/ BeingRead(c))'
      BY DEF CellInv, Cells
    <3>1. Free(c) \/ BeingWritten(c) \/ Stored(c) \/ BeingRead(c)
      BY DEF CellInv
    <3>2. CASE Free(c) /\ sequence[c] # enqueue_pos
      BY <3>2, <2>1 DEF Free, TypeOK
    <3>3. CASE Free(c) /\ sequence[c] = enqueue_pos
      BY <3>3, <2>1, <1>2 DEF Free, BeingWritten, Writing, TypeOK, Threads
    <3>4. CASE BeingWritten(c)
      BY <3>4, <2>1 DEF BeingWritten, Writing, TypeOK, Threads
    <3>5. CASE Stored(c)
      BY <3>5, <2>1, <2>5 DEF Stored, TypeOK
    <3>6. CASE BeingRead(c)
      BY <3>6, <2>1 DEF BeingRead, Reading, TypeOK, Threads
    <3> QED
      BY <3>1, <3>2, <3>3, <3>4, <3>5, <3>6
  <2> QED
    BY <2>4, <2>7, <2>8, <2>9, <2>10, <2>11
<1> QED
  BY <1>1, <1>2

(* Two threads inside the queue are inside different cells.                *)
LEMMA ApartInv ==
  ASSUME IInv
  PROVE  NoCellRace
<1> SUFFICES ASSUME NEW s \in Threads, NEW t \in Threads, s # t, Inside(s), Inside(t),
                    Cell(pos[s]) = Cell(pos[t])
             PROVE  FALSE
  BY DEF NoCellRace
<1> USE QueueAssumption DEF IInv
<1>1. pos[s] \in Nat /\ pos[t] \in Nat
  BY DEF TypeOK
<1>2. CASE Writing(s) /\ Writing(t)
  BY <1>2 DEF DistinctInv, ProducerInv, Writing
<1>3. CASE Reading(s) /\ Reading(t)
  BY <1>3, <1>1 DEF DistinctInv, ConsumerInv, Reading
<1>4. CASE Writing(s) /\ Reading(t)
  <2>1. pos[s] = pos[t] + 1
    BY <1>4 DEF ProducerInv, ConsumerInv, Writing, Reading
  <2> QED
    BY <2>1, <1>1, CellGap
<1>5. CASE Reading(s) /\ Writing(t)
  <2>1. pos[t] = pos[s] + 1
    BY <1>5 DEF ProducerInv, ConsumerInv, Writing, Reading
  <2> QED
    BY <2>1, <1>1, CellGap
<1> QED
  BY <1>2, <1>3, <1>4, <1>5 DEF Inside

LEMMA EnqueueWriteInv ==
  ASSUME IInv, NEW t \in Producers, EnqueueWrite(t)
  PROVE  IInv'
<1> USE QueueAssumption DEF IInv
<1> DEFINE c0 == Cell(pos[t])
<1>1. /\ pc[t] = "write" /\ pc' = [pc EXCEPT ![t] = "publish"]
      /\ data' = [data EXCEPT ![c0] = item[t]]
      /\ UNCHANGED <<enqueue_pos, dequeue_pos, sequence, pos, item, accepted>>
  BY DEF EnqueueWrite, Goto
<1>2. Writing(t) /\ Inside(t) /\ c0 \in Cells /\ item[t] \in Items
  BY <1>1, CellType DEF Writing, Inside, TypeOK, ProducerInv, Threads
<1>3. TypeOK'
  BY <1>1, <1>2 DEF TypeOK, Threads
<1>4. \A u \in Threads : Writing(u)' = Writing(u) /\ Reading(u)' = Reading(u)
  BY <1>1, QueueAssumption DEF Writing, Reading, TypeOK, Threads
<1>5. \A u \in Threads \ {t} : Inside(u) => Cell(pos[u]) # c0
  BY <1>2, ApartInv DEF NoCellRace, Threads
<1>6. ProducerInv'
  <2> SUFFICES ASSUME NEW u \in Producers
               PROVE  ProducerInv!(u)'
    BY DEF ProducerInv
  <2>1. CASE u = t
    BY <2>1, <1>1, <1>2, <1>4 DEF ProducerInv, TypeOK, Threads, Writing
  <2>2. CASE u # t
    BY <2>2, <1>1, <1>5, CellType DEF ProducerInv, TypeOK, Threads, Writing, Inside
  <2> QED
    BY <2>1, <2>2
<1>7. ConsumerInv'
  <2> SUFFICES ASSUME NEW u \in Consumers
               PROVE  ConsumerInv!(u)'
    BY DEF ConsumerInv
  <2> QED
    BY <1>1, <1>5, CellType DEF ConsumerInv, TypeOK, Threads, Reading, Inside
<1>8. CellInv'
  <2> SUFFICES ASSUME NEW c \in Cells
               PROVE  (Free(c) \/ BeingWritten(c) \/ Stored(c) \/ BeingRead(c))'
    BY DEF CellInv, Cells
  <2>1. Free(c) \/ BeingWritten(c) \/ Stored(c) \/ BeingRead(c)
    BY DEF CellInv
  <2>2. CASE Free(c)
    BY <2>2, <1>1 DEF Free
  <2>3. CASE BeingWritten(c)
    BY <2>3, <1>1, <1>4 DEF BeingWritten, Threads
  <2>4. CASE Stored(c)
    <3>1. PICK p \in Nat : /\ dequeue_pos <= p /\ p < enqueue_pos
                           /\ Cell(p) = c /\ sequence[c] = p + 1
                           /\ data[c] = accepted[p + 1]
      BY <2>4 DEF Stored
    <3>2. c # c0
      BY <3>1, <1>2, CellGap DEF ProducerInv, TypeOK, Threads
    <3> QED
      BY <3>1, <3>2, <1>1 DEF Stored, TypeOK
  <2>5. CASE BeingRead(c)
    BY <2>5, <1>1, <1>4 DEF BeingRead, Threads
  <2> QED
    BY <2>1, <2>2, <2>3, <2>4, <2>5
<1>9. PositionInv' /\ DistinctInv'
  BY <1>1, <1>4 DEF PositionInv, DistinctInv
<1> QED
  BY <1>3, <1>6, <1>7, <1>8, <1>9

LEMMA EnqueuePublishInv ==
  ASSUME IInv, NEW t \in Producers, EnqueuePublish(t)
  PROVE  IInv'
<1> USE QueueAssumption DEF IInv
<1> DEFINE c0 == Cell(pos[t])
<1>1. /\ pc[t] = "publish" /\ pc' = [pc EXCEPT ![t] = "idle"]
      /\ sequence' = [sequence EXCEPT ![c0] = pos[t] + 1]
      /\ UNCHANGED <<enqueue_pos, dequeue_pos, data, pos, item, accepted>>
  BY DEF EnqueuePublish, Goto
<1>2. Writing(t) /\ Inside(t) /\ c0 \in Cells /\ pos[t] \in Nat
  BY <1>1, CellType DEF Writing, Inside, TypeOK, Threads
<1>3. TypeOK'
  BY <1>1, <1>2 DEF TypeOK, Threads
<1>4. \A u \in Threads \ {t} : Writing(u)' = Writing(u) /\ Reading(u)' = Reading(u)
  BY <1>1 DEF Writing, Reading, TypeOK, Threads
<1>5. ~Writing(t)' /\ ~Reading(t)'
  BY <1>1 DEF Writing, Reading, TypeOK, Threads
<1>6. \A u \in Threads \ {t} : Inside(u) => Cell(pos[u]) # c0
  BY <1>2, ApartInv DEF NoCellRace, Threads
<1>7. sequence'[c0] = pos[t] + 1 /\ \A c \in Cells \ {c0} : sequence'[c] = sequence[c]
  BY <1>1, <1>2 DEF TypeOK
<1>8. ProducerInv'
  <2> SUFFICES ASSUME NEW u \in Producers
               PROVE  ProducerInv!(u)'
    BY DEF ProducerInv
  <2>1. CASE u = t
    BY <2>1, <1>1, <1>2, <1>5 DEF ProducerInv, TypeOK, Threads, Writing
  <2>2. CASE u # t
    <3>1. pc'[u] = pc[u] /\ pos[u] \in Nat
      BY <2>2, <1>1 DEF TypeOK, Threads
    <3>2. pos[u] = enqueue_pos /\ Cell(pos[u]) = c0 /\ pc[u] = "claim" => FALSE
      <4>1. pos[t] < enqueue_pos /\ sequence[c0] = pos[t]
        BY <1>2 DEF ProducerInv
      <4> QED
        BY <4>1, <3>1, CellGap, <1>2 DEF ProducerInv
    <3> QED
      BY <2>2, <1>1, <1>4, <1>6, <1>7, <3>1, <3>2, CellType
      DEF ProducerInv, Threads, Writing, Inside
  <2> QED
    BY <2>1, <2>2
<1>9. ConsumerInv'
  <2> SUFFICES ASSUME NEW u \in Consumers
               PROVE  ConsumerInv!(u)'
    BY DEF ConsumerInv
  <2>1. u # t /\ pc'[u] = pc[u] /\ pos[u] \in Nat /\ Cell(pos[u]) \in Cells
    BY <1>1, CellType DEF TypeOK, Threads
  <2>2. pc[u] = "claim" /\ pos[u] = dequeue_pos => sequence'[Cell(pos[u])] = pos[u] + 1
    <3> SUFFICES ASSUME pc[u] = "claim", pos[u] = dequeue_pos, Cell(pos[u]) = c0
                 PROVE  FALSE
      BY <1>7, <2>1 DEF ConsumerInv
    <3>1. sequence[c0] = pos[u] + 1 /\ sequence[c0] = pos[t]
      BY <1>2 DEF ConsumerInv, ProducerInv
    <3> QED
      BY <3>1, <2>1, <1>2, CellGap
  <2> QED
    BY <1>1, <1>4, <1>6, <1>7, <2>1, <2>2 DEF ConsumerInv, Threads, Reading, Inside
<1>10. CellInv'
  <2> SUFFICES ASSUME NEW c \in Cells
               PROVE  (Free(c) \/ BeingWritten(c) \/ Stored(c) \/ BeingRead(c))'
    BY DEF CellInv, Cells
  <2>1. CASE c = c0
    <3>1. /\ dequeue_pos <= pos[t] /\ pos[t] < enqueue_pos
          /\ data[c0] = accepted[pos[t] + 1]
      BY <1>1, <1>2 DEF ProducerInv
    <3>2. Stored(c)'
      BY <2>1, <3>1, <1>1, <1>2, <1>7 DEF Stored
    <3> QED
      BY <3>2
  <2>2. CASE c # c0
    <3>1. sequence'[c] = sequence[c]
      BY <2>2, <1>7
    <3>2. Free(c) \/ BeingWritten(c) \/ Stored(c) \/ BeingRead(c)
      BY DEF CellInv
    <3>3. CASE Free(c)
      BY <3>3, <3>1, <1>1 DEF Free
    <3>4. CASE BeingWritten(c)
      BY <3>4, <3>1, <2>2, <1>1, <1>4 DEF BeingWritten, Threads
    <3>5. CASE Stored(c)
      BY <3>5, <3>1, <1>1 DEF Stored
    <3>6. CASE BeingRead(c)
      BY <3>6, <3>1, <2>2, <1>1, <1>4 DEF BeingRead, Threads
    <3> QED
      BY <3>2, <3>3, <3>4, <3>5, <3>6
  <2> QED
    BY <2>1, <2>2
<1>11. PositionInv' /\ DistinctInv'
  BY <1>1, <1>4, <1>5 DEF PositionInv, DistinctInv
<1> QED
  BY <1>3, <1>8, <1>9, <1>10, <1>11

LEMMA DequeueClaimInv ==
  ASSUME IInv, NEW t \in Consumers, DequeueClaim(t)
  PROVE  IInv'
<1> USE QueueAssumption DEF IInv
<1>1. CASE dequeue_pos # pos[t]
  <2> USE <1>1
  <2>1. TypeOK'
    BY DEF DequeueClaim, TypeOK, Goto, Threads
  <2>2. Local(t)
    BY DEF DequeueClaim, TypeOK, Goto, shared, Local, Inside, Writing, Reading, Threads
  <2>3. ProducerInv'
    BY DEF DequeueClaim, TypeOK, Goto, ProducerInv, Writing, Threads
  <2>4. ConsumerInv'
    BY DEF DequeueClaim, TypeOK, Goto, ConsumerInv, Reading, Threads
  <2> QED
    BY <2>1, <2>2, <2>3, <2>4, LocalStep DEF Threads
<1>2. CASE dequeue_pos = pos[t]
  <2> DEFINE c0 == Cell(dequeue_pos)
  <2>1. /\ dequeue_pos' = dequeue_pos + 1
        /\ pc[t] = "claim" /\ pc' = [pc EXCEPT ![t] = "read"]
        /\ UNCHANGED <<pos, enqueue_pos, sequence, data, item, accepted>>
    BY <1>2 DEF DequeueClaim, Goto
  <2>2. sequence[c0] = dequeue_pos + 1
    BY <2>1, <1>2 DEF ConsumerInv
  <2>3. dequeue_pos < enqueue_pos /\ data[c0] = accepted[dequeue_pos + 1]
    BY <2>2, StoredAhead
  <2>4. TypeOK'
    BY <2>1 DEF TypeOK, Threads
  <2>5. PositionInv'
    BY <2>1, <2>3 DEF PositionInv, TypeOK
  <2>6. enqueue_pos \in Nat /\ dequeue_pos \in Nat
    BY DEF TypeOK
  <2>7. \A u \in Threads \ {t} : Writing(u)' = Writing(u) /\ Reading(u)' = Reading(u)
    BY <2>1 DEF Writing, Reading, TypeOK, Threads
  <2>8. ~Writing(t) /\ ~Reading(t) /\ ~Writing(t)' /\ Reading(t)'
    BY <2>1 DEF Writing, Reading, TypeOK, Threads
  <2>9. ProducerInv'
    <3> SUFFICES ASSUME NEW u \in Producers
                 PROVE  ProducerInv!(u)'
      BY DEF ProducerInv
    <3>1. u # t /\ pc'[u] = pc[u] /\ pos[u] \in Nat
      BY <2>1 DEF TypeOK, Threads
    <3>2. Writing(u) => dequeue_pos + 1 <= pos[u]
      <4>1. Writing(u) => pos[u] # dequeue_pos
        BY <2>2, <2>6 DEF ProducerInv
      <4> QED
        BY <4>1, <3>1, <2>6 DEF ProducerInv
    <3> QED
      BY <2>1, <2>7, <3>1, <3>2 DEF ProducerInv, Threads
  <2>10. ConsumerInv'
    <3> SUFFICES ASSUME NEW u \in Consumers
                 PROVE  ConsumerInv!(u)'
      BY DEF ConsumerInv
    <3>1. CASE u = t
      <4>1. pc'[u] = "read"
        BY <3>1, <2>1 DEF TypeOK, Threads
      <4>2. enqueue_pos <= pos[u] + Size
        BY <3>1, <1>2 DEF PositionInv
      <4> QED
        BY <3>1, <1>2, <2>1, <2>2, <2>3, <2>6, <4>1, <4>2
    <3>2. CASE u # t
      <4>1. pc'[u] = pc[u] /\ pos[u] \in Nat /\ Reading(u)' = Reading(u)
        BY <3>2, <2>1, <2>7 DEF TypeOK, Threads
      <4>2. pos[u] <= dequeue_pos /\ pos[u] < dequeue_pos + 1
        BY <4>1, <2>6 DEF ConsumerInv
      <4> QED
        BY <2>1, <2>6, <4>1, <4>2 DEF ConsumerInv
    <3> QED
      BY <3>1, <3>2
  <2>11. DistinctInv'
    <3>1. \A u \in Threads : Reading(u) => pos[u] # dequeue_pos
      BY <2>6 DEF ConsumerInv, Reading, TypeOK, Threads
    <3> QED
      BY <3>1, <2>1, <2>7, <2>8, <1>2 DEF DistinctInv, Threads
  <2>12. CellInv'
    <3> SUFFICES ASSUME NEW c \in Cells
                 PROVE  (Free(c) \/ BeingWritten(c) \/ Stored(c) \/ BeingRead(c))'
      BY DEF CellInv, Cells
    <3>1. Free(c) \/ BeingWritten(c) \/ Stored(c) \/ BeingRead(c)
      BY DEF CellInv
    <3>2. CASE Free(c)
      BY <3>2, <2>1, <2>6 DEF Free, TypeOK
    <3>3. CASE BeingWritten(c)
      BY <3>3, <2>1, <2>7, <2>8 DEF BeingWritten, Threads
    <3>4. CASE Stored(c)
      <4>1. PICK p \in Nat : /\ dequeue_pos <= p /\ p < enqueue_pos
                             /\ Cell(p) = c /\ sequence[c] = p + 1
                             /\ data[c] = accepted[p + 1]
        BY <3>4 DEF Stored
      <4>2. CASE p = dequeue_pos
        BY <4>1, <4>2, <2>1, <2>8, <1>2 DEF BeingRead
      <4>3. CASE p # dequeue_pos
        BY <4>1, <4>3, <2>1, <2>6 DEF Stored
      <4> QED
        BY <4>2, <4>3
    <3>5. CASE BeingRead(c)
      BY <3>5, <2>1, <2>7, <2>8 DEF BeingRead, Threads
    <3> QED
      BY <3>1, <3>2, <3>3, <3>4, <3>5
  <2> QED
    BY <2>4, <2>5, <2>9, <2>10, <2>11, <2>12
<1> QED
  BY <1>1, <1>2

LEMMA DequeueReadInv ==
  ASSUME IInv, NEW t \in Consumers, DequeueRead(t)
  PROVE  IInv'
<1> USE QueueAssumption DEF IInv
<1> DEFINE c0 == Cell(pos[t])
<1>1. /\ pc[t] = "read" /\ pc' = [pc EXCEPT ![t] = "release"]
      /\ item' = [item EXCEPT ![t] = data[c0]]
      /\ data' = [data EXCEPT ![c0] = NoItem]
      /\ UNCHANGED <<enqueue_pos, dequeue_pos, sequence, pos, accepted>>
  BY DEF DequeueRead, Goto
<1>2. Reading(t) /\ Inside(t) /\ c0 \in Cells /\ pos[t] \in Nat
  BY <1>1, CellType DEF Reading, Inside, TypeOK, Threads
<1>3. TypeOK'
  BY <1>1, <1>2 DEF TypeOK, Threads
<1>4. \A u \in Threads : Writing(u)' = Writing(u) /\ Reading(u)' = Reading(u)
  BY <1>1 DEF Writing, Reading, TypeOK, Threads
<1>5. \A u \in Threads \ {t} : Inside(u) => Cell(pos[u]) # c0
  BY <1>2, ApartInv DEF NoCellRace, Threads
<1>6. \A c \in Cells \ {c0} : data'[c] = data[c]
  BY <1>1 DEF TypeOK
<1>7. ProducerInv'
  <2> SUFFICES ASSUME NEW u \in Producers
               PROVE  ProducerInv!(u)'
    BY DEF ProducerInv
  <2>1. u # t /\ pc'[u] = pc[u] /\ item'[u] = item[u] /\ Cell(pos[u]) \in Cells
    BY <1>1, CellType DEF TypeOK, Threads
  <2> QED
    BY <2>1, <1>1, <1>4, <1>5, <1>6 DEF ProducerInv, Threads, Writing, Inside
<1>8. ConsumerInv'
  <2> SUFFICES ASSUME NEW u \in Consumers
               PROVE  ConsumerInv!(u)'
    BY DEF ConsumerInv
  <2>1. CASE u = t
    <3>1. pc'[u] = "release" /\ item'[u] = data[c0]
      BY <2>1, <1>1 DEF TypeOK, Threads
    <3> QED
      BY <2>1, <3>1, <1>1, <1>2, <1>4 DEF ConsumerInv, Threads
  <2>2. CASE u # t
    <3>1. pc'[u] = pc[u] /\ item'[u] = item[u] /\ Cell(pos[u]) \in Cells
      BY <2>2, <1>1, CellType DEF TypeOK, Threads
    <3> QED
      BY <2>2, <3>1, <1>1, <1>4, <1>5, <1>6 DEF ConsumerInv, Threads, Reading, Inside
  <2> QED
    BY <2>1, <2>2
<1>9. CellInv'
  <2> SUFFICES ASSUME NEW c \in Cells
               PROVE  (Free(c) \/ BeingWritten(c) \/ Stored(c) \/ BeingRead(c))'
    BY DEF CellInv, Cells
  <2>1. CASE c = c0
    BY <2>1, <1>1, <1>2, <1>4 DEF BeingRead, ConsumerInv, Threads
  <2>2. CASE c # c0
    <3>1. Free(c) \/ BeingWritten(c) \/ Stored(c) \/ BeingRead(c)
      BY DEF CellInv
    <3>2. CASE Free(c)
      BY <3>2, <1>1 DEF Free
    <3>3. CASE BeingWritten(c)
      BY <3>3, <1>1, <1>4 DEF BeingWritten, Threads
    <3>4. CASE Stored(c)
      BY <3>4, <2>2, <1>1, <1>6 DEF Stored
    <3>5. CASE BeingRead(c)
      BY <3>5, <1>1, <1>4 DEF BeingRead, Threads
    <3> QED
      BY <3>1, <3>2, <3>3, <3>4, <3>5
  <2> QED
    BY <2>1, <2>2
<1>10. PositionInv' /\ DistinctInv'
  BY <1>1, <1>4 DEF PositionInv, DistinctInv
<1> QED
  BY <1>3, <1>7, <1>8, <1>9, <1>10

LEMMA DequeueReleaseInv ==
  ASSUME IInv, NEW t \in Consumers, DequeueRelease(t)
  PROVE  IInv'
<1> USE QueueAssumption DEF IInv
<1> DEFINE c0 == Cell(pos[t])
<1>1. /\ pc[t] = "release" /\ pc' = [pc EXCEPT ![t] = "idle"]
      /\ sequence' = [sequence EXCEPT ![c0] = pos[t] + Size]
      /\ UNCHANGED <<enqueue_pos, dequeue_pos, data, pos, item, accepted>>
  BY DEF DequeueRelease, Goto
<1>2. Reading(t) /\ Inside(t) /\ c0 \in Cells /\ pos[t] \in Nat
  BY <1>1, CellType DEF Reading, Inside, TypeOK, Threads
<1>3. TypeOK'
  BY <1>1, <1>2 DEF TypeOK, Threads
<1>4. \A u \in Threads \ {t} : Writing(u)' = Writing(u) /\ Reading(u)' = Reading(u)
  BY <1>1 DEF Writing, Reading, TypeOK, Threads
<1>5. ~Writing(t)' /\ ~Reading(t)'
  BY <1>1 DEF Writing, Reading, TypeOK, Threads
<1>6. \A u \in Threads \ {t} : Inside(u) => Cell(pos[u]) # c0
  BY <1>2, ApartInv DEF NoCellRace, Threads
<1>7. sequence'[c0] = pos[t] + Size /\ \A c \in Cells \ {c0} : sequence'[c] = sequence[c]
  BY <1>1, <1>2 DEF TypeOK
<1>8. sequence[c0] = pos[t] + 1 /\ pos[t] < dequeue_pos /\ enqueue_pos <= pos[t] + Size
  BY <1>2 DEF ConsumerInv
<1>9. ProducerInv'
  <2> SUFFICES ASSUME NEW u \in Producers
               PROVE  ProducerInv!(u)'
    BY DEF ProducerInv
  <2>1. u # t /\ pc'[u] = pc[u] /\ pos[u] \in Nat /\ Cell(pos[u]) \in Cells
    BY <1>1, CellType DEF TypeOK, Threads
  <2>2. pc[u] = "claim" /\ pos[u] = enqueue_pos => sequence'[Cell(pos[u])] = pos[u]
    <3> SUFFICES ASSUME pc[u] = "claim", pos[u] = enqueue_pos, Cell(pos[u]) = c0
                 PROVE  FALSE
      BY <1>7, <2>1 DEF ProducerInv
    <3>1. pos[u] = pos[t] + 1
      BY <1>8 DEF ProducerInv
    <3> QED
      BY <3>1, <2>1, <1>2, CellGap
  <2> QED
    BY <1>1, <1>4, <1>6, <1>7, <2>1, <2>2 DEF ProducerInv, Threads, Writing, Inside
<1>10. ConsumerInv'
  <2> SUFFICES ASSUME NEW u \in Consumers
               PROVE  ConsumerInv!(u)'
    BY DEF ConsumerInv
  <2>1. CASE u = t
    BY <2>1, <1>1, <1>2, <1>5 DEF ConsumerInv, TypeOK, Threads
  <2>2. CASE u # t
    <3>1. pc'[u] = pc[u] /\ pos[u] \in Nat /\ Cell(pos[u]) \in Cells /\ dequeue_pos \in Nat
      BY <2>2, <1>1, CellType DEF TypeOK, Threads
    <3>2. pc[u] = "claim" /\ pos[u] = dequeue_pos => sequence'[Cell(pos[u])] = pos[u] + 1
      <4> SUFFICES ASSUME pc[u] = "claim", pos[u] = dequeue_pos, Cell(pos[u]) = c0
                   PROVE  FALSE
        BY <1>7, <3>1 DEF ConsumerInv
      <4>1. pos[u] + 1 = pos[t] + 1
        BY <1>8 DEF ConsumerInv
      <4> QED
        BY <4>1, <3>1, <1>2, <1>8
    <3> QED
      BY <2>2, <1>1, <1>4, <1>6, <1>7, <3>1, <3>2 DEF ConsumerInv, Threads, Reading, Inside
  <2> QED
    BY <2>1, <2>2
<1>11. CellInv'
  <2> SUFFICES ASSUME NEW c \in Cells
               PROVE  (Free(c) \/ BeingWritten(c) \/ Stored(c) \/ BeingRead(c))'
    BY DEF CellInv, Cells
  <2>1. CASE c = c0
    <3>0. dequeue_pos \in Nat
      BY DEF TypeOK
    <3>1. pos[t] + Size < dequeue_pos + Size /\ Cell(pos[t] + Size) = c0
      BY <3>0, <1>2, <1>8, CellLap
    <3>2. Free(c)'
      BY <2>1, <3>1, <1>1, <1>7, <1>8 DEF Free
    <3> QED
      BY <3>2
  <2>2. CASE c # c0
    <3>1. sequence'[c] = sequence[c]
      BY <2>2, <1>7
    <3>2. Free(c) \/ BeingWritten(c) \/ Stored(c) \/ BeingRead(c)
      BY DEF CellInv
    <3>3. CASE Free(c)
      BY <3>3, <3>1, <1>1 DEF Free
    <3>4. CASE BeingWritten(c)
      BY <3>4, <3>1, <2>2, <1>1, <1>4 DEF BeingWritten, Threads
    <3>5. CASE Stored(c)
      BY <3>5, <3>1, <1>1 DEF Stored
    <3>6. CASE BeingRead(c)
      BY <3>6, <3>1, <2>2, <1>1, <1>4 DEF BeingRead, Threads
    <3> QED
      BY <3>2, <3>3, <3>4, <3>5, <3>6
  <2> QED
    BY <2>1, <2>2
<1>12. PositionInv' /\ DistinctInv'
  BY <1>1, <1>4, <1>5 DEF PositionInv, DistinctInv
<1> QED
  BY <1>3, <1>9, <1>10, <1>11, <1>12
-----------------------------------------------------------------------------
LEMMA NextInv == IInv /\ [QueueNext]_queueVars => IInv'
<1> SUFFICES ASSUME IInv, [QueueNext]_queueVars PROVE IInv'
  OBVIOUS
<1>1. CASE UNCHANGED queueVars
  BY <1>1 DEF IInv, queueVars, shared, TypeOK, PositionInv, CellInv, Free, BeingWritten,
              Stored, BeingRead, ProducerInv, ConsumerInv, DistinctInv, Writing, Reading
<1>2. ASSUME NEW t \in Producers, Produce(t) PROVE IInv'
  BY <1>2, EnqueueInv, EnqueueCheckInv, EnqueueReloadInv, EnqueueClaimInv,
     EnqueueWriteInv, EnqueuePublishInv DEF Produce
<1>3. ASSUME NEW t \in Consumers, Consume(t) PROVE IInv'
  BY <1>3, DequeueInv, DequeueCheckInv, DequeueReloadInv, DequeueClaimInv,
     DequeueReadInv, DequeueReleaseInv DEF Consume
<1> QED
  BY <1>1, <1>2, <1>3 DEF QueueNext

LEMMA Invariance == QueueSpec => []IInv
BY InitInv, NextInv, PTL DEF QueueSpec

(* The types of the queue's state.                                         *)
THEOREM QueueTypes == QueueSpec => []TypeOK
<1>1. IInv => TypeOK
  BY DEF IInv
<1> QED
  BY <1>1, Invariance, PTL

(* No two threads touch the data of a cell at the same time.               *)
THEOREM QueueRaceFree == QueueSpec => []NoCellRace
BY ApartInv, Invariance, PTL

(* A consumer gets the item accepted at its position, nothing else.        *)
THEOREM QueueDelivers == QueueSpec => []GetsItsItem
<1>1. IInv => GetsItsItem
  BY DEF IInv, ConsumerInv, GetsItsItem
<1> QED
  BY <1>1, Invariance, PTL

(* enqueue refuses an item only when the queue is full.                    *)
THEOREM QueueFull == QueueSpec => RefusesOnlyWhenFull
<1>1. ASSUME IInv, [QueueNext]_queueVars, NEW t \in Producers,
             pc[t] = "check", pc'[t] = "idle"
      PROVE  /\ pos[t] = enqueue_pos
             /\ pos[t] >= Size
             /\ \/ dequeue_pos + Size <= pos[t]
                \/ \E c \in Consumers : Reading(c) /\ pos[c] + Size = pos[t]
  <2> USE <1>1, QueueAssumption DEF IInv
  <2> DEFINE c0 == Cell(pos[t])
  <2>1. EnqueueCheck(t)
    <3>1. ~UNCHANGED queueVars
      BY <1>1 DEF queueVars
    <3>2. ASSUME NEW u \in Consumers, Consume(u) PROVE FALSE
      BY <1>1, <3>2 DEF Consume, Dequeue, DequeueCheck, DequeueReload, DequeueClaim,
         DequeueRead, DequeueRelease, Goto, TypeOK, Threads
    <3>3. ASSUME NEW u \in Producers, Produce(u) PROVE EnqueueCheck(t)
      <4>1. u = t
        BY <1>1, <3>3 DEF Produce, Enqueue, EnqueueCheck, EnqueueReload, EnqueueClaim,
           EnqueueWrite, EnqueuePublish, Goto, TypeOK, Threads
      <4> QED
        BY <1>1, <3>3, <4>1 DEF Produce, Enqueue, EnqueueReload, EnqueueClaim,
           EnqueueWrite, EnqueuePublish
    <3> QED
      BY <1>1, <3>1, <3>2, <3>3 DEF QueueNext
  <2>2. sequence[c0] < pos[t]
    BY <2>1, <1>1 DEF EnqueueCheck, Goto, TypeOK, Threads
  <2>3. /\ c0 \in Cells /\ pos[t] \in Nat /\ pos[t] <= enqueue_pos
        /\ enqueue_pos \in Nat /\ dequeue_pos \in Nat /\ sequence[c0] \in Nat
    BY CellType DEF TypeOK, Threads, ProducerInv
  <2>4. enqueue_pos <= dequeue_pos + Size
    BY DEF PositionInv
  <2>5. ~Free(c0)
    BY <2>2, <2>3 DEF Free
  <2>6. CASE BeingWritten(c0)
    <3>1. PICK u \in Producers : Writing(u) /\ pos[u] = sequence[c0] /\ Cell(pos[u]) = c0
      BY <2>6 DEF BeingWritten
    <3>2. pos[u] \in Nat /\ pos[u] + Size <= pos[t]
      BY <3>1, <2>2, <2>3, CellGap
    <3>3. dequeue_pos <= pos[u]
      BY <3>1 DEF ProducerInv
    <3> QED
      BY <3>2, <3>3, <2>3, <2>4
  <2>7. CASE Stored(c0)
    <3>1. PICK p \in Nat : dequeue_pos <= p /\ Cell(p) = c0 /\ sequence[c0] = p + 1
      BY <2>7 DEF Stored
    <3>2. p + Size <= pos[t]
      BY <3>1, <2>2, <2>3, CellGap
    <3> QED
      BY <3>1, <3>2, <2>3, <2>4
  <2>8. CASE BeingRead(c0)
    <3>1. PICK c \in Consumers : Reading(c) /\ pos[c] + 1 = sequence[c0] /\ Cell(pos[c]) = c0
      BY <2>8 DEF BeingRead
    <3>2. pos[c] \in Nat
      BY DEF TypeOK, Threads
    <3>3. pos[c] + Size <= pos[t]
      BY <3>1, <3>2, <2>2, <2>3, CellGap
    <3>4. enqueue_pos <= pos[c] + Size
      BY <3>1 DEF ConsumerInv
    <3> QED
      BY <3>1, <3>2, <3>3, <3>4, <2>3
  <2> QED
    BY <2>3, <2>5, <2>6, <2>7, <2>8 DEF CellInv
<1>2. IInv /\ [QueueNext]_queueVars =>
        [\A t \in Producers : pc[t] = "check" /\ pc'[t] = "idle" =>
           /\ pos[t] = enqueue_pos
           /\ pos[t] >= Size
           /\ \/ dequeue_pos + Size <= pos[t]
              \/ \E c \in Consumers : Reading(c) /\ pos[c] + Size = pos[t]]_queueVars
  BY <1>1
<1> QED
  BY <1>2, Invariance, PTL DEF QueueSpec, RefusesOnlyWhenFull

(* dequeue finds nothing only when there is nothing that can be read next. *)
THEOREM QueueEmpty == QueueSpec => RefusesOnlyWhenEmpty
<1>1. ASSUME IInv, [QueueNext]_queueVars, NEW t \in Consumers,
             pc[t] = "check", pc'[t] = "idle"
      PROVE  /\ pos[t] = dequeue_pos
             /\ \/ enqueue_pos = pos[t]
                \/ \E p \in Producers : Writing(p) /\ pos[p] = pos[t]
  <2> USE <1>1, QueueAssumption DEF IInv
  <2> DEFINE c0 == Cell(pos[t])
  <2>1. DequeueCheck(t)
    <3>1. ~UNCHANGED queueVars
      BY <1>1 DEF queueVars
    <3>2. ASSUME NEW u \in Producers, Produce(u) PROVE FALSE
      BY <1>1, <3>2 DEF Produce, Enqueue, EnqueueCheck, EnqueueReload, EnqueueClaim,
         EnqueueWrite, EnqueuePublish, Goto, TypeOK, Threads
    <3>3. ASSUME NEW u \in Consumers, Consume(u) PROVE DequeueCheck(t)
      <4>1. u = t
        BY <1>1, <3>3 DEF Consume, Dequeue, DequeueCheck, DequeueReload, DequeueClaim,
           DequeueRead, DequeueRelease, Goto, TypeOK, Threads
      <4> QED
        BY <1>1, <3>3, <4>1 DEF Consume, Dequeue, DequeueReload, DequeueClaim,
           DequeueRead, DequeueRelease
    <3> QED
      BY <1>1, <3>1, <3>2, <3>3 DEF QueueNext
  <2>3. /\ c0 \in Cells /\ pos[t] \in Nat /\ pos[t] <= dequeue_pos
        /\ enqueue_pos \in Nat /\ dequeue_pos \in Nat /\ sequence[c0] \in Nat
    BY CellType DEF TypeOK, Threads, ConsumerInv
  <2>2. sequence[c0] <= pos[t]
    <3>1. ~(sequence[c0] > pos[t])
      BY <2>1, <2>3, <1>1 DEF DequeueCheck, Goto, TypeOK, Threads
    <3> QED
      BY <3>1, <2>3
  <2>4. dequeue_pos <= enqueue_pos /\ enqueue_pos <= dequeue_pos + Size
    BY DEF PositionInv
  <2>5. CASE Free(c0)
    BY <2>2, <2>3, <2>4, <2>5 DEF Free
  <2>6. CASE BeingWritten(c0)
    <3>1. PICK u \in Producers : Writing(u) /\ pos[u] = sequence[c0] /\ Cell(pos[u]) = c0
      BY <2>6 DEF BeingWritten
    <3>2. dequeue_pos <= pos[u]
      BY <3>1 DEF ProducerInv
    <3> QED
      BY <3>1, <3>2, <2>2, <2>3
  <2>7. ~Stored(c0)
    BY <2>2, <2>3 DEF Stored
  <2>8. CASE BeingRead(c0)
    <3>1. PICK c \in Consumers : Reading(c) /\ pos[c] + 1 = sequence[c0] /\ Cell(pos[c]) = c0
      BY <2>8 DEF BeingRead
    <3>2. pos[c] \in Nat
      BY DEF TypeOK, Threads
    <3>3. pos[c] + Size <= pos[t]
      BY <3>1, <3>2, <2>2, <2>3, CellGap
    <3>4. enqueue_pos <= pos[c] + Size
      BY <3>1 DEF ConsumerInv
    <3> QED
      BY <3>2, <3>3, <3>4, <2>3, <2>4
  <2> QED
    BY <2>3, <2>5, <2>6, <2>7, <2>8 DEF CellInv
<1>2. IInv /\ [QueueNext]_queueVars =>
        [\A t \in Consumers : pc[t] = "check" /\ pc'[t] = "idle" =>
           /\ pos[t] = dequeue_pos
           /\ \/ enqueue_pos = pos[t]
              \/ \E p \in Producers : Writing(p) /\ pos[p] = pos[t]]_queueVars
  BY <1>1
<1> QED
  BY <1>2, Invariance, PTL DEF QueueSpec, RefusesOnlyWhenEmpty

(* No call is refused without need.                                        *)
THEOREM QueueRefusals == QueueSpec => RefusalsJustified
BY QueueFull, QueueEmpty, PTL DEF RefusalsJustified

(* The ring with its lock-free protocol implements a bounded FIFO queue.   *)
THEOREM QueueIsFifo == QueueSpec => IsFifo
<1> USE QueueAssumption DEF Fifo!Full, Fifo!Put, Fifo!Take, Fifo!FifoNext, Fifo!fifoVars
<1>1. QueueInit => Fifo!FifoInit
  BY DEF QueueInit, Fifo!FifoInit
<1>2. ASSUME IInv, [QueueNext]_queueVars
      PROVE  [Fifo!FifoNext]_Fifo!fifoVars
  <2> USE <1>2 DEF IInv
  <2>1. CASE UNCHANGED queueVars
    BY <2>1 DEF queueVars, shared
  <2>2. ASSUME NEW t \in Producers, Produce(t)
        PROVE  [Fifo!FifoNext]_Fifo!fifoVars
    <3>1. CASE EnqueueClaim(t) /\ enqueue_pos = pos[t]
      <4>1. sequence[Cell(enqueue_pos)] = enqueue_pos /\ item[t] \in Items
        BY <3>1 DEF EnqueueClaim, ProducerInv
      <4>2. enqueue_pos < dequeue_pos + Size
        BY <4>1, FreeAhead
      <4>3. ~ (Len(accepted) - dequeue_pos >= Size)
        BY <4>2 DEF TypeOK
      <4>4. accepted' = Append(accepted, item[t]) /\ dequeue_pos' = dequeue_pos
        BY <3>1 DEF EnqueueClaim
      <4> QED
        BY <4>1, <4>3, <4>4
    <3>2. CASE ~(EnqueueClaim(t) /\ enqueue_pos = pos[t])
      BY <2>2, <3>2 DEF Produce, Enqueue, EnqueueCheck, EnqueueReload, EnqueueClaim,
         EnqueueWrite, EnqueuePublish, shared
    <3> QED
      BY <3>1, <3>2
  <2>3. ASSUME NEW t \in Consumers, Consume(t)
        PROVE  [Fifo!FifoNext]_Fifo!fifoVars
    <3>1. CASE DequeueClaim(t) /\ dequeue_pos = pos[t]
      <4>1. sequence[Cell(dequeue_pos)] = dequeue_pos + 1
        BY <3>1 DEF DequeueClaim, ConsumerInv
      <4>2. dequeue_pos < Len(accepted)
        BY <4>1, StoredAhead DEF TypeOK
      <4> QED
        BY <3>1, <4>2 DEF DequeueClaim
    <3>2. CASE ~(DequeueClaim(t) /\ dequeue_pos = pos[t])
      BY <2>3, <3>2 DEF Consume, Dequeue, DequeueCheck, DequeueReload, DequeueClaim,
         DequeueRead, DequeueRelease, shared
    <3> QED
      BY <3>1, <3>2
  <2> QED
    BY <1>2, <2>1, <2>2, <2>3 DEF QueueNext
<1> QED
  BY <1>1, <1>2, Invariance, PTL DEF QueueSpec, IsFifo, Fifo!FifoSpec
=============================================================================
