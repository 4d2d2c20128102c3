-------------------------- MODULE RotatingSinkProofs --------------------------
(***************************************************************************)
(* Proofs about the rotating log files, for every number and size of files *)
(* and of messages, and with failures and deaths at any step.              *)
(***************************************************************************)
EXTENDS RotatingSink, SequenceTheorems, TLAPS

Rotating == {"remove", "rename", "reopen"}

(* What is done to a file keeps it a sequence of entries.                  *)
LEMMA AppendEntry ==
  ASSUME NEW f \in Seq(Entries), NEW e \in Entries
  PROVE  /\ Append(f, e) \in Seq(Entries)
         /\ Len(Append(f, e)) = Len(f) + 1
         /\ DOMAIN Append(f, e) = 1..(Len(f) + 1)
         /\ \A k \in 1..Len(f) : Append(f, e)[k] = f[k]
         /\ Append(f, e)[Len(f) + 1] = e
  BY AppendProperties

LEMMA PrefixEntries ==
  ASSUME NEW f \in Seq(Entries), NEW k \in 0..Len(f)
  PROVE  /\ SubSeq(f, 1, k) \in Seq(Entries)
         /\ Len(SubSeq(f, 1, k)) = k
         /\ DOMAIN SubSeq(f, 1, k) = 1..k
         /\ \A j \in 1..k : SubSeq(f, 1, k)[j] = f[j]
<1> k \in Nat /\ 1 \in Nat /\ Len(f) \in Nat
  OBVIOUS
<1>1. /\ Len(SubSeq(f, 1, k)) = k
      /\ DOMAIN SubSeq(f, 1, k) = 1..k
      /\ \A j \in 1..k : SubSeq(f, 1, k)[j] = f[j]
  OBVIOUS
<1>2. SubSeq(f, 1, k) \in Seq(Entries)
  OBVIOUS
<1> QED BY <1>1, <1>2

LEMMA EmptyFile ==
  /\ << >> \in Seq(Entries) /\ Len(<< >>) = 0 /\ DOMAIN << >> = {}
  /\ Bytes(<< >>) = 0
  BY DEF Bytes

LEMMA BytesOf ==
  ASSUME NEW f \in Seq(Entries)
  PROVE  /\ Bytes(f) \in Nat
         /\ f # << >> => Len(f) \in DOMAIN f /\ Bytes(f) = f[Len(f)].end
<1>1. CASE f = << >>
  BY <1>1 DEF Bytes
<1>2. CASE f # << >>
  <2>1. Len(f) \in DOMAIN f /\ f[Len(f)] \in Entries
    BY <1>2
  <2> QED BY <1>2, <2>1 DEF Bytes, Entries
<1> QED BY <1>1, <1>2

(* A message is in the files when it is the number of some entry.          *)
LEMMA InFilesIs ==
  \A m : m \in InFiles <=> \E n \in FileNo : \E k \in DOMAIN file[n] : file[n][k].no = m
  BY DEF InFiles, NumbersIn
-----------------------------------------------------------------------------
(* As long as no file is open, in a rotation or after one that failed, the *)
(* size is above the limit, so that the next message rotates again; the    *)
(* file that the loop is about to overwrite has been renamed or removed    *)
(* before.  File 0 is there when it is open, and open when it is written.  *)
RotationInv ==
  /\ fd => 0 \in present
  /\ at = "write" => fd
  /\ at = "idle" /\ ~fd => current_size > MaxSize
  /\ at \in Rotating => ~fd /\ current_size > MaxSize
  /\ at = "remove" /\ i # MaxFiles => file[i] = << >>
  /\ at = "rename" => file[i] = << >>
  /\ at = "reopen" => file[0] = << >>

(* What the steps do to a file, pointwise.                                 *)
LEMMA Numbers == 0 \in FileNo /\ MaxFiles \in FileNo /\ \A n \in FileNo : n \in Nat
  BY SinkAssumption DEF FileNo

LEMMA Removed ==
  ASSUME FilesOK, StepsOK, RemoveTarget
  PROVE  /\ i \in FileNo
         /\ file'[i] = << >>
         /\ \A n \in FileNo \ {i} : file'[n] = file[n]
         /\ file' \in [FileNo -> Seq(Entries)]
  BY EmptyFile DEF FilesOK, StepsOK, RemoveTarget

LEMMA Renamed ==
  ASSUME FilesOK, StepsOK, RotationInv, RenameSource
  PROVE  /\ i \in FileNo /\ i - 1 \in FileNo /\ i # i - 1
         /\ file'[i] = file[i - 1]
         /\ file'[i - 1] = << >>
         /\ \A n \in FileNo \ {i, i - 1} : file'[n] = file[n]
         /\ file[i] = << >>
         /\ file' \in [FileNo -> Seq(Entries)]
<1>1. i \in FileNo /\ i - 1 \in FileNo /\ i # i - 1 /\ file[i] = << >>
  BY SinkAssumption DEF StepsOK, RotationInv, RenameSource, FileNo
<1>2. CASE i - 1 \in present
  BY <1>1, <1>2, EmptyFile DEF FilesOK, RenameSource
<1>3. CASE i - 1 \notin present
  <2>1. file[i - 1] = << >>
    BY <1>1, <1>3 DEF FilesOK
  <2> QED BY <1>1, <1>3, <2>1 DEF FilesOK, RenameSource, diskVars
<1> QED BY <1>1, <1>2, <1>3

LEMMA Reopened ==
  ASSUME FilesOK, RotationInv, Reopen
  PROVE  file' = file
<1>1. 0 \in FileNo /\ file[0] = << >>
  BY Numbers DEF RotationInv, Reopen
<1> QED BY <1>1 DEF FilesOK, Reopen

LEMMA Written ==
  ASSUME FilesOK, StepsOK, Write
  PROVE  LET e == [no |-> hand, end |-> Bytes(file[0]) + SizeOf[hand]] IN
         /\ file[0] \in Seq(Entries) /\ e \in Entries
         /\ hand \in Messages /\ SizeOf[hand] \in Nat \ {0}
         /\ file'[0] = Append(file[0], e)
         /\ \A n \in FileNo \ {0} : file'[n] = file[n]
         /\ file' \in [FileNo -> Seq(Entries)]
<1>1. file[0] \in Seq(Entries)
  BY Numbers DEF FilesOK
<1>2. hand \in Messages
  BY DEF StepsOK, Write
<1>3. SizeOf[hand] \in Nat \ {0}
  BY <1>2, SinkAssumption DEF Messages
<1>4. Bytes(file[0]) \in Nat
  BY <1>1, BytesOf
<1> DEFINE e == [no |-> hand, end |-> Bytes(file[0]) + SizeOf[hand]]
<1>5. e \in Entries
  BY <1>2, <1>3, <1>4 DEF Entries
<1>6. file' = [file EXCEPT ![0] = Append(file[0], e)]
  BY DEF Write
<1>7. Append(file[0], e) \in Seq(Entries)
  BY <1>1, <1>5, AppendEntry
<1> HIDE DEF e
<1>8. /\ file'[0] = Append(file[0], e)
      /\ \A n \in FileNo \ {0} : file'[n] = file[n]
      /\ file' \in [FileNo -> Seq(Entries)]
  BY <1>6, <1>7, Numbers DEF FilesOK
<1> QED BY <1>1, <1>2, <1>3, <1>5, <1>8 DEF e

LEMMA Died ==
  ASSUME FilesOK, Die
  PROVE  \E k \in 0..Len(file[0]) :
         /\ k >= flushed
         /\ file[0] \in Seq(Entries)
         /\ file'[0] = SubSeq(file[0], 1, k)
         /\ \A n \in FileNo \ {0} : file'[n] = file[n]
         /\ file' \in [FileNo -> Seq(Entries)]
         /\ flushed' = k
         /\ crashed' = crashed \cup ({hand} \ {0})
                          \cup {file[0][n].no : n \in (k + 1)..Len(file[0])}
<1>1. file[0] \in Seq(Entries) /\ Len(file[0]) \in Nat
  BY Numbers DEF FilesOK
<1>2. PICK k \in flushed..Len(file[0]) :
         /\ file' = [file EXCEPT ![0] = SubSeq(@, 1, k)]
         /\ flushed' = k
         /\ crashed' = crashed \cup ({hand} \ {0})
                          \cup {file[0][n].no : n \in (k + 1)..Len(file[0])}
  BY DEF Die
<1>3. k \in 0..Len(file[0]) /\ k >= flushed
  BY <1>1, <1>2 DEF FilesOK
<1>4. SubSeq(file[0], 1, k) \in Seq(Entries)
  BY <1>1, <1>3, PrefixEntries
<1>5. /\ file'[0] = SubSeq(file[0], 1, k)
      /\ \A n \in FileNo \ {0} : file'[n] = file[n]
      /\ file' \in [FileNo -> Seq(Entries)]
  BY <1>2, <1>4, Numbers DEF FilesOK
<1> QED BY <1>1, <1>2, <1>3, <1>5
-----------------------------------------------------------------------------
(* The steps that throw, as one.                                           *)
Failing == RemoveFails \/ RenameFails \/ ReopenFails \/ WriteFails

LEMMA SinkTypeInit == SinkInit => SinkTypeOK /\ RotationInv
<1> SUFFICES ASSUME SinkInit PROVE SinkTypeOK /\ RotationInv
  OBVIOUS
<1>1. file \in [FileNo -> Seq(Entries)] /\ \A n \in FileNo : file[n] = << >>
  BY EmptyFile DEF SinkInit
<1>2. FilesOK
  BY <1>1, Numbers, EmptyFile DEF SinkInit, FilesOK
<1>3. StepsOK /\ LossesOK /\ RotationInv
  BY Numbers DEF SinkInit, StepsOK, LossesOK, RotationInv, Rotating
<1> QED BY <1>2, <1>3 DEF SinkTypeOK

LEMMA FilesStep ==
  ASSUME FilesOK, StepsOK, RotationInv, [SinkNext]_sinkVars
  PROVE  FilesOK'
<1>0. /\ file[0] \in Seq(Entries) /\ Len(file[0]) \in Nat
      /\ flushed \in 0..Len(file[0]) /\ Len(file[0]) \in 0..Len(file[0])
  BY Numbers DEF FilesOK
<1>1. CASE UNCHANGED file /\ present \subseteq present' /\ present' \subseteq FileNo
           /\ flushed' \in 0..Len(file[0])
  BY <1>1 DEF FilesOK
<1>2. CASE OpenSink
  BY <1>0, <1>1, <1>2, Numbers DEF OpenSink, FilesOK
<1>3. CASE CloseSink \/ FlushSink
  BY <1>0, <1>1, <1>3 DEF CloseSink, FlushSink, FilesOK
<1>4. ASSUME NEW m \in Messages, SinkIt(m) PROVE FilesOK'
  BY <1>0, <1>1, <1>4 DEF SinkIt, FilesOK
<1>5. CASE RemoveTarget
  <2>1. Len(file'[0]) = Len(file[0])
    BY <1>5, Removed, Numbers DEF RemoveTarget, StepsOK
  <2>2. present' \subseteq FileNo /\ \A n \in FileNo \ present' : file'[n] = << >>
    BY <1>5, Removed DEF RemoveTarget, FilesOK
  <2> QED BY <1>0, <1>5, <2>1, <2>2, Removed DEF RemoveTarget, FilesOK
<1>6. CASE RenameSource
  <2>1. present' \subseteq FileNo /\ \A n \in FileNo \ present' : file'[n] = << >>
    BY <1>6, Renamed DEF RenameSource, FilesOK, diskVars
  <2>2. CASE i = 1
    <3>1. Len(file'[0]) = 0 /\ flushed' = 0
      BY <1>0, <1>6, <2>2, Renamed, EmptyFile, Numbers DEF RenameSource, diskVars, FilesOK
    <3> QED BY <3>1, <2>1, <1>6, Renamed DEF FilesOK
  <2>3. CASE i # 1
    <3>1. file'[0] = file[0] /\ flushed' = flushed
      BY <1>6, <2>3, Renamed, Numbers DEF RenameSource, diskVars, StepsOK
    <3> QED BY <1>0, <3>1, <2>1, <1>6, Renamed DEF FilesOK
  <2> QED BY <2>2, <2>3
<1>7. CASE Failing
  BY <1>0, <1>1, <1>7 DEF Failing, RemoveFails, RenameFails, ReopenFails, WriteFails,
     Throw, diskVars, FilesOK
<1>8. CASE Reopen
  BY <1>0, <1>1, <1>8, Reopened, Numbers DEF Reopen, FilesOK
<1>9. CASE Write
  <2>1. flushed' \in 0..Len(file'[0])
    BY <1>0, <1>9, Written, AppendEntry DEF Write
  <2>2. \A n \in FileNo \ present' : file'[n] = << >>
    BY <1>9, Written DEF Write, RotationInv, FilesOK
  <2> QED BY <1>9, <2>1, <2>2, Written DEF Write, FilesOK
<1>10. CASE Die
  <2>1. PICK k \in 0..Len(file[0]) :
           /\ file'[0] = SubSeq(file[0], 1, k)
           /\ \A n \in FileNo \ {0} : file'[n] = file[n]
           /\ file' \in [FileNo -> Seq(Entries)]
           /\ flushed' = k
    BY <1>10, Died
  <2>2. Len(file'[0]) = k /\ k \in 0..k
    BY <1>0, <2>1, PrefixEntries
  <2>3. present' = present
    BY <1>10 DEF Die
  <2>4. \A n \in FileNo \ present' : file'[n] = << >>
    <3>1. 0 \notin present => file'[0] = << >>
      BY <1>0, <2>1, <2>2, Numbers, EmptyFile DEF FilesOK
    <3> QED BY <2>1, <2>3, <3>1 DEF FilesOK
  <2> QED BY <2>1, <2>2, <2>3, <2>4 DEF FilesOK
<1>11. CASE UNCHANGED sinkVars
  BY <1>0, <1>1, <1>11 DEF sinkVars, diskVars, FilesOK
<1> QED
  BY <1>2, <1>3, <1>4, <1>5, <1>6, <1>7, <1>8, <1>9, <1>10, <1>11
  DEF SinkNext, SinkStep, Failing

LEMMA StepsStep ==
  ASSUME FilesOK, StepsOK, RotationInv, [SinkNext]_sinkVars
  PROVE  StepsOK' /\ RotationInv'
<1> USE DEF StepsOK, RotationInv, Rotating
<1>1. CASE OpenSink
  <2>1. Bytes(file[0]) \in Nat
    BY BytesOf, Numbers DEF FilesOK
  <2> QED BY <1>1, <2>1 DEF OpenSink
<1>2. CASE CloseSink
  BY <1>2 DEF CloseSink
<1>11. CASE FlushSink
  <2>1. UNCHANGED <<present, file, fd, current_size, at, i, hand>>
    BY <1>11 DEF FlushSink, stepVars
  <2> QED BY <2>1
<1>3. ASSUME NEW m \in Messages, SinkIt(m) PROVE StepsOK' /\ RotationInv'
  <2>1. SizeOf[m] \in Nat /\ MaxFiles # 0 /\ MaxSize \in Nat /\ m # 0
    BY SinkAssumption DEF Messages
  <2>2. CASE current_size + SizeOf[m] > MaxSize
    <3>1. /\ hand' = m /\ current_size' = current_size + SizeOf[m] /\ at' = "remove"
          /\ i' = MaxFiles /\ fd' = FALSE /\ UNCHANGED <<present, file>>
      BY <1>3, <2>2 DEF SinkIt
    <3>2. StepsOK'
      <4>1. current_size' \in Nat
        BY <2>1, <3>1
      <4>2. hand' \in Messages /\ hand' # 0 /\ i' \in FileNo /\ i' # 0
        BY <2>1, <3>1, Numbers
      <4> QED BY <3>1, <4>1, <4>2
    <3>3. RotationInv'
      BY <2>2, <3>1
    <3> QED BY <3>2, <3>3
  <2>3. CASE ~(current_size + SizeOf[m] > MaxSize)
    <3>1. /\ hand' = m /\ current_size' = current_size + SizeOf[m] /\ at' = "write"
          /\ at = "idle" /\ UNCHANGED <<i, fd, present, file>>
      BY <1>3, <2>3 DEF SinkIt
    <3>2. fd
      BY <2>1, <2>3, <3>1
    <3> QED BY <2>1, <3>1, <3>2
  <2> QED BY <2>2, <2>3
<1>4. CASE RemoveTarget
  BY <1>4, Removed DEF RemoveTarget
<1>5. CASE RenameSource
  <2>1. present' = IF i - 1 \in present THEN (present \ {i - 1}) \cup {i} ELSE present
    BY <1>5 DEF RenameSource, diskVars
  <2>2. CASE i = 1
    BY <1>5, <2>1, <2>2, Renamed DEF RenameSource
  <2>3. CASE i # 1
    <3>1. i' # 0 /\ i' = i - 1 /\ at' = "remove" /\ file'[i'] = << >>
      BY <1>5, <2>3, Renamed, Numbers DEF RenameSource
    <3> QED BY <1>5, <3>1, Renamed DEF RenameSource
  <2> QED BY <2>2, <2>3
<1>6. CASE Failing
  BY <1>6 DEF Failing, RemoveFails, RenameFails, ReopenFails, WriteFails, Throw, diskVars
<1>7. CASE Reopen
  <2>1. SizeOf[hand] \in Nat
    BY <1>7, SinkAssumption DEF Reopen, Messages
  <2> QED BY <1>7, <2>1 DEF Reopen
<1>8. CASE Write
  BY <1>8 DEF Write
<1>9. CASE Die
  BY <1>9 DEF Die
<1>10. CASE UNCHANGED sinkVars
  BY <1>10 DEF sinkVars, diskVars, stepVars
<1> QED
  BY <1>1, <1>2, <1>3, <1>4, <1>5, <1>6, <1>7, <1>8, <1>9, <1>10, <1>11
  DEF SinkNext, SinkStep, Failing

LEMMA LossesStep ==
  ASSUME SinkTypeOK, RotationInv, [SinkNext]_sinkVars
  PROVE  LossesOK'
<1> USE DEF LossesOK
<1>1. CASE OpenSink \/ CloseSink \/ FlushSink \/ RenameSource \/ Reopen \/ Write
           \/ UNCHANGED sinkVars
  BY <1>1 DEF OpenSink, CloseSink, FlushSink, RenameSource, Reopen, Write, sinkVars,
     lossVars, SinkTypeOK
<1>2. ASSUME NEW m \in Messages, SinkIt(m) PROVE LossesOK'
  BY <1>2 DEF SinkIt, SinkTypeOK
<1>3. CASE RemoveTarget
  <2>1. NumbersIn(file[i]) \subseteq Messages
    <3>1. file[i] \in Seq(Entries)
      BY DEF SinkTypeOK, FilesOK, StepsOK
    <3>2. \A n \in DOMAIN file[i] : file[i][n] \in Entries
      BY <3>1
    <3> QED BY <3>2 DEF NumbersIn, Entries
  <2> QED BY <1>3, <2>1 DEF RemoveTarget, SinkTypeOK
<1>4. CASE Failing
  <2>1. hand \in Messages
    BY <1>4 DEF Failing, RemoveFails, RenameFails, ReopenFails, WriteFails, SinkTypeOK, StepsOK
  <2> QED
    BY <1>4, <2>1 DEF Failing, RemoveFails, RenameFails, ReopenFails, WriteFails,
       Throw, SinkTypeOK
<1>5. CASE Die
  <2>1. \A n \in DOMAIN file[0] : file[0][n].no \in Messages
    <3>1. file[0] \in Seq(Entries)
      BY Numbers DEF SinkTypeOK, FilesOK
    <3>2. \A n \in DOMAIN file[0] : file[0][n] \in Entries
      BY <3>1
    <3> QED BY <3>2 DEF Entries
  <2>2. PICK k \in 0..Len(file[0]) :
           /\ file[0] \in Seq(Entries)
           /\ crashed' = crashed \cup ({hand} \ {0})
                            \cup {file[0][n].no : n \in (k + 1)..Len(file[0])}
    BY <1>5, Died DEF SinkTypeOK
  <2>3. {file[0][n].no : n \in (k + 1)..Len(file[0])} \subseteq Messages
    BY <2>1, <2>2
  <2>4. crashed' \subseteq Messages
    BY <2>2, <2>3 DEF SinkTypeOK, StepsOK
  <2> QED BY <1>5, <2>4 DEF Die, SinkTypeOK
<1> QED
  BY <1>1, <1>2, <1>3, <1>4, <1>5 DEF SinkNext, SinkStep, Failing

LEMMA SinkTypeStep ==
  SinkTypeOK /\ RotationInv /\ [SinkNext]_sinkVars => SinkTypeOK' /\ RotationInv'
  BY FilesStep, StepsStep, LossesStep DEF SinkTypeOK

(* Every variable of the sink keeps its type, and a rotation never renames *)
(* a file over one that still holds messages.                              *)
THEOREM SinkTypes == SinkSpec => [](SinkTypeOK /\ RotationInv)
  BY SinkTypeInit, SinkTypeStep, PTL DEF SinkSpec
-----------------------------------------------------------------------------
(* The size the sink remembers is at least that of the open file, with the *)
(* message in its hand when that is about to be written; only the first    *)
(* message of a file may end above the limit.                              *)
SizeInv ==
  /\ at = "idle" /\ fd => current_size >= Bytes(file[0])
  /\ at = "write" => /\ current_size >= Bytes(file[0]) + SizeOf[hand]
                     /\ file[0] = << >> \/ current_size <= MaxSize
  /\ \A n \in FileNo : \A k \in DOMAIN file[n] : k = 1 \/ file[n][k].end <= MaxSize

LEMMA SizeInit == SinkInit => SizeInv
<1> SUFFICES ASSUME SinkInit PROVE SizeInv
  OBVIOUS
<1>1. \A n \in FileNo : file[n] = << >> /\ DOMAIN file[n] = {}
  BY EmptyFile DEF SinkInit
<1> QED BY <1>1 DEF SinkInit, SizeInv

LEMMA SizeStep ==
  ASSUME SinkTypeOK, RotationInv, SizeInv, [SinkNext]_sinkVars
  PROVE  SizeInv'
<1> USE DEF SizeInv
<1>0. /\ file[0] \in Seq(Entries) /\ Bytes(file[0]) \in Nat /\ current_size \in Nat
      /\ MaxSize \in Nat /\ fd \in BOOLEAN
  BY Numbers, BytesOf, SinkAssumption DEF SinkTypeOK, FilesOK, StepsOK
<1>1. CASE OpenSink
  BY <1>0, <1>1 DEF OpenSink
<1>2. CASE CloseSink
  BY <1>2 DEF CloseSink
<1>3. CASE FlushSink
  <2>1. UNCHANGED <<file, fd, current_size, at, hand>>
    BY <1>3 DEF FlushSink, stepVars
  <2> QED BY <2>1
<1>4. ASSUME NEW m \in Messages, SinkIt(m) PROVE SizeInv'
  <2>1. SizeOf[m] \in Nat
    BY SinkAssumption DEF Messages
  <2>2. /\ hand' = m /\ current_size' = current_size + SizeOf[m]
        /\ at = "idle" /\ file' = file
    BY <1>4 DEF SinkIt
  <2>3. CASE current_size + SizeOf[m] > MaxSize
    BY <1>4, <2>2, <2>3 DEF SinkIt
  <2>4. CASE ~(current_size + SizeOf[m] > MaxSize)
    <3>1. at' = "write" /\ fd /\ current_size + SizeOf[m] <= MaxSize
      BY <1>0, <1>4, <2>1, <2>2, <2>4 DEF SinkIt, RotationInv
    <3> QED BY <1>0, <2>1, <2>2, <3>1
  <2> QED BY <2>3, <2>4
<1>5. CASE RemoveTarget
  <2>1. \A n \in FileNo : \A k \in DOMAIN file'[n] : k = 1 \/ file'[n][k].end <= MaxSize
    BY <1>5, Removed, EmptyFile DEF SinkTypeOK
  <2> QED BY <1>5, <2>1 DEF RemoveTarget
<1>6. CASE RenameSource
  <2>1. \A n \in FileNo : \A k \in DOMAIN file'[n] : k = 1 \/ file'[n][k].end <= MaxSize
    BY <1>6, Renamed, EmptyFile DEF SinkTypeOK
  <2>2. at' \notin {"idle", "write"}
    BY <1>6 DEF RenameSource
  <2> QED BY <2>1, <2>2
<1>7. CASE Failing
  <2>1. /\ UNCHANGED <<file, fd, current_size>> /\ at' = "idle"
        /\ at \in Rotating \cup {"write"}
    BY <1>7 DEF Failing, RemoveFails, RenameFails, ReopenFails, WriteFails, Throw,
       diskVars, Rotating
  <2>2. CASE at = "write"
    <3>1. hand \in Messages
      BY <2>2 DEF SinkTypeOK, StepsOK
    <3>2. SizeOf[hand] \in Nat
      BY <3>1, SinkAssumption DEF Messages
    <3> QED BY <1>0, <2>1, <2>2, <3>2
  <2>3. CASE at \in Rotating
    BY <2>1, <2>3 DEF RotationInv
  <2> QED BY <2>1, <2>2, <2>3
<1>8. CASE Reopen
  <2>1. file' = file /\ at' = "write" /\ current_size' = SizeOf[hand] /\ hand' = hand
    BY <1>8, Reopened DEF Reopen, SinkTypeOK
  <2>2. file[0] = << >> /\ hand \in Messages
    BY <1>8 DEF Reopen, RotationInv, SinkTypeOK, StepsOK
  <2>3. SizeOf[hand] \in Nat
    BY <2>2, SinkAssumption DEF Messages
  <2> QED BY <2>1, <2>2, <2>3, EmptyFile
<1>9. CASE Write
  <2> DEFINE e == [no |-> hand, end |-> Bytes(file[0]) + SizeOf[hand]]
  <2>1. /\ e \in Entries /\ SizeOf[hand] \in Nat
        /\ file'[0] = Append(file[0], e)
        /\ \A n \in FileNo \ {0} : file'[n] = file[n]
    BY <1>9, Written DEF SinkTypeOK
  <2>2. e.end = Bytes(file[0]) + SizeOf[hand]
    OBVIOUS
  <2> HIDE DEF e
  <2>3. /\ DOMAIN file'[0] = 1..(Len(file[0]) + 1) /\ Len(file'[0]) = Len(file[0]) + 1
        /\ \A k \in 1..Len(file[0]) : file'[0][k] = file[0][k]
        /\ file'[0][Len(file[0]) + 1] = e
        /\ file'[0] \in Seq(Entries)
    BY <1>0, <2>1, AppendEntry
  <2>4. Bytes(file'[0]) = e.end
    <3>1. file'[0] # << >>
      BY <1>0, <2>3
    <3> QED BY <2>3, <3>1 DEF Bytes
  <2>5. current_size >= e.end /\ (file[0] = << >> \/ e.end <= MaxSize)
    BY <1>0, <1>9, <2>1, <2>2 DEF Write
  <2>6. \A k \in DOMAIN file'[0] : k = 1 \/ file'[0][k].end <= MaxSize
    <3> TAKE k \in DOMAIN file'[0]
    <3>1. CASE k \in 1..Len(file[0])
      BY <1>0, <2>3, <3>1, Numbers
    <3>2. CASE k = Len(file[0]) + 1
      BY <1>0, <2>3, <2>5, <3>2, EmptyFile
    <3> QED BY <1>0, <2>3, <3>1, <3>2
  <2>7. at' = "idle" /\ current_size' = current_size
    BY <1>9 DEF Write
  <2> QED BY <2>1, <2>4, <2>5, <2>6, <2>7
<1>10. CASE Die
  <2>1. PICK k \in 0..Len(file[0]) :
           /\ file'[0] = SubSeq(file[0], 1, k)
           /\ \A n \in FileNo \ {0} : file'[n] = file[n]
    BY <1>10, Died DEF SinkTypeOK
  <2>2. \A j \in DOMAIN file'[0] : j \in DOMAIN file[0] /\ file'[0][j] = file[0][j]
    BY <1>0, <2>1, PrefixEntries
  <2>3. at' = "off"
    BY <1>10 DEF Die
  <2> QED BY <2>1, <2>2, <2>3, Numbers
<1>11. CASE UNCHANGED sinkVars
  BY <1>11 DEF sinkVars, diskVars, stepVars
<1> QED
  BY <1>1, <1>2, <1>3, <1>4, <1>5, <1>6, <1>7, <1>8, <1>9, <1>10, <1>11
  DEF SinkNext, SinkStep, Failing

(* The sink never writes to a file that is not open, and no file grows     *)
(* beyond the limit, except for a single message.                          *)
THEOREM SinkBounds == SinkSpec => []WritesWithinBounds
<1>1. SinkTypeOK /\ RotationInv /\ SizeInv => WritesWithinBounds
  <2> SUFFICES ASSUME SinkTypeOK, RotationInv, SizeInv, NEW n \in FileNo
               PROVE  Bytes(file[n]) <= MaxSize \/ Len(file[n]) <= 1
    BY DEF WritesWithinBounds, RotationInv
  <2>1. file[n] \in Seq(Entries) /\ Len(file[n]) \in Nat /\ MaxSize \in Nat
    BY SinkAssumption DEF SinkTypeOK, FilesOK
  <2>2. CASE file[n] = << >>
    BY <2>1, <2>2, EmptyFile
  <2>3. CASE file[n] # << >>
    BY <2>1, <2>3, BytesOf DEF SizeInv
  <2> QED BY <2>2, <2>3
<1> QED
  BY <1>1, SinkTypes, SizeInit, SizeStep, PTL DEF SinkSpec
-----------------------------------------------------------------------------
Lost == deleted \cup failed \cup crashed

(* The message in the hand is the newest, and nowhere else.                *)
HandInv ==
  hand # 0 => hand \in given /\ hand \notin InFiles \cup Lost /\ \A g \in given : g <= hand

AllIn == InFiles \cup ({hand} \ {0}) \cup Lost

LossInv ==
  /\ given = AllIn
  /\ InFiles \cap Lost = {}

(* A message is in the files when it is the number of some entry, after a  *)
(* step too.                                                               *)
LEMMA InFilesNext ==
  \A m : m \in InFiles' <=> \E n \in FileNo : \E k \in DOMAIN file'[n] : file'[n][k].no = m
  BY DEF InFiles, NumbersIn

LEMMA EntryTypes ==
  ASSUME FilesOK
  PROVE  \A n \in FileNo : /\ file[n] \in Seq(Entries)
                           /\ \A k \in DOMAIN file[n] : file[n][k].no \in Nat
<1>1. \A n \in FileNo : file[n] \in Seq(Entries)
  BY DEF FilesOK
<1>2. \A n \in FileNo : \A k \in DOMAIN file[n] : file[n][k] \in Entries
  BY <1>1
<1>3. \A e \in Entries : e.no \in Nat
  BY DEF Entries, Messages
<1> QED BY <1>1, <1>2, <1>3

(* Steps that leave the files alone, the messages' numbers included.       *)
LEMMA SameFiles ==
  ASSUME file' = file
  PROVE  InFiles' = InFiles
  BY DEF InFiles, NumbersIn

(* Removing file i takes out its messages, which are the oldest.           *)
LEMMA RemovedMessages ==
  ASSUME FilesOK, StepsOK, RotationInv, FilesInOrder, RemoveTarget
  PROVE  /\ InFiles = InFiles' \cup NumbersIn(file[i])
         /\ \A d \in NumbersIn(file[i]), m \in InFiles' : d < m
<1>1. /\ i \in FileNo /\ file'[i] = << >> /\ DOMAIN file'[i] = {}
      /\ \A n \in FileNo \ {i} : file'[n] = file[n]
  BY Removed, EmptyFile
<1>2. InFiles = InFiles' \cup NumbersIn(file[i])
  <2>1. ASSUME NEW m \in InFiles PROVE m \in InFiles' \cup NumbersIn(file[i])
    BY <1>1, <2>1, InFilesIs, InFilesNext DEF NumbersIn
  <2>2. ASSUME NEW m \in InFiles' PROVE m \in InFiles
    BY <1>1, <2>2, InFilesIs, InFilesNext
  <2>3. ASSUME NEW m \in NumbersIn(file[i]) PROVE m \in InFiles
    BY <1>1, <2>3, InFilesIs DEF NumbersIn
  <2> QED BY <2>1, <2>2, <2>3
<1>3. ASSUME NEW d \in NumbersIn(file[i]), NEW m \in InFiles' PROVE d < m
  <2>1. PICK a \in DOMAIN file[i] : file[i][a].no = d
    BY DEF NumbersIn
  <2>2. PICK n \in FileNo : \E b \in DOMAIN file'[n] : file'[n][b].no = m
    BY InFilesNext
  <2>3. n # i /\ file'[n] = file[n]
    BY <1>1, <2>2
  <2>4. PICK b \in DOMAIN file[n] : file[n][b].no = m
    BY <2>2, <2>3
  <2>5. file[i] # << >>
    BY <2>1, EmptyFile
  <2>6. i = MaxFiles
    BY <2>5 DEF RotationInv, RemoveTarget
  <2>7. i > n
    BY <2>3, <2>6, SinkAssumption DEF FileNo
  <2> QED BY <1>1, <2>1, <2>4, <2>7 DEF FilesInOrder
<1> QED BY <1>2, <1>3

(* Renaming moves the messages of one file to the next, which is empty.    *)
LEMMA RenamedMessages ==
  ASSUME FilesOK, StepsOK, RotationInv, RenameSource
  PROVE  InFiles' = InFiles
<1>1. /\ i \in FileNo /\ i - 1 \in FileNo /\ i # i - 1
      /\ file'[i] = file[i - 1] /\ file'[i - 1] = << >> /\ file[i] = << >>
      /\ \A n \in FileNo \ {i, i - 1} : file'[n] = file[n]
  BY Renamed
<1>2. ASSUME NEW m \in InFiles PROVE m \in InFiles'
  <2>1. PICK n \in FileNo : \E k \in DOMAIN file[n] : file[n][k].no = m
    BY InFilesIs
  <2>2. n # i
    BY <1>1, <2>1, EmptyFile
  <2>3. CASE n = i - 1
    BY <1>1, <2>1, <2>3, InFilesNext
  <2>4. CASE n # i - 1
    BY <1>1, <2>1, <2>2, <2>4, InFilesNext
  <2> QED BY <2>3, <2>4
<1>3. ASSUME NEW m \in InFiles' PROVE m \in InFiles
  <2>1. PICK n \in FileNo : \E k \in DOMAIN file'[n] : file'[n][k].no = m
    BY InFilesNext
  <2>2. n # i - 1
    BY <1>1, <2>1, EmptyFile
  <2>3. CASE n = i
    BY <1>1, <2>1, <2>3, InFilesIs
  <2>4. CASE n # i
    BY <1>1, <2>1, <2>2, <2>4, InFilesIs
  <2> QED BY <2>3, <2>4
<1> QED BY <1>2, <1>3

(* A written message is behind all others of file 0.                       *)
LEMMA WrittenEntries ==
  ASSUME FilesOK, StepsOK, Write
  PROVE  /\ Len(file[0]) \in Nat
         /\ DOMAIN file[0] = 1..Len(file[0])
         /\ DOMAIN file'[0] = 1..(Len(file[0]) + 1)
         /\ \A k \in DOMAIN file[0] : file'[0][k] = file[0][k]
         /\ file'[0][Len(file[0]) + 1].no = hand
         /\ \A n \in FileNo \ {0} : file'[n] = file[n]
         /\ InFiles' = InFiles \cup {hand}
<1> DEFINE e == [no |-> hand, end |-> Bytes(file[0]) + SizeOf[hand]]
<1>1. /\ file[0] \in Seq(Entries) /\ e \in Entries
      /\ file'[0] = Append(file[0], e)
      /\ \A n \in FileNo \ {0} : file'[n] = file[n]
  BY Written
<1>2. e.no = hand
  OBVIOUS
<1> HIDE DEF e
<1>3. /\ DOMAIN file'[0] = 1..(Len(file[0]) + 1)
      /\ \A k \in 1..Len(file[0]) : file'[0][k] = file[0][k]
      /\ file'[0][Len(file[0]) + 1] = e
  BY <1>1, AppendEntry
<1>4. Len(file[0]) \in Nat /\ DOMAIN file[0] = 1..Len(file[0])
  BY <1>1
<1>5. ASSUME NEW m \in InFiles' PROVE m \in InFiles \cup {hand}
  <2>8. PICK n \in FileNo : \E k \in DOMAIN file'[n] : file'[n][k].no = m
    BY InFilesNext
  <2>1. PICK k \in DOMAIN file'[n] : file'[n][k].no = m
    BY <2>8
  <2>2. CASE n = 0 /\ k = Len(file[0]) + 1
    BY <1>2, <1>3, <2>1, <2>2
  <2>3. CASE n = 0 /\ k # Len(file[0]) + 1
    <3>1. k \in DOMAIN file[0]
      BY <1>3, <1>4, <2>1, <2>3
    <3> QED BY <1>3, <1>4, <2>1, <2>3, <3>1, InFilesIs
  <2>4. CASE n # 0
    BY <1>1, <2>1, <2>4, InFilesIs
  <2> QED BY <2>2, <2>3, <2>4
<1>6. ASSUME NEW m \in InFiles PROVE m \in InFiles'
  <2>8. PICK n \in FileNo : \E k \in DOMAIN file[n] : file[n][k].no = m
    BY InFilesIs
  <2>1. PICK k \in DOMAIN file[n] : file[n][k].no = m
    BY <2>8
  <2>2. k \in DOMAIN file'[n] /\ file'[n][k] = file[n][k]
    BY <1>1, <1>3, <1>4, <2>1
  <2> QED BY <2>1, <2>2, InFilesNext
<1>7. hand \in InFiles'
  <2>1. Len(file[0]) + 1 \in DOMAIN file'[0]
    BY <1>3, <1>4
  <2> QED BY <1>2, <1>3, <2>1, Numbers, InFilesNext
<1> QED BY <1>1, <1>2, <1>3, <1>4, <1>5, <1>6, <1>7

(* A death cuts off the end of file 0, whose messages are counted.         *)
LEMMA DiedEntries ==
  ASSUME FilesOK, Die, FilesInOrder
  PROVE  /\ \A n \in FileNo : \A j \in DOMAIN file'[n] :
              j \in DOMAIN file[n] /\ file'[n][j] = file[n][j]
         /\ \E cut \in SUBSET InFiles :
              /\ crashed' = crashed \cup ({hand} \ {0}) \cup cut
              /\ InFiles' = InFiles \ cut
<1>1. PICK k \in 0..Len(file[0]) :
         /\ file[0] \in Seq(Entries)
         /\ file'[0] = SubSeq(file[0], 1, k)
         /\ \A n \in FileNo \ {0} : file'[n] = file[n]
         /\ crashed' = crashed \cup ({hand} \ {0})
                          \cup {file[0][n].no : n \in (k + 1)..Len(file[0])}
  BY Died
<1> DEFINE cut == {file[0][n].no : n \in (k + 1)..Len(file[0])}
<1>2. /\ Len(file[0]) \in Nat /\ k \in Nat /\ DOMAIN file[0] = 1..Len(file[0])
      /\ DOMAIN file'[0] = 1..k
      /\ \A j \in 1..k : file'[0][j] = file[0][j]
  BY <1>1, PrefixEntries
<1>3. \A n \in FileNo : \A j \in DOMAIN file'[n] :
        j \in DOMAIN file[n] /\ file'[n][j] = file[n][j]
  BY <1>1, <1>2
<1>4. ASSUME NEW m \in cut PROVE m \in InFiles /\ m \notin InFiles'
  <2>1. PICK a \in (k + 1)..Len(file[0]) : file[0][a].no = m
    OBVIOUS
  <2>2. a \in DOMAIN file[0] /\ a > k
    BY <1>2, <2>1
  <2>3. m \in InFiles
    BY <2>1, <2>2, InFilesIs, Numbers
  <2>4. ASSUME m \in InFiles' PROVE FALSE
    <3>8. PICK n \in FileNo : \E j \in DOMAIN file'[n] : file'[n][j].no = m
      BY <2>4, InFilesNext
    <3>1. PICK j \in DOMAIN file'[n] : file'[n][j].no = m
      BY <3>8
    <3>2. j \in DOMAIN file[n] /\ file[n][j].no = m
      BY <1>3, <3>1
    <3>3. n > 0 \/ (n = 0 /\ j < a)
      BY <1>2, <2>2, <3>1, Numbers
    <3>4. file[n][j].no < file[0][a].no
      BY <2>2, <3>2, <3>3, Numbers DEF FilesInOrder
    <3>5. m \in Nat
      BY <3>2, EntryTypes
    <3> QED BY <2>1, <3>2, <3>4, <3>5
  <2> QED BY <2>3, <2>4
<1>5. ASSUME NEW m \in InFiles, m \notin cut PROVE m \in InFiles'
  <2>8. PICK n \in FileNo : \E j \in DOMAIN file[n] : file[n][j].no = m
    BY InFilesIs
  <2>1. PICK j \in DOMAIN file[n] : file[n][j].no = m
    BY <2>8
  <2>2. CASE n = 0
    <3>1. j \in 1..k
      BY <1>2, <1>5, <2>1, <2>2
    <3> QED BY <1>2, <2>1, <2>2, <3>1, InFilesNext
  <2>3. CASE n # 0
    BY <1>1, <2>1, <2>3, InFilesNext
  <2> QED BY <2>2, <2>3
<1>6. ASSUME NEW m \in InFiles' PROVE m \in InFiles
  BY <1>3, <1>6, InFilesIs, InFilesNext
<1>7. cut \in SUBSET InFiles /\ InFiles' = InFiles \ cut
  BY <1>4, <1>5, <1>6
<1> QED BY <1>1, <1>3, <1>7

-----------------------------------------------------------------------------
LEMMA OrderInit == SinkInit => FilesInOrder /\ HandInv /\ LossInv
<1> SUFFICES ASSUME SinkInit PROVE FilesInOrder /\ HandInv /\ LossInv
  OBVIOUS
<1>1. \A n \in FileNo : DOMAIN file[n] = {}
  BY EmptyFile DEF SinkInit
<1>2. InFiles = {}
  BY <1>1, InFilesIs
<1> QED BY <1>1, <1>2 DEF SinkInit, FilesInOrder, HandInv, LossInv, AllIn, Lost

LEMMA LossStep ==
  ASSUME SinkTypeOK, RotationInv, FilesInOrder, HandInv, LossInv, SinkNext
  PROVE  LossInv' /\ HandInv'
<1> USE DEF HandInv, LossInv, AllIn, Lost
<1>0. FilesOK /\ StepsOK /\ LossesOK
  BY DEF SinkTypeOK
<1>1. CASE OpenSink \/ CloseSink \/ FlushSink \/ Reopen
  <2>1. UNCHANGED <<file, hand, given, deleted, failed, crashed>>
    BY <1>0, <1>1, Reopened DEF OpenSink, CloseSink, FlushSink, Reopen, stepVars, lossVars
  <2> QED BY <2>1, SameFiles
<1>2. ASSUME NEW m \in Messages, \A g \in given : g < m, SinkIt(m) PROVE LossInv' /\ HandInv'
  <2>1. /\ hand' = m /\ given' = given \cup {m} /\ hand = 0
        /\ UNCHANGED <<file, deleted, failed, crashed>>
    BY <1>0, <1>2 DEF SinkIt, StepsOK
  <2>2. m \in Nat /\ m # 0 /\ \A g \in given : g \in Nat
    BY <1>0, SinkAssumption DEF Messages, LossesOK
  <2>3. m \notin given
    BY <1>2, <2>2
  <2>4. InFiles' = InFiles
    BY <2>1, SameFiles
  <2>5. \A g \in given' : g <= m
    BY <1>2, <2>1, <2>2
  <2> QED BY <2>1, <2>2, <2>3, <2>4, <2>5
<1>3. CASE RemoveTarget
  <2>1. /\ deleted' = deleted \cup NumbersIn(file[i])
        /\ UNCHANGED <<hand, given, failed, crashed>>
    BY <1>3 DEF RemoveTarget
  <2>2. /\ InFiles = InFiles' \cup NumbersIn(file[i])
        /\ \A d \in NumbersIn(file[i]), m \in InFiles' : d < m
    BY <1>0, <1>3, RemovedMessages
  <2>3. \A g \in given : g \in Nat
    BY <1>0, SinkAssumption DEF Messages, LossesOK
  <2>4. NumbersIn(file[i]) \cap InFiles' = {}
    BY <2>2, <2>3
  <2> QED BY <2>1, <2>2, <2>4
<1>4. CASE RenameSource
  BY <1>0, <1>4, RenamedMessages DEF RenameSource, lossVars
<1>5. CASE Failing
  <2>1. /\ hand # 0 /\ hand' = 0 /\ failed' = failed \cup {hand}
        /\ UNCHANGED <<file, given, deleted, crashed>>
    BY <1>0, <1>5 DEF Failing, RemoveFails, RenameFails, ReopenFails, WriteFails, Throw,
       diskVars, StepsOK
  <2> QED BY <2>1, SameFiles
<1>6. CASE Write
  <2>1. hand # 0 /\ hand' = 0 /\ UNCHANGED lossVars
    BY <1>0, <1>6 DEF Write, StepsOK
  <2>2. InFiles' = InFiles \cup {hand}
    BY <1>0, <1>6, WrittenEntries
  <2> QED BY <2>1, <2>2 DEF lossVars
<1>7. CASE Die
  <2>1. PICK cut \in SUBSET InFiles :
          /\ crashed' = crashed \cup ({hand} \ {0}) \cup cut
          /\ InFiles' = InFiles \ cut
    BY <1>0, <1>7, DiedEntries
  <2>2. hand' = 0 /\ UNCHANGED <<given, deleted, failed>>
    BY <1>7 DEF Die
  <2> QED BY <2>1, <2>2
<1> QED
  BY <1>1, <1>2, <1>3, <1>4, <1>5, <1>6, <1>7 DEF SinkNext, SinkStep, Failing

LEMMA OrderStep ==
  ASSUME SinkTypeOK, RotationInv, FilesInOrder, HandInv, LossInv, SinkNext
  PROVE  FilesInOrder'
<1>0. FilesOK /\ StepsOK /\ LossesOK
  BY DEF SinkTypeOK
<1>1. CASE UNCHANGED <<file, deleted>>
  BY <1>1, SameFiles DEF FilesInOrder
<1>2. CASE RemoveTarget
  <2>1. /\ file'[i] = << >> /\ DOMAIN file'[i] = {}
        /\ \A n \in FileNo \ {i} : file'[n] = file[n]
    BY <1>0, <1>2, Removed, EmptyFile
  <2>2. \A n, k \in FileNo : \A a \in DOMAIN file'[n], b \in DOMAIN file'[k] :
          n > k \/ (n = k /\ a < b) => file'[n][a].no < file'[k][b].no
    BY <2>1 DEF FilesInOrder
  <2>3. deleted' = deleted \cup NumbersIn(file[i])
    BY <1>2 DEF RemoveTarget
  <2>4. \A d \in deleted', m \in InFiles' : d < m
    BY <1>0, <1>2, <2>3, RemovedMessages DEF FilesInOrder
  <2> QED BY <2>2, <2>4 DEF FilesInOrder
<1>3. CASE RenameSource
  <2>1. /\ i \in FileNo /\ i - 1 \in FileNo
        /\ file'[i] = file[i - 1] /\ file'[i - 1] = << >> /\ DOMAIN file'[i - 1] = {}
        /\ \A n \in FileNo \ {i, i - 1} : file'[n] = file[n]
    BY <1>0, <1>3, Renamed, EmptyFile
  <2> DEFINE old(n) == IF n = i THEN i - 1 ELSE n
  <2>2. \A n \in FileNo \ {i - 1} : old(n) \in FileNo /\ file'[n] = file[old(n)]
    BY <2>1
  <2>3. \A n, k \in FileNo \ {i - 1} : n > k => old(n) > old(k)
    BY <2>1, Numbers
  <2> HIDE DEF old
  <2>4. ASSUME NEW n \in FileNo, NEW k \in FileNo,
               NEW a \in DOMAIN file'[n], NEW b \in DOMAIN file'[k],
               n > k \/ (n = k /\ a < b)
        PROVE  file'[n][a].no < file'[k][b].no
    <3>1. n # i - 1 /\ k # i - 1
      BY <2>1
    <3>2. /\ old(n) \in FileNo /\ old(k) \in FileNo
          /\ file'[n] = file[old(n)] /\ file'[k] = file[old(k)]
          /\ old(n) > old(k) \/ (old(n) = old(k) /\ a < b)
      BY <2>2, <2>3, <2>4, <3>1
    <3> QED BY <3>2 DEF FilesInOrder
  <2>5. InFiles' = InFiles /\ deleted' = deleted
    BY <1>0, <1>3, RenamedMessages DEF RenameSource, lossVars
  <2> QED BY <2>4, <2>5 DEF FilesInOrder
<1>4. CASE Write
  <2>1. /\ Len(file[0]) \in Nat
        /\ DOMAIN file[0] = 1..Len(file[0])
        /\ DOMAIN file'[0] = 1..(Len(file[0]) + 1)
        /\ \A k \in DOMAIN file[0] : file'[0][k] = file[0][k]
        /\ file'[0][Len(file[0]) + 1].no = hand
        /\ \A n \in FileNo \ {0} : file'[n] = file[n]
        /\ InFiles' = InFiles \cup {hand}
    BY <1>0, <1>4, WrittenEntries
  <2>2. hand # 0 /\ deleted' = deleted
    BY <1>0, <1>4 DEF Write, StepsOK, lossVars
  <2>3. \A g \in InFiles \cup deleted : g < hand
    <3>1. \A g \in given : g \in Nat
      BY <1>0, SinkAssumption DEF Messages, LossesOK
    <3>2. hand \in given /\ hand \notin InFiles \cup deleted /\ \A g \in given : g <= hand
      BY <2>2 DEF HandInv, Lost
    <3>3. InFiles \cup deleted \subseteq given
      BY DEF LossInv, AllIn, Lost
    <3> QED BY <3>1, <3>2, <3>3
  <2>4. ASSUME NEW n \in FileNo, NEW k \in FileNo,
               NEW a \in DOMAIN file'[n], NEW b \in DOMAIN file'[k],
               n > k \/ (n = k /\ a < b)
        PROVE  file'[n][a].no < file'[k][b].no
    <3>1. a \in DOMAIN file[n] /\ file'[n][a] = file[n][a]
      BY <2>1, <2>4, Numbers
    <3>2. CASE k = 0 /\ b = Len(file[0]) + 1
      <4>1. file[n][a].no \in InFiles
        BY <3>1, InFilesIs
      <4> QED BY <2>1, <2>3, <3>1, <3>2, <4>1
    <3>3. CASE ~(k = 0 /\ b = Len(file[0]) + 1)
      <4>1. b \in DOMAIN file[k] /\ file'[k][b] = file[k][b]
        BY <2>1, <3>3
      <4> QED BY <2>4, <3>1, <4>1 DEF FilesInOrder
    <3> QED BY <3>2, <3>3
  <2>5. \A d \in deleted', m \in InFiles' : d < m
    BY <2>1, <2>2, <2>3 DEF FilesInOrder
  <2> QED BY <2>4, <2>5 DEF FilesInOrder
<1>5. CASE Die
  <2>1. \A n \in FileNo : \A j \in DOMAIN file'[n] :
          j \in DOMAIN file[n] /\ file'[n][j] = file[n][j]
    BY <1>0, <1>5, DiedEntries
  <2>2. InFiles' \subseteq InFiles /\ deleted' = deleted
    BY <1>0, <1>5, DiedEntries DEF Die
  <2>3. \A n, k \in FileNo : \A a \in DOMAIN file'[n], b \in DOMAIN file'[k] :
          n > k \/ (n = k /\ a < b) => file'[n][a].no < file'[k][b].no
    BY <2>1 DEF FilesInOrder
  <2> QED BY <2>2, <2>3 DEF FilesInOrder
<1>6. CASE Reopen \/ Failing \/ OpenSink \/ CloseSink \/ FlushSink
  BY <1>0, <1>1, <1>6, Reopened DEF Reopen, Failing, RemoveFails, RenameFails, ReopenFails,
     WriteFails, Throw, OpenSink, CloseSink, FlushSink, lossVars, diskVars
<1>7. ASSUME NEW m \in Messages, SinkIt(m) PROVE FilesInOrder'
  BY <1>1, <1>7 DEF SinkIt
<1> QED
  BY <1>2, <1>3, <1>4, <1>5, <1>6, <1>7 DEF SinkNext, SinkStep, Failing

OrderInv == FilesInOrder /\ HandInv /\ LossInv

LEMMA OrderInvariance == SinkSpec => []OrderInv
<1>1. SinkInit => OrderInv
  BY OrderInit DEF OrderInv
<1>2. SinkTypeOK /\ RotationInv /\ OrderInv /\ [SinkNext]_sinkVars => OrderInv'
  <2> SUFFICES ASSUME SinkTypeOK, RotationInv, OrderInv, [SinkNext]_sinkVars
               PROVE  OrderInv'
    OBVIOUS
  <2>1. CASE SinkNext
    BY <2>1, LossStep, OrderStep DEF OrderInv
  <2>2. CASE UNCHANGED sinkVars
    <3>1. UNCHANGED <<file, hand, given, deleted, failed, crashed>>
      BY <2>2 DEF sinkVars, diskVars, stepVars, lossVars
    <3> QED
      BY <3>1, SameFiles DEF OrderInv, FilesInOrder, HandInv, LossInv, AllIn, Lost
  <2> QED BY <2>1, <2>2
<1> QED BY <1>1, <1>2, SinkTypes, PTL DEF SinkSpec

(* The messages are in the order of the files, each once, and rotation     *)
(* deletes only what is older than all the rest.                           *)
THEOREM SinkOrder == SinkSpec => []FilesInOrder
  BY OrderInvariance, PTL DEF OrderInv

(* No message the sink was given disappears: it is in a file or in hand,   *)
(* or rotation deleted it, or an exception or a death took it.             *)
THEOREM SinkAccounts == SinkSpec => []EveryMessageSomewhere
<1>1. OrderInv => EveryMessageSomewhere
  BY DEF OrderInv, HandInv, LossInv, AllIn, Lost, EveryMessageSomewhere
<1> QED BY <1>1, OrderInvariance, PTL
=============================================================================
