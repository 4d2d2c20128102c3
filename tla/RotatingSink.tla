---------------------------- MODULE RotatingSink ----------------------------
(***************************************************************************)
(* The log files: rotating_file_sink and file_helper of spdlog, as the     *)
(* worker thread of the file logger drives them.                           *)
(*                                                                         *)
(* File 0 is written; when a message would make it larger than MaxSize,    *)
(* file i-1 becomes file i for every i, from the oldest down, the file     *)
(* with the number MaxFiles is deleted and file 0 starts anew.  Every call *)
(* of the file system is a step: it may fail (another process has the file *)
(* open, the disk is full), which throws out of the sink, and the program  *)
(* may die between any two.  Text that stdio still holds dies with it; a   *)
(* message of which only a part was written counts as lost.                *)
(***************************************************************************)
EXTENDS Naturals, Sequences

CONSTANTS
  MaxSize,   \* _max_size, 20 KB in the program
  MaxFiles,  \* _max_files, 10 in the program
  MaxMsg,    \* bound: the number of messages
  SizeOf,    \* message -> its size
  MayFail    \* may calls of the file system fail?

ASSUME SinkAssumption ==
  /\ MaxSize \in Nat
  /\ MaxFiles \in Nat \ {0}
  /\ MaxMsg \in Nat
  /\ SizeOf \in [1..MaxMsg -> Nat \ {0}]
  /\ MayFail \in BOOLEAN

VARIABLES
  present,       \* numbers of the files that exist
  file,          \* number -> messages in the file, with the offset of their end
  flushed,       \* how many messages of file 0 are surely on the disk
  fd,            \* is _fd open?
  current_size,  \* _current_size
  at,            \* "off" (no process), "idle", or the step of _sink_it
  i,             \* the loop variable of _rotate
  hand,          \* the message in _sink_it, 0 if none
  given,         \* history: the messages handed to the sink
  deleted,       \* history: messages of files that rotation removed
  failed,        \* history: messages whose _sink_it threw
  crashed        \* history: messages that died with the process

diskVars == <<present, file, flushed>>
stepVars == <<fd, current_size, at, i, hand>>
lossVars == <<given, deleted, failed, crashed>>
sinkVars == <<diskVars, stepVars, lossVars>>

FileNo == 0..MaxFiles
Messages == 1..MaxMsg
Bytes(f) == IF f = << >> THEN 0 ELSE f[Len(f)].end
NumbersIn(f) == {f[k].no : k \in DOMAIN f}
InFiles == UNION {NumbersIn(file[n]) : n \in FileNo}
-----------------------------------------------------------------------------
SinkInit ==
  /\ present = {} /\ file = [n \in FileNo |-> << >>] /\ flushed = 0
  /\ fd = FALSE /\ current_size = 0 /\ at = "off" /\ i = 0 /\ hand = 0
  /\ given = {} /\ deleted = {} /\ failed = {} /\ crashed = {}

(* The constructor opens file 0 to append and asks for its size; when that *)
(* fails there is no sink.                                                 *)
OpenSink ==
  /\ at = "off"
  /\ at' = "idle"
  /\ fd' = TRUE
  /\ present' = present \cup {0}
  /\ flushed' = Len(file[0])
  /\ current_size' = Bytes(file[0])
  /\ UNCHANGED <<file, i, hand, lossVars>>

(* file_helper closes the file when the sink is destroyed.                 *)
CloseSink ==
  /\ at = "idle"
  /\ at' = "off"
  /\ fd' = FALSE
  /\ flushed' = Len(file[0])
  /\ UNCHANGED <<present, file, current_size, i, hand, lossVars>>

FlushSink ==
  /\ at = "idle"
  /\ flushed' = Len(file[0])
  /\ UNCHANGED <<present, file, stepVars, lossVars>>
-----------------------------------------------------------------------------
(* Mutant: the size counts only messages that were written.                *)
SinkIt_CountsLate(m) ==
  /\ at = "idle"
  /\ hand' = m /\ given' = given \cup {m}
  /\ IF current_size + SizeOf[m] > MaxSize
       THEN /\ at' = "remove" /\ i' = MaxFiles
            /\ fd' = FALSE /\ flushed' = Len(file[0])
            /\ UNCHANGED current_size
       ELSE /\ at' = "write" /\ UNCHANGED <<i, fd, flushed>>
            /\ current_size' = current_size + SizeOf[m]
  /\ UNCHANGED <<present, file, deleted, failed, crashed>>

(* The size is compared after the message was added to it; the old file is *)
(* closed before the rotation.                                             *)
SinkIt(m) ==
  /\ at = "idle"
  /\ hand' = m /\ given' = given \cup {m}
  /\ current_size' = current_size + SizeOf[m]
  /\ IF current_size + SizeOf[m] > MaxSize
       THEN /\ at' = "remove" /\ i' = MaxFiles
            /\ fd' = FALSE /\ flushed' = Len(file[0])
       ELSE /\ at' = "write" /\ UNCHANGED <<i, fd, flushed>>
  /\ UNCHANGED <<present, file, deleted, failed, crashed>>

(* An exception leaves the sink as it is; the worker reports it.           *)
Throw ==
  /\ MayFail
  /\ failed' = failed \cup {hand}
  /\ hand' = 0
  /\ at' = "idle"
  /\ UNCHANGED <<diskVars, fd, current_size, i, given, deleted, crashed>>

(* An existing target is removed before the rename.                        *)
RemoveTarget ==
  /\ at = "remove"
  /\ at' = "rename"
  /\ present' = present \ {i}
  /\ file' = [file EXCEPT ![i] = << >>]
  /\ deleted' = deleted \cup NumbersIn(file[i])
  /\ UNCHANGED <<flushed, fd, current_size, i, hand, given, failed, crashed>>

RemoveFails ==
  /\ at = "remove"
  /\ i \in present
  /\ Throw

(* Mutant: the files are copied.                                           *)
RenameSource_Copies ==
  /\ at = "rename"
  /\ IF i - 1 \in present
       THEN /\ present' = present \cup {i}
            /\ file' = [file EXCEPT ![i] = file[i - 1]]
            /\ UNCHANGED flushed
       ELSE UNCHANGED diskVars
  /\ i' = i - 1
  /\ at' = IF i = 1 THEN "reopen" ELSE "remove"
  /\ UNCHANGED <<fd, current_size, hand, lossVars>>

RenameSource ==
  /\ at = "rename"
  /\ IF i - 1 \in present
       THEN /\ present' = (present \ {i - 1}) \cup {i}
            /\ file' = [file EXCEPT ![i] = file[i - 1], ![i - 1] = << >>]
            /\ flushed' = IF i = 1 THEN 0 ELSE flushed
       ELSE UNCHANGED diskVars
  /\ i' = i - 1
  /\ at' = IF i = 1 THEN "reopen" ELSE "remove"
  /\ UNCHANGED <<fd, current_size, hand, lossVars>>

(* Mutant: a file that cannot be renamed is passed over.                   *)
RenameFails_Ignored ==
  /\ at = "rename"
  /\ i - 1 \in present
  /\ MayFail
  /\ i' = i - 1
  /\ at' = IF i = 1 THEN "reopen" ELSE "remove"
  /\ UNCHANGED <<diskVars, fd, current_size, hand, given, deleted, failed, crashed>>

RenameFails ==
  /\ at = "rename"
  /\ i - 1 \in present
  /\ Throw

(* reopen(true) truncates: file 0 is gone or was renamed.                  *)
Reopen ==
  /\ at = "reopen"
  /\ at' = "write"
  /\ fd' = TRUE
  /\ present' = present \cup {0}
  /\ file' = [file EXCEPT ![0] = << >>]
  /\ flushed' = 0
  /\ current_size' = SizeOf[hand]
  /\ UNCHANGED <<i, hand, lossVars>>

(* Five attempts to open the file have failed.                             *)
ReopenFails ==
  /\ at = "reopen"
  /\ Throw

Write ==
  /\ at = "write"
  /\ at' = "idle"
  /\ file' = [file EXCEPT ![0] =
       Append(@, [no |-> hand, end |-> Bytes(@) + SizeOf[hand]])]
  /\ hand' = 0
  /\ UNCHANGED <<present, flushed, fd, current_size, i, lossVars>>

WriteFails ==
  /\ at = "write"
  /\ Throw

SinkStep ==
  \/ RemoveTarget \/ RemoveFails \/ RenameSource \/ RenameFails
  \/ Reopen \/ ReopenFails \/ Write \/ WriteFails
-----------------------------------------------------------------------------
(* External: the process dies.  Some of what stdio held may be on the disk.*)
Die ==
  /\ at # "off"
  /\ at' = "off"
  /\ fd' = FALSE
  /\ hand' = 0
  /\ \E k \in flushed..Len(file[0]) :
       /\ file' = [file EXCEPT ![0] = SubSeq(@, 1, k)]
       /\ flushed' = k
       /\ crashed' = crashed \cup ({hand} \ {0})
                            \cup {file[0][n].no : n \in (k + 1)..Len(file[0])}
  /\ UNCHANGED <<present, current_size, i, given, deleted, failed>>

SinkNext ==
  \/ OpenSink \/ CloseSink \/ FlushSink
  \/ \E m \in Messages : (\A g \in given : g < m) /\ SinkIt(m)
  \/ SinkStep
  \/ Die

SinkSpec == SinkInit /\ [][SinkNext]_sinkVars
-----------------------------------------------------------------------------
(* The types of the sink's state.                                          *)
Entries == [no : Messages, end : Nat]

FilesOK ==
  /\ present \subseteq FileNo
  /\ file \in [FileNo -> Seq(Entries)]
  /\ \A n \in FileNo \ present : file[n] = << >>
  /\ flushed \in 0..Len(file[0])

StepsOK ==
  /\ fd \in BOOLEAN
  /\ current_size \in Nat
  /\ at \in {"off", "idle", "remove", "rename", "reopen", "write"}
  /\ i \in FileNo
  /\ at \in {"remove", "rename"} => i # 0
  /\ hand \in Messages \cup {0}
  /\ hand # 0 <=> at \notin {"off", "idle"}

LossesOK ==
  /\ given \subseteq Messages /\ deleted \subseteq Messages
  /\ failed \subseteq Messages /\ crashed \subseteq Messages

SinkTypeOK == FilesOK /\ StepsOK /\ LossesOK

(* The sink never writes to a file that is not open, and no log file is    *)
(* larger than MaxSize, except one with a single message: also after a     *)
(* rotation that failed half way and left no file open.                    *)
WritesWithinBounds ==
  /\ at = "write" => fd
  /\ \A n \in FileNo : Bytes(file[n]) <= MaxSize \/ Len(file[n]) <= 1

(* The files hold the messages in the order they came, the oldest in the   *)
(* file with the highest number, and no message twice; what rotation has   *)
(* deleted is older than everything that is kept.                          *)
FilesInOrder ==
  /\ \A n, k \in FileNo : \A a \in DOMAIN file[n], b \in DOMAIN file[k] :
       n > k \/ (n = k /\ a < b) => file[n][a].no < file[k][b].no
  /\ \A d \in deleted, m \in InFiles : d < m

(* Every message the sink was given is in a file or in its hand, or its    *)
(* file was deleted by a rotation, or an exception or the death of the     *)
(* process took it: truncating and renaming lose nothing.                  *)
EveryMessageSomewhere ==
  LET lost == deleted \cup failed \cup crashed
      held == {hand} \ {0}
  IN  /\ given = InFiles \cup held \cup lost
      /\ InFiles \cap (held \cup lost) = {}
=============================================================================
