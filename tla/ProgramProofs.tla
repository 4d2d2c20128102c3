--------------------------- MODULE ProgramProofs ----------------------------
(***************************************************************************)
(* Proofs about the process as a whole: what the dialogue leaves in the    *)
(* configuration file, and what the shut-down leaves behind.               *)
(***************************************************************************)
EXTENDS Program, DataStorageProofs

(* The points of main before the listening thread exists.                  *)
BeforeListening == {"off", "get", "set", "rewrite", "serve"}

ProgramTypeOK ==
  /\ mpc \in BeforeListening \cup {"ocr", "client", "loop"} \cup ShutDown
  /\ key \in Keys
  /\ ini \in [Keys -> Addrs \cup {NoAddr}]
  /\ newIniContent \in [Keys -> Addrs \cup {NoAddr}]
  /\ localServerIP \in Addrs \cup {NoAddr}
  /\ typed \in BOOLEAN /\ cut \in BOOLEAN
  /\ lpc \in {"off", "init", "mark", "markFailed", "top", "accept", "create", "ended"}
  /\ m_tcpRunning \in BOOLEAN /\ late \in BOOLEAN
  /\ bound \in Addrs \cup {NoAddr}
  /\ conn \in [Conns -> {"none", "accepted", "check", "recv", "ended"}]
  /\ m_run \in BOOLEAN /\ opc \in {"off", "top", "get", "run", "ended"}
  /\ waiting \in Nat /\ accepted \in Nat /\ dropped \in Nat

(* The storage exists while the process does.                              *)
LifeInv == alive <=> mpc # "off"

(* The file is empty only while it is rewritten, and what will be written  *)
(* is complete; the socket is closed as long as the user may change the    *)
(* address.                                                                *)
FileInv ==
  /\ mpc = "rewrite" => /\ ini = Erased /\ ~cut
                        /\ \A k \in Keys : newIniContent[k] # NoAddr
  /\ mpc \in BeforeListening => lpc = "off" /\ bound = NoAddr
  /\ AddressesKept

(* What main has already waited for.                                       *)
JoinInv ==
  /\ mpc \in BeforeListening \cup {"ocr"} => opc = "off"
  /\ mpc \in {"stopServer"} \cup ServerStopped => opc \in {"off", "ended"}
  /\ mpc \in {"joinStorage", "exit"} => lpc = "ended"
  /\ mpc = "exit" => spc = "ended"

(* A Start that comes after Stop sets m_running for good; and a listening  *)
(* thread that could not open its socket has never accepted anybody.       *)
ListenInv ==
  /\ late => m_tcpRunning /\ mpc \in ServerStopped
  /\ mpc \in ServerStopped /\ ~late => ~m_tcpRunning
  /\ lpc \in {"off", "init", "mark", "markFailed"} => \A c \in Conns : conn[c] = "none"
  /\ lpc = "ended" /\ m_tcpRunning => \A c \in Conns : conn[c] = "none"
  /\ mpc \in ServerStopped \ {"joinConns"} /\ ~late => \A c \in Conns : conn[c] # "recv"

Running == IF opc = "run" THEN 1 ELSE 0
CountInv == accepted = waiting + Running + dropped + finished

ProgramInv == ProgramTypeOK /\ LifeInv /\ FileInv /\ JoinInv /\ ListenInv /\ CountInv
-----------------------------------------------------------------------------
(* The steps between the start of a process and its end.                   *)
Onward ==
  \/ GetAddress \/ AcceptDefault \/ (\E a \in Addrs : EnterAddress(a) \/ EnterUnwritten(a))
  \/ WriteIni \/ StartThreads \/ MainGoesOn
  \/ StopOcr \/ JoinOcr \/ StopServer \/ JoinConns \/ StopSaver \/ JoinListen \/ JoinStorage

ThreadsStep ==
  \/ ListenStep \/ OcrStep \/ SaverStep \/ Second
  \/ \E c \in Conns :
       Accept(c) \/ ConnTop(c) \/ RecvTask(c) \/ RecvOther(c) \/ RecvClosed(c)

LEMMA Steps ==
  [Next]_vars => \/ StartUp \/ Onward \/ ThreadsStep \/ UNCHANGED vars
                 \/ (mpc # "off" \/ alive) /\ EndProcess
BY DEF Next, MainStep, ShutDownStep, Onward, ThreadsStep, MainReturns, Exit

LEMMA StorageMoves ==
  StorageStep \/ Finish \/ Stop \/ Tick \/ UNCHANGED storageVars
    => /\ alive' = alive
       /\ spc = "ended" => spc' = "ended"
       /\ finished' = finished \/ Finish
BY DEF StorageStep, Finish, Stop, Tick, LoopTop, NothingToSave, SaveRecord, Stamp,
   Insert, InsertFails, Wake, storageVars, sysVars, taskVars, threadVars

LEMMA OnwardFrame ==
  Onward => /\ Stop \/ UNCHANGED storageVars
            /\ mpc # "off" /\ mpc' # "off"
BY DEF Onward, GetAddress, AcceptDefault, EnterAddress, EnterUnwritten, WriteIni,
   StartThreads, MainGoesOn, AfterAddress, StopOcr, JoinOcr, StopServer, JoinConns,
   StopSaver, JoinListen, JoinStorage, Shuts

LEMMA ThreadsFrame ==
  ThreadsStep => /\ StorageStep \/ Finish \/ Tick \/ UNCHANGED storageVars
                 /\ UNCHANGED mainVars
<1>1. CASE ListenStep
  BY <1>1 DEF ListenStep, InitSock, MarkRunning, ListenTop, AcceptFails, CreateThread
<1>2. CASE OcrStep
  BY <1>2 DEF OcrStep, OcrTop, GetTask, SubmitTask, OcrFails
<1>3. ASSUME NEW c \in Conns,
             \/ Accept(c) \/ ConnTop(c) \/ RecvTask(c) \/ RecvOther(c) \/ RecvClosed(c)
      PROVE  UNCHANGED <<storageVars, mainVars>>
  BY <1>3 DEF Accept, ConnTop, RecvTask, RecvOther, RecvClosed
<1> QED
  BY <1>1, <1>2, <1>3 DEF ThreadsStep, SaverStep, Second

LEMMA LifeStep == LifeInv /\ [Next]_vars => LifeInv'
<1> SUFFICES ASSUME LifeInv, [Next]_vars PROVE LifeInv'
  OBVIOUS
<1> USE DEF LifeInv
<1>1. CASE StartUp
  BY <1>1 DEF StartUp, Boot
<1>2. CASE EndProcess
  BY <1>2 DEF EndProcess, Perish
<1>3. CASE Onward
  BY <1>3, OnwardFrame, StorageMoves
<1>4. CASE ThreadsStep
  BY <1>4, ThreadsFrame, StorageMoves DEF mainVars
<1>5. CASE UNCHANGED vars
  BY <1>5 DEF vars, storageVars, sysVars, mainVars
<1> QED
  BY <1>1, <1>2, <1>3, <1>4, <1>5, Steps

(* Every step of the program is a step of the storage, or none.            *)
LEMMA StorageImplemented ==
  LifeInv /\ [Next]_vars => [StorageNext]_storageVars
<1> SUFFICES ASSUME LifeInv, [Next]_vars PROVE [StorageNext]_storageVars
  OBVIOUS
<1>1. CASE StartUp
  BY <1>1 DEF StartUp, StorageNext
<1>2. CASE (mpc # "off" \/ alive) /\ EndProcess
  BY <1>2 DEF EndProcess, StorageNext, LifeInv
<1>3. CASE Onward
  BY <1>3, OnwardFrame DEF StorageNext
<1>4. CASE ThreadsStep
  BY <1>4, ThreadsFrame DEF StorageNext
<1>5. CASE UNCHANGED vars
  BY <1>5 DEF vars
<1> QED
  BY <1>1, <1>2, <1>3, <1>4, <1>5, Steps

LEMMA ProgramTypeStep == ProgramTypeOK /\ [Next]_vars => ProgramTypeOK'
<1> SUFFICES ASSUME ProgramTypeOK, [Next]_vars PROVE ProgramTypeOK'
  OBVIOUS
<1> USE ProgramAssumption DEF ProgramTypeOK
<1>a. /\ "local" \in Keys /\ "remote" \in Keys
      /\ Erased \in [Keys -> Addrs \cup {NoAddr}]
      /\ \A k \in Keys : ini[k] \in Addrs \cup {NoAddr}
  BY DEF Keys, Erased
<1>b. \A a \in Addrs : \A k \in Keys :
        [ini EXCEPT ![k] = a] \in [Keys -> Addrs \cup {NoAddr}]
  OBVIOUS
<1>c. ASSUME UNCHANGED <<tcpVars, ocrVars>>,
             mpc' \in BeforeListening \cup {"ocr", "client", "loop"} \cup ShutDown,
             key' \in Keys,
             ini' \in [Keys -> Addrs \cup {NoAddr}],
             newIniContent' \in [Keys -> Addrs \cup {NoAddr}],
             localServerIP' \in Addrs \cup {NoAddr},
             typed' \in BOOLEAN, cut' \in BOOLEAN
      PROVE  ProgramTypeOK'
  BY <1>c DEF tcpVars, ocrVars
<1>1. CASE StartUp
  <2>1. mpc' = "get" /\ key' = "local" /\ UNCHANGED <<iniVars, tcpVars, ocrVars>>
    BY <1>1 DEF StartUp
  <2> QED
    BY <1>a, <1>c, <2>1 DEF BeforeListening, iniVars
<1>2. CASE EndProcess
  <2>1. waiting + (IF opc = "run" THEN 1 ELSE 0) \in Nat
    OBVIOUS
  <2>2. dropped' \in Nat
    BY <1>2, <2>1 DEF EndProcess
  <2>3. conn' \in [Conns -> {"none", "accepted", "check", "recv", "ended"}]
    BY <1>2 DEF EndProcess
  <2>4. /\ mpc' = "off" /\ key' = "local" /\ newIniContent' = Erased
        /\ localServerIP' = NoAddr /\ typed' = FALSE /\ cut' \in BOOLEAN
        /\ lpc' = "off" /\ m_tcpRunning' = FALSE /\ bound' = NoAddr /\ late' = FALSE
        /\ m_run' = TRUE /\ opc' = "off" /\ waiting' = 0 /\ UNCHANGED <<ini, accepted>>
    BY <1>2 DEF EndProcess
  <2> QED
    BY <1>a, <2>2, <2>3, <2>4 DEF BeforeListening
<1>3. CASE Onward
  <2>1. CASE GetAddress
    BY <1>a, <1>c, <2>1 DEF GetAddress, BeforeListening
  <2>2. CASE AcceptDefault
    BY <1>a, <1>c, <2>2 DEF AcceptDefault, AfterAddress, BeforeListening, iniVars
  <2>3. CASE WriteIni
    BY <1>a, <1>c, <2>3 DEF WriteIni, AfterAddress, BeforeListening
  <2>4. ASSUME NEW a \in Addrs, EnterAddress(a) PROVE ProgramTypeOK'
    BY <1>a, <1>b, <1>c, <2>4 DEF EnterAddress, TakeEntered, BeforeListening
  <2>5. ASSUME NEW a \in Addrs, EnterUnwritten(a) PROVE ProgramTypeOK'
    BY <1>a, <1>c, <2>5 DEF EnterUnwritten, TakeEntered, AfterAddress, BeforeListening
  <2>6. CASE StartThreads
    BY <2>6 DEF StartThreads, BeforeListening, ShutDown, iniVars, tcpVars, ocrVars
  <2>7. CASE MainGoesOn
    BY <1>c, <2>7 DEF MainGoesOn, ShutDown, iniVars
  <2>8. CASE \/ StopOcr \/ JoinOcr \/ StopServer \/ JoinConns \/ StopSaver
             \/ JoinListen \/ JoinStorage
    <3>1. mpc' \in ShutDown /\ UNCHANGED <<key, iniVars>>
      BY <2>8 DEF StopOcr, JoinOcr, StopServer, JoinConns, StopSaver, JoinListen,
         JoinStorage, Shuts, ShutDown
    <3>2. /\ m_tcpRunning' \in BOOLEAN /\ bound' \in {bound, NoAddr} /\ m_run' \in BOOLEAN
          /\ UNCHANGED <<lpc, late, conn, opc, waiting, accepted, dropped>>
      BY <2>8 DEF StopOcr, JoinOcr, StopServer, JoinConns, StopSaver, JoinListen,
         JoinStorage, tcpVars, ocrVars
    <3> QED
      BY <3>1, <3>2 DEF iniVars
  <2> QED
    BY <1>3, <2>1, <2>2, <2>3, <2>4, <2>5, <2>6, <2>7, <2>8 DEF Onward
<1>4. CASE ListenStep
  <2>1. CASE InitSock
    <3>1. bound' \in {localServerIP} \cup Addrs \cup {bound}
      BY <2>1 DEF InitSock, Bindable
    <3> QED
      BY <2>1, <3>1 DEF InitSock, mainVars, iniVars, ocrVars
  <2>2. CASE MarkRunning \/ ListenTop \/ AcceptFails
    <3>1. /\ lpc' \in {"top", "accept", "ended"} /\ bound' \in {bound, NoAddr}
          /\ m_tcpRunning' \in BOOLEAN
          /\ UNCHANGED <<mainVars, conn, ocrVars>>
      BY <2>2 DEF MarkRunning, ListenTop, AcceptFails
    <3>2. late' \in BOOLEAN
      <4>1. CASE MarkRunning
        <5>1. late' = (mpc \in ServerStopped)
          BY <4>1 DEF MarkRunning
        <5>2. (mpc \in ServerStopped) \in BOOLEAN
          OBVIOUS
        <5> QED
          BY <5>1, <5>2
      <4>2. CASE ListenTop \/ AcceptFails
        BY <4>2 DEF ListenTop, AcceptFails
      <4> QED
        BY <2>2, <4>1, <4>2
    <3> QED
      BY <3>1, <3>2 DEF mainVars, iniVars, ocrVars
  <2>3. ASSUME NEW c \in Conns, CreateThread(c) PROVE ProgramTypeOK'
    BY <2>3 DEF CreateThread, mainVars, iniVars, ocrVars
  <2> QED
    BY <1>4, <2>1, <2>2, <2>3 DEF ListenStep
<1>5. CASE OcrStep
  BY <1>5 DEF OcrStep, OcrTop, GetTask, SubmitTask, OcrFails, mainVars, iniVars, tcpVars
<1>6. CASE UNCHANGED <<mainVars, tcpVars, ocrVars>>
  BY <1>6 DEF mainVars, iniVars, tcpVars, ocrVars
<1>7. ASSUME NEW c \in Conns,
             \/ Accept(c) \/ ConnTop(c) \/ RecvTask(c) \/ RecvOther(c) \/ RecvClosed(c)
      PROVE  ProgramTypeOK'
  BY <1>7 DEF Accept, ConnTop, RecvTask, RecvOther, RecvClosed, mainVars, iniVars, ocrVars
<1> QED
  BY <1>1, <1>2, <1>3, <1>4, <1>5, <1>6, <1>7, Steps DEF ThreadsStep, SaverStep, Second, vars

LEMMA FileStep == ProgramTypeOK /\ FileInv /\ [Next]_vars => FileInv'
<1> SUFFICES ASSUME ProgramTypeOK, FileInv, [Next]_vars PROVE FileInv'
  OBVIOUS
<1> USE DEF FileInv, AddressesKept
<1>a. "local" \in Keys /\ "remote" \in Keys /\ \A k \in Keys : Erased[k] = NoAddr
  BY DEF Keys, Erased
<1>b. NoAddr \notin Addrs
  BY ProgramAssumption
<1>1. CASE StartUp
  BY <1>1 DEF StartUp, BeforeListening, iniVars, tcpVars
<1>2. CASE EndProcess
  BY <1>2, <1>a DEF EndProcess, BeforeListening, ProgramTypeOK
<1>3. CASE GetAddress
  BY <1>3, <1>a DEF GetAddress, ProgramTypeOK, BeforeListening, tcpVars
<1>4. CASE AcceptDefault
  BY <1>4, <1>a DEF AcceptDefault, AfterAddress, BeforeListening, iniVars, tcpVars
<1>5. ASSUME NEW a \in Addrs, EnterAddress(a) PROVE FileInv'
  <2>1. \A k \in Keys : ini[k] # NoAddr
    BY <1>5 DEF EnterAddress
  <2>2. \A k \in Keys : newIniContent'[k] # NoAddr
    BY <1>5, <1>b, <2>1 DEF EnterAddress, ProgramTypeOK
  <2> QED
    BY <1>5, <2>2 DEF EnterAddress, BeforeListening, tcpVars
<1>6. ASSUME NEW a \in Addrs, EnterUnwritten(a) PROVE FileInv'
  BY <1>6 DEF EnterUnwritten, AfterAddress, BeforeListening, tcpVars
<1>7. CASE WriteIni
  BY <1>7 DEF WriteIni, AfterAddress, BeforeListening, tcpVars
<1>8. CASE StartThreads \/ MainGoesOn
  BY <1>8 DEF StartThreads, MainGoesOn, BeforeListening, iniVars, tcpVars
<1>9. CASE \/ StopOcr \/ JoinOcr \/ StopServer \/ JoinConns \/ StopSaver
           \/ JoinListen \/ JoinStorage
  <2>1. mpc # "rewrite" /\ mpc' \in ShutDown /\ UNCHANGED iniVars /\ bound' \in {bound, NoAddr}
    BY <1>9 DEF StopOcr, JoinOcr, StopServer, JoinConns, StopSaver, JoinListen,
       JoinStorage, Shuts, ShutDown, tcpVars
  <2>2. mpc \notin {"off", "get"}
    BY <1>9 DEF StopOcr, JoinOcr, StopServer, JoinConns, StopSaver, JoinListen,
       JoinStorage, Shuts
  <2> QED
    BY <2>1, <2>2 DEF BeforeListening, ShutDown, iniVars
<1>10. CASE ThreadsStep
  <2>1. UNCHANGED mainVars
    BY <1>10, ThreadsFrame
  <2>2. \/ UNCHANGED <<lpc, bound>>
        \/ lpc # "off" /\ bound' \in {bound, NoAddr}
        \/ InitSock
    <3>1. CASE ListenStep
      BY <3>1 DEF ListenStep, MarkRunning, ListenTop, AcceptFails, CreateThread
    <3>2. CASE OcrStep \/ SaverStep \/ Second
      BY <3>2 DEF OcrStep, OcrTop, GetTask, SubmitTask, OcrFails, SaverStep, Second, tcpVars
    <3>3. ASSUME NEW c \in Conns,
                 \/ Accept(c) \/ ConnTop(c) \/ RecvTask(c) \/ RecvOther(c) \/ RecvClosed(c)
          PROVE  UNCHANGED <<lpc, bound>> \/ (lpc # "off" /\ bound' \in {bound, NoAddr})
      BY <3>3 DEF Accept, ConnTop, RecvTask, RecvOther, RecvClosed
    <3> QED
      BY <1>10, <3>1, <3>2, <3>3 DEF ThreadsStep
  <2>3. CASE InitSock
    BY <2>1, <2>3 DEF InitSock, Bindable, mainVars, iniVars
  <2> QED
    BY <2>1, <2>2, <2>3 DEF mainVars, iniVars
<1>11. CASE UNCHANGED vars
  BY <1>11 DEF vars, mainVars, iniVars, tcpVars
<1> QED
  BY <1>1, <1>2, <1>3, <1>4, <1>5, <1>6, <1>7, <1>8, <1>9, <1>10, <1>11, Steps
  DEF Onward

LEMMA JoinStep == JoinInv /\ [Next]_vars => JoinInv'
<1> SUFFICES ASSUME JoinInv, [Next]_vars PROVE JoinInv'
  OBVIOUS
<1> USE DEF JoinInv
<1>1. CASE StartUp
  BY <1>1 DEF StartUp, BeforeListening, ServerStopped, ocrVars
<1>2. CASE EndProcess
  BY <1>2 DEF EndProcess, BeforeListening, ServerStopped
<1>3. CASE Onward
  <2>1. spc' = spc
    BY <1>3, OnwardFrame DEF Stop, storageVars, threadVars
  <2>2. CASE GetAddress \/ AcceptDefault \/ WriteIni
    BY <2>1, <2>2 DEF GetAddress, AcceptDefault, WriteIni, AfterAddress, BeforeListening,
       ServerStopped, ocrVars
  <2>3. ASSUME NEW a \in Addrs, EnterAddress(a) \/ EnterUnwritten(a) PROVE JoinInv'
    BY <2>1, <2>3 DEF EnterAddress, EnterUnwritten, AfterAddress, BeforeListening,
       ServerStopped, ocrVars
  <2>4. CASE StartThreads \/ MainGoesOn
    BY <2>1, <2>4 DEF StartThreads, MainGoesOn, BeforeListening, ServerStopped, ocrVars
  <2>5. CASE StopOcr \/ JoinOcr \/ StopServer \/ JoinConns
    BY <2>1, <2>5 DEF StopOcr, JoinOcr, StopServer, JoinConns, Shuts, BeforeListening,
       ServerStopped, ocrVars
  <2>6. CASE StopSaver \/ JoinListen \/ JoinStorage
    BY <2>1, <2>6 DEF StopSaver, JoinListen, JoinStorage, Shuts, BeforeListening,
       ServerStopped, tcpVars, ocrVars
  <2> QED
    BY <1>3, <2>2, <2>3, <2>4, <2>5, <2>6 DEF Onward
<1>4. CASE ThreadsStep
  <2>1. mpc' = mpc /\ (spc = "ended" => spc' = "ended")
    BY <1>4, ThreadsFrame, StorageMoves DEF mainVars
  <2>2. /\ opc \in {"off", "ended"} => opc' = opc
        /\ lpc = "ended" => lpc' = "ended"
    <3>1. CASE ListenStep
      BY <3>1 DEF ListenStep, InitSock, MarkRunning, ListenTop, AcceptFails, CreateThread,
         ocrVars
    <3>2. CASE OcrStep \/ SaverStep \/ Second
      BY <3>2 DEF OcrStep, OcrTop, GetTask, SubmitTask, OcrFails, SaverStep, Second,
         tcpVars, ocrVars
    <3>3. ASSUME NEW c \in Conns,
                 \/ Accept(c) \/ ConnTop(c) \/ RecvTask(c) \/ RecvOther(c) \/ RecvClosed(c)
          PROVE  opc' = opc /\ (lpc = "ended" => lpc' = lpc)
      BY <3>3 DEF Accept, ConnTop, RecvTask, RecvOther, RecvClosed, ocrVars
    <3> QED
      BY <1>4, <3>1, <3>2, <3>3 DEF ThreadsStep
  <2>3. opc = "off" => opc' = "off"
    BY <2>2
  <2>4. opc \in {"off", "ended"} => opc' \in {"off", "ended"}
    BY <2>2
  <2> QED
    BY <2>1, <2>2, <2>3, <2>4
<1>5. CASE UNCHANGED vars
  BY <1>5 DEF vars, mainVars, tcpVars, ocrVars, storageVars, threadVars
<1> QED
  BY <1>1, <1>2, <1>3, <1>4, <1>5, Steps

LEMMA ListenInvStep == ProgramTypeOK /\ FileInv /\ ListenInv /\ [Next]_vars => ListenInv'
<1> SUFFICES ASSUME ProgramTypeOK, FileInv, ListenInv, [Next]_vars PROVE ListenInv'
  OBVIOUS
<1> USE DEF ListenInv
<1>1. CASE StartUp
  BY <1>1 DEF StartUp, ServerStopped, tcpVars
<1>2. CASE EndProcess
  BY <1>2 DEF EndProcess, ServerStopped
<1>3. CASE Onward
  <2>1. CASE GetAddress \/ AcceptDefault \/ WriteIni
    BY <2>1 DEF GetAddress, AcceptDefault, WriteIni, AfterAddress, ServerStopped, tcpVars
  <2>2. ASSUME NEW a \in Addrs, EnterAddress(a) \/ EnterUnwritten(a) PROVE ListenInv'
    BY <2>2 DEF EnterAddress, EnterUnwritten, AfterAddress, ServerStopped, tcpVars
  <2>3. CASE StartThreads
    <3>1. mpc = "serve" => lpc = "off"
      BY DEF FileInv, BeforeListening
    <3> QED
      BY <2>3, <3>1 DEF StartThreads, ServerStopped
  <2>4. CASE MainGoesOn \/ StopOcr \/ JoinOcr
    BY <2>4 DEF MainGoesOn, StopOcr, JoinOcr, Shuts, ServerStopped, tcpVars
  <2>5. CASE StopServer
    BY <2>5 DEF StopServer, Shuts, ServerStopped
  <2>6. CASE JoinConns
    BY <2>6 DEF JoinConns, Shuts, ServerStopped, tcpVars
  <2>7. CASE StopSaver \/ JoinListen \/ JoinStorage
    BY <2>7 DEF StopSaver, JoinListen, JoinStorage, Shuts, ServerStopped, tcpVars
  <2> QED
    BY <1>3, <2>1, <2>2, <2>3, <2>4, <2>5, <2>6, <2>7 DEF Onward
<1>4. CASE ThreadsStep
  <2>0. mpc' = mpc
    BY <1>4, ThreadsFrame DEF mainVars
  <2>1. CASE InitSock
    BY <2>0, <2>1 DEF InitSock
  <2>2. CASE MarkRunning
    BY <2>0, <2>2 DEF MarkRunning, ProgramTypeOK
  <2>3. CASE ListenTop \/ AcceptFails
    BY <2>0, <2>3 DEF ListenTop, AcceptFails
  <2>4. ASSUME NEW c \in Conns, CreateThread(c) PROVE ListenInv'
    BY <2>0, <2>4 DEF CreateThread, ProgramTypeOK
  <2>5. CASE OcrStep \/ SaverStep \/ Second
    <3>1. UNCHANGED tcpVars
      BY <2>5 DEF OcrStep, OcrTop, GetTask, SubmitTask, OcrFails, SaverStep, Second
    <3> QED
      BY <2>0, <3>1 DEF tcpVars
  <2>6. ASSUME NEW c \in Conns, Accept(c) PROVE ListenInv'
    BY <2>0, <2>6 DEF Accept, ProgramTypeOK
  <2>7. ASSUME NEW c \in Conns, ConnTop(c) PROVE ListenInv'
    BY <2>0, <2>7 DEF ConnTop, ProgramTypeOK
  <2>8. ASSUME NEW c \in Conns, RecvTask(c) \/ RecvOther(c) \/ RecvClosed(c)
        PROVE  ListenInv'
    BY <2>0, <2>8 DEF RecvTask, RecvOther, RecvClosed, ProgramTypeOK
  <2> QED
    BY <1>4, <2>1, <2>2, <2>3, <2>4, <2>5, <2>6, <2>7, <2>8 DEF ThreadsStep, ListenStep
<1>5. CASE UNCHANGED vars
  BY <1>5 DEF vars, mainVars, tcpVars
<1> QED
  BY <1>1, <1>2, <1>3, <1>4, <1>5, Steps

LEMMA CountStep ==
  ProgramTypeOK /\ ThreadOK /\ JoinInv /\ CountInv /\ [Next]_vars => CountInv'
<1> SUFFICES ASSUME ProgramTypeOK, ThreadOK, JoinInv, CountInv, [Next]_vars PROVE CountInv'
  OBVIOUS
<1> USE DEF CountInv, Running
<1>0. finished \in Nat /\ waiting \in Nat /\ accepted \in Nat /\ dropped \in Nat
  BY StorageAssumption DEF ProgramTypeOK, ThreadOK
<1>1. CASE StartUp
  BY <1>1 DEF StartUp, Boot, taskVars, ocrVars
<1>2. CASE EndProcess
  BY <1>0, <1>2 DEF EndProcess, Perish
<1>3. CASE Onward
  <2>1. finished' = finished
    BY <1>3, OnwardFrame DEF Stop, storageVars, taskVars
  <2>2. UNCHANGED <<waiting, accepted, dropped>> /\ (opc' = "run" <=> opc = "run")
    <3>1. mpc = "ocr" => opc = "off"
      BY DEF JoinInv
    <3> QED
      BY <1>3, <3>1 DEF Onward, GetAddress, AcceptDefault, EnterAddress, EnterUnwritten,
         WriteIni, StartThreads, MainGoesOn, StopOcr, JoinOcr, StopServer, JoinConns,
         StopSaver, JoinListen, JoinStorage, ocrVars
  <2> QED
    BY <2>1, <2>2
<1>4. CASE OcrStep
  BY <1>0, <1>4 DEF OcrStep, OcrTop, GetTask, SubmitTask, OcrFails, Finish, storageVars,
     taskVars
<1>5. CASE ListenStep \/ SaverStep \/ Second
  <2>1. UNCHANGED <<finished, ocrVars>>
    BY <1>5 DEF ListenStep, InitSock, MarkRunning, ListenTop, AcceptFails, CreateThread,
       SaverStep, Second, StorageStep, LoopTop, NothingToSave, SaveRecord, Stamp, Insert,
       InsertFails, Wake, Tick, storageVars, taskVars
  <2> QED
    BY <2>1 DEF ocrVars
<1>6. ASSUME NEW c \in Conns,
             \/ Accept(c) \/ ConnTop(c) \/ RecvTask(c) \/ RecvOther(c) \/ RecvClosed(c)
      PROVE  CountInv'
  BY <1>0, <1>6 DEF Accept, ConnTop, RecvTask, RecvOther, RecvClosed, storageVars, taskVars,
     ocrVars
<1>7. CASE UNCHANGED vars
  BY <1>7 DEF vars, ocrVars, storageVars, taskVars
<1> QED
  BY <1>1, <1>2, <1>3, <1>4, <1>5, <1>6, <1>7, Steps DEF ThreadsStep
-----------------------------------------------------------------------------
(* The program uses the storage as DataStorage says: whatever it proves of *)
(* the finished tasks, the rows and the selections holds of the process.   *)
THEOREM ProgramStores == Spec => StorageSpec
<1>1. ProgramInit => LifeInv /\ StorageInit
  BY DEF ProgramInit, StorageInit, LifeInv
<1> QED
  BY <1>1, LifeStep, StorageImplemented, PTL DEF Spec, StorageSpec

LEMMA ProgramInitial == ProgramInit => ProgramInv
<1> SUFFICES ASSUME ProgramInit PROVE ProgramInv
  OBVIOUS
<1>1. ProgramTypeOK
  BY ProgramAssumption DEF ProgramInit, ProgramTypeOK, BeforeListening, Keys, Erased
<1>2. FileInv
  BY ProgramAssumption DEF ProgramInit, FileInv, AddressesKept, BeforeListening
<1> QED
  BY <1>1, <1>2 DEF ProgramInit, StorageInit, ProgramInv, LifeInv, JoinInv, ListenInv,
     CountInv, Running, ServerStopped

LEMMA ProgramInvariance == Spec => [](ProgramInv /\ StorageInv)
<1>1. ProgramInv /\ StorageInv /\ [Next]_vars => ProgramInv'
  BY ProgramTypeStep, LifeStep, FileStep, JoinStep, ListenInvStep, CountStep
  DEF ProgramInv, StorageInv, StorageTypeOK
<1>2. Spec => []StorageInv
  BY ProgramStores, StorageInvariance, PTL
<1> QED
  BY <1>1, <1>2, ProgramInitial, PTL DEF Spec

(* CommConfig.ini has both addresses except while it is written, or after  *)
(* the process died at that moment; and the socket is bound to no address  *)
(* but the one the user entered.                                           *)
THEOREM ConfigurationKept == Spec => []AddressesKept
<1>1. ProgramInv => AddressesKept
  BY DEF ProgramInv, FileInv
<1> QED
  BY <1>1, ProgramInvariance, PTL

(* After server.Stop no connection is served, at exit no thread is at work *)
(* on what is destroyed, and no accepted task has disappeared.             *)
THEOREM CleanStop == Spec => []StopsCleanly
<1>1. ProgramInv /\ StorageInv => StopsCleanly
  <2> SUFFICES ASSUME ProgramInv, StorageInv PROVE StopsCleanly
    OBVIOUS
  <2> USE DEF ProgramInv
  <2>1. mpc = "exit" => \A c \in Conns : conn[c] # "recv"
    BY DEF JoinInv, ListenInv, ServerStopped
  <2>2. mpc = "exit" => spc = "ended" /\ hand = NoTask
    BY DEF JoinInv, StorageInv, StorageTypeOK, ThreadOK
  <2>3. mpc = "exit" => opc \in {"off", "ended"} /\ lpc = "ended"
    BY DEF JoinInv, ServerStopped
  <2> QED
    BY <2>1, <2>2, <2>3 DEF StopsCleanly, ListenInv, CountInv, Running
<1> QED
  BY <1>1, ProgramInvariance, PTL
=============================================================================
