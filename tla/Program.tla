------------------------------ MODULE Program ------------------------------
(***************************************************************************)
(* The process as a whole (main.cpp): it reads and rewrites CommConfig.ini *)
(* with the user, starts the listening, recognition and storage threads,   *)
(* stays in the keep-alive loop until that returns, and shuts down in the  *)
(* order StopOcrProcess, server.Stop, g_dataSaver.Stop, joins, exit.       *)
(*                                                                         *)
(* The storage thread and the rows are those of DataStorage.  Of the       *)
(* scheduler only the number of waiting tasks is kept, and of a connection *)
(* whether its thread is in recv: the protocol is in TcpServer, selections *)
(* in DataStorage, the keep-alive loop in ZmqKeepAlive.                    *)
(***************************************************************************)
EXTENDS DataStorage

CONSTANTS
  Addrs, NoAddr,  \* addresses, and the empty string
  Shipped,        \* the address that CommConfig.ini is delivered with
  RunMayFail,     \* may the interpreter or a recognition fail, or opening the file?
  MaxAccept       \* bound: tasks that are accepted

ASSUME ProgramAssumption ==
  /\ NoAddr \notin Addrs /\ Shipped \in Addrs
  /\ RunMayFail \in BOOLEAN
  /\ MaxAccept \in 0..MaxTasks

Keys == {"local", "remote"}
Erased == [k \in Keys |-> NoAddr]

VARIABLES
  mpc, key,      \* main: its point, and the address it is about
  ini,           \* the addresses in CommConfig.ini
  newIniContent, \* what will be written to it
  localServerIP, \* the local address in memory, which becomes the server's
  typed,         \* has the user entered it?
  cut,           \* history: has the process died while the file was empty?
  lpc,           \* the listening thread
  m_tcpRunning,  \* m_running of the server
  bound,         \* where the listening socket is bound, NoAddr if closed
  late,          \* history: has Start undone a Stop?
  conn,          \* the thread of each connection
  m_run, opc,    \* the recognition thread
  waiting,       \* tasks in the scheduler that no run has claimed
  accepted,      \* history: tasks ever accepted
  dropped        \* history: tasks whose run raised an exception, or that
                 \* died with the process before their run had ended

iniVars == <<ini, newIniContent, localServerIP, typed, cut>>
mainVars == <<mpc, key, iniVars>>
tcpVars == <<lpc, m_tcpRunning, bound, late, conn>>
ocrVars == <<m_run, opc, waiting, accepted, dropped>>
vars == <<storageVars, mainVars, tcpVars, ocrVars>>

ShutDown == {"stopOcr", "joinOcr", "stopServer", "joinConns", "stopSaver",
             "joinListen", "joinStorage", "exit"}
ServerStopped == {"joinConns", "stopSaver", "joinListen", "joinStorage", "exit"}
StorageRuns == {"client", "loop"} \cup ShutDown
-----------------------------------------------------------------------------
ProgramInit ==
  /\ StorageInit
  /\ mpc = "off" /\ key = "local"
  /\ ini = [k \in Keys |-> Shipped] /\ newIniContent = Erased
  /\ localServerIP = NoAddr /\ typed = FALSE /\ cut = FALSE
  /\ lpc = "off" /\ m_tcpRunning = FALSE /\ bound = NoAddr /\ late = FALSE
  /\ conn = [c \in Conns |-> "none"]
  /\ m_run = TRUE /\ opc = "off" /\ waiting = 0
  /\ accepted = 0 /\ dropped = 0

StartUp ==
  /\ mpc = "off" /\ Boot
  /\ mpc' = "get" /\ key' = "local"
  /\ UNCHANGED <<iniVars, tcpVars, ocrVars>>

(* The process ends: its memory is gone, with the tasks in it.             *)
EndProcess ==
  /\ Perish
  /\ mpc' = "off" /\ key' = "local"
  /\ newIniContent' = Erased /\ localServerIP' = NoAddr /\ typed' = FALSE
  /\ cut' = (cut \/ mpc = "rewrite")
  /\ lpc' = "off" /\ m_tcpRunning' = FALSE /\ bound' = NoAddr /\ late' = FALSE
  /\ conn' = [c \in Conns |-> "none"]
  /\ m_run' = TRUE /\ opc' = "off" /\ waiting' = 0
  /\ dropped' = dropped + waiting + (IF opc = "run" THEN 1 ELSE 0)
  /\ UNCHANGED <<ini, accepted>>
-----------------------------------------------------------------------------
(* GetLocalIpAddressFromIniFile and its twin: what stands after the "=".   *)
GetAddress ==
  /\ mpc = "get" /\ ini[key] # NoAddr
  /\ localServerIP' = IF key = "local" THEN ini[key] ELSE localServerIP
  /\ mpc' = "set"
  /\ UNCHANGED <<storageVars, key, ini, newIniContent, typed, cut, tcpVars, ocrVars>>

(* main returns: there is no logger, no address, no interface, or no file  *)
(* to change.  At "client" UdpClient.exe could not be stopped or started:  *)
(* leaving main destroys joinable threads, and std::terminate ends it.     *)
MainReturns ==
  /\ mpc \in {"get", "set", "client"}
  /\ EndProcess

AfterAddress ==
  /\ mpc' = IF key = "local" THEN "get" ELSE "serve"
  /\ key' = "remote"

TakeEntered(a) ==
  IF key = "local" THEN localServerIP' = a /\ typed' = TRUE
                   ELSE UNCHANGED <<localServerIP, typed>>

AcceptDefault ==
  /\ mpc = "set" /\ AfterAddress
  /\ UNCHANGED <<storageVars, iniVars, tcpVars, ocrVars>>

(* Mutant: only the line that changes is written back.                     *)
EnterAddress_OneLine(a) ==
  /\ mpc = "set"
  /\ TakeEntered(a)
  /\ newIniContent' = [Erased EXCEPT ![key] = a]
  /\ ini' = Erased
  /\ mpc' = "rewrite"
  /\ UNCHANGED <<storageVars, key, cut, tcpVars, ocrVars>>

(* The user enters an address that passes the check.  The lines are read,  *)
(* the one of this address is replaced, and opening the file to write it   *)
(* back empties it.                                                        *)
EnterAddress(a) ==
  /\ mpc = "set"
  /\ TakeEntered(a)
  /\ newIniContent' = [ini EXCEPT ![key] = a]
  /\ ini' = Erased
  /\ mpc' = "rewrite"
  /\ UNCHANGED <<storageVars, key, cut, tcpVars, ocrVars>>

(* The file cannot be opened to write: nobody is told.                     *)
EnterUnwritten(a) ==
  /\ mpc = "set" /\ RunMayFail
  /\ TakeEntered(a)
  /\ AfterAddress
  /\ UNCHANGED <<storageVars, ini, newIniContent, cut, tcpVars, ocrVars>>

WriteIni ==
  /\ mpc = "rewrite"
  /\ ini' = newIniContent /\ newIniContent' = Erased
  /\ AfterAddress
  /\ UNCHANGED <<storageVars, localServerIP, typed, cut, tcpVars, ocrVars>>

(* The server object and its thread, StartOcrProcess, the storage thread.  *)
StartThreads ==
  /\ \/ mpc = "serve" /\ mpc' = "ocr" /\ lpc' = "init" /\ UNCHANGED opc
     \/ /\ mpc = "ocr" /\ mpc' = "client"
        /\ opc' \in {"top"} \cup (IF RunMayFail THEN {"off"} ELSE {})
        /\ UNCHANGED lpc
  /\ UNCHANGED <<storageVars, key, iniVars, m_tcpRunning, bound, late, conn,
                 m_run, waiting, accepted, dropped>>

(* KillProcessByName, StartProcessByPath; then MainThread returns.         *)
MainGoesOn ==
  /\ \/ mpc = "client" /\ mpc' = "loop"
     \/ mpc = "loop" /\ mpc' = "stopOcr"
  /\ UNCHANGED <<storageVars, key, iniVars, tcpVars, ocrVars>>
-----------------------------------------------------------------------------
Shuts(from, to) ==
  /\ mpc = from /\ mpc' = to
  /\ UNCHANGED <<key, iniVars>>

(* StopOcrProcess: m_run, then the join of the recognition thread.         *)
StopOcr ==
  /\ Shuts("stopOcr", "joinOcr")
  /\ m_run' = FALSE
  /\ UNCHANGED <<storageVars, tcpVars, opc, waiting, accepted, dropped>>

(* Mutant: the recognition is not waited for.                              *)
JoinOcr_NoWait ==
  /\ Shuts("joinOcr", "stopServer")
  /\ UNCHANGED <<storageVars, tcpVars, ocrVars>>

JoinOcr ==
  /\ Shuts("joinOcr", "stopServer") /\ opc \in {"off", "ended"}
  /\ UNCHANGED <<storageVars, tcpVars, ocrVars>>

(* Mutant: the listening socket stays open.                                *)
StopServer_Open ==
  /\ Shuts("stopServer", "joinConns")
  /\ m_tcpRunning' = FALSE
  /\ UNCHANGED <<storageVars, lpc, bound, late, conn, ocrVars>>

(* TcpServer::Stop: m_running, the socket, then join_all.                  *)
StopServer ==
  /\ Shuts("stopServer", "joinConns")
  /\ m_tcpRunning' = FALSE /\ bound' = NoAddr
  /\ UNCHANGED <<storageVars, lpc, late, conn, ocrVars>>

JoinConns ==
  /\ Shuts("joinConns", "stopSaver")
  /\ \A c \in Conns : conn[c] \in {"none", "accepted", "ended"}
  /\ UNCHANGED <<storageVars, tcpVars, ocrVars>>

StopSaver ==
  /\ Shuts("stopSaver", "joinListen") /\ Stop
  /\ UNCHANGED <<tcpVars, ocrVars>>

JoinListen ==
  /\ Shuts("joinListen", "joinStorage") /\ lpc = "ended"
  /\ UNCHANGED <<storageVars, tcpVars, ocrVars>>

JoinStorage ==
  /\ Shuts("joinStorage", "exit") /\ spc = "ended"
  /\ UNCHANGED <<storageVars, tcpVars, ocrVars>>

Exit == mpc = "exit" /\ EndProcess
-----------------------------------------------------------------------------
(* Where the socket can come to be bound.  The default address still has   *)
(* the blank that stands after the "=": inet_pton refuses it and the       *)
(* address that is bound is what was in memory before.                     *)
Bindable == IF typed THEN {localServerIP} ELSE Addrs

(* InitSock makes the socket and binds it, or fails.                       *)
InitSock ==
  /\ lpc = "init"
  /\ \/ lpc' = "mark" /\ bound' \in Bindable
     \/ lpc' = "markFailed" /\ UNCHANGED bound
  /\ UNCHANGED <<storageVars, mainVars, m_tcpRunning, late, conn, ocrVars>>

(* Start sets m_running itself, before or after a Stop.                    *)
MarkRunning ==
  /\ lpc \in {"mark", "markFailed"}
  /\ m_tcpRunning' = TRUE /\ late' = (mpc \in ServerStopped)
  /\ IF lpc = "mark" THEN lpc' = "top" /\ UNCHANGED bound
                     ELSE lpc' = "ended" /\ bound' = NoAddr
  /\ UNCHANGED <<storageVars, mainVars, conn, ocrVars>>

ListenTop ==
  /\ lpc = "top"
  /\ IF m_tcpRunning THEN lpc' = "accept" /\ UNCHANGED bound
                     ELSE lpc' = "ended" /\ bound' = NoAddr
  /\ UNCHANGED <<storageVars, mainVars, m_tcpRunning, late, conn, ocrVars>>

Accept(c) ==
  /\ lpc = "accept" /\ bound # NoAddr /\ conn[c] = "none"
  /\ conn' = [conn EXCEPT ![c] = "accepted"]
  /\ lpc' = "create"
  /\ UNCHANGED <<storageVars, mainVars, m_tcpRunning, bound, late, ocrVars>>

AcceptFails ==
  /\ lpc = "accept" /\ bound = NoAddr
  /\ lpc' = "top"
  /\ UNCHANGED <<storageVars, mainVars, m_tcpRunning, bound, late, conn, ocrVars>>

(* create_thread waits for a join_all that is under way.                   *)
CreateThread(c) ==
  /\ lpc = "create" /\ conn[c] = "accepted" /\ mpc # "joinConns"
  /\ conn' = [conn EXCEPT ![c] = "check"]
  /\ lpc' = "top"
  /\ UNCHANGED <<storageVars, mainVars, m_tcpRunning, bound, late, ocrVars>>

ConnTop(c) ==
  /\ conn[c] = "check"
  /\ conn' = [conn EXCEPT ![c] = IF m_tcpRunning THEN "recv" ELSE "ended"]
  /\ UNCHANGED <<storageVars, mainVars, lpc, m_tcpRunning, bound, late, ocrVars>>

(* recv returns with the last piece of a file, whose task is added, ...    *)
RecvTask(c) ==
  /\ conn[c] = "recv" /\ accepted < MaxAccept
  /\ conn' = [conn EXCEPT ![c] = "check"]
  /\ waiting' = waiting + 1 /\ accepted' = accepted + 1
  /\ UNCHANGED <<storageVars, mainVars, lpc, m_tcpRunning, bound, late,
                 m_run, opc, dropped>>

(* ... with anything else, or because the client has gone.                 *)
RecvOther(c) ==
  /\ conn[c] = "recv"
  /\ conn' = [conn EXCEPT ![c] = "check"]
  /\ UNCHANGED <<storageVars, mainVars, lpc, m_tcpRunning, bound, late, ocrVars>>

RecvClosed(c) ==
  /\ conn[c] = "recv"
  /\ conn' = [conn EXCEPT ![c] = "ended"]
  /\ UNCHANGED <<storageVars, mainVars, lpc, m_tcpRunning, bound, late, ocrVars>>
-----------------------------------------------------------------------------
OcrTop ==
  /\ opc = "top"
  /\ opc' = IF m_run THEN "get" ELSE "ended"
  /\ UNCHANGED <<storageVars, mainVars, tcpVars, m_run, waiting, accepted, dropped>>

(* GetTask; with no task the thread sleeps.                                *)
GetTask ==
  /\ opc = "get"
  /\ IF waiting > 0 THEN opc' = "run" /\ waiting' = waiting - 1
                    ELSE opc' = "top" /\ UNCHANGED waiting
  /\ UNCHANGED <<storageVars, mainVars, tcpVars, m_run, accepted, dropped>>

SubmitTask ==
  /\ opc = "run" /\ Finish
  /\ opc' = "top"
  /\ UNCHANGED <<mainVars, tcpVars, m_run, waiting, accepted, dropped>>

(* The script raises: its task is dropped, and the interpreter finalised,  *)
(* which may end the process later.                                        *)
OcrFails ==
  /\ opc = "run" /\ RunMayFail
  /\ opc' = "top" /\ dropped' = dropped + 1
  /\ UNCHANGED <<storageVars, mainVars, tcpVars, m_run, waiting, accepted>>

SaverStep ==
  /\ mpc \in StorageRuns /\ StorageStep
  /\ UNCHANGED <<mainVars, tcpVars, ocrVars>>

Second == Tick /\ UNCHANGED <<mainVars, tcpVars, ocrVars>>
-----------------------------------------------------------------------------
ShutDownStep ==
  \/ StopOcr \/ JoinOcr \/ StopServer \/ JoinConns
  \/ StopSaver \/ JoinListen \/ JoinStorage \/ Exit

MainStep ==
  \/ StartUp \/ GetAddress \/ MainReturns \/ AcceptDefault
  \/ \E a \in Addrs : EnterAddress(a) \/ EnterUnwritten(a)
  \/ WriteIni \/ StartThreads \/ MainGoesOn

ListenStep ==
  \/ InitSock \/ MarkRunning \/ ListenTop \/ AcceptFails
  \/ \E c \in Conns : CreateThread(c)

OcrStep == OcrTop \/ GetTask \/ SubmitTask \/ OcrFails

Next ==
  \/ MainStep \/ ShutDownStep \/ ListenStep \/ OcrStep \/ SaverStep \/ Second
  \/ \E c \in Conns :
       Accept(c) \/ ConnTop(c) \/ RecvTask(c) \/ RecvOther(c) \/ RecvClosed(c)
  \/ alive /\ EndProcess

Spec == ProgramInit /\ [][Next]_vars

(* Threads go on; nothing is asked of the user, the remote server or the   *)
(* clients.                                                                *)
FairSpec ==
  /\ Spec
  /\ WF_vars(ShutDownStep) /\ WF_vars(ListenStep) /\ WF_vars(OcrStep)
  /\ WF_vars(SaverStep) /\ WF_vars(Second)
  /\ \A c \in Conns : WF_vars(ConnTop(c))
-----------------------------------------------------------------------------
(* CommConfig.ini keeps both addresses through every dialogue, although it *)
(* is emptied and written again, unless the process dies in between; from  *)
(* then on no start gets past the first question.  And the server never    *)
(* listens on another address than the one the user entered, whatever      *)
(* CommConfig.ini says by then.                                            *)
AddressesKept ==
  /\ (\E k \in Keys : ini[k] = NoAddr) => mpc = "rewrite" \/ cut
  /\ cut => /\ \A k \in Keys : ini[k] = NoAddr
            /\ mpc \in {"off", "get"}
  /\ typed /\ bound # NoAddr => bound = localServerIP

(* After server.Stop no connection serves a command, not even one accepted *)
(* while Stop waited, unless Start came later and has undone the Stop.     *)
(* When exit destroys the scheduler, the records and their connection, no  *)
(* thread is at work on them.  And no task disappears meanwhile: each one  *)
(* waits, runs, was dropped by an exception or by the end of the process,  *)
(* or has finished and has one fate (OneFate).                             *)
StopsCleanly ==
  /\ mpc \in ServerStopped \ {"joinConns"} /\ ~late
       => \A c \in Conns : conn[c] # "recv"
  /\ mpc = "exit" => /\ opc \in {"off", "ended"} /\ spc = "ended" /\ lpc = "ended"
                     /\ hand = NoTask
                     /\ \A c \in Conns : conn[c] # "recv"
  /\ accepted = waiting + (IF opc = "run" THEN 1 ELSE 0) + dropped + finished

(* The shut-down ends, if no client stays connected and silent for ever    *)
(* and Start has not set m_running again.                                  *)
ShutDownEnds ==
  (\A c \in Conns : []<>(conn[c] # "recv"))
    => (mpc \in ShutDown ~> mpc = "off" \/ late)
=============================================================================
