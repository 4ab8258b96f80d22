----------------------------- MODULE WebListen ------------------------------
(***************************************************************************)
(* How a worker learns, keeps and uses the address of its media centre     *)
(* (src/intermedia/web_protocol_resolve.c).  A listen thread accepts the   *)
(* connections of media centres and lends its client_info to a new thread  *)
(* for each, until a semaphore says that the thread has a copy, or a       *)
(* signal interrupts the wait.  The first command on a connection makes    *)
(* its sender the media centre: g_web_ip in memory, and a file for the     *)
(* next worker.  The report thread reads that file, asks the media centre  *)
(* for the rooms to connect, and then reports.                             *)
(***************************************************************************)
EXTENDS Integers, FiniteSets

CONSTANTS Centres,        \* addresses of media centres
          Socks,          \* sockets of their connections
          Threads,        \* connection threads at a time (a bound)
          MaxInterrupts   \* bound of the model: interrupted waits of a process

NoSock == "no socket"     \* client_info is zeroed, or accept has failed
NoAddr == "no address"    \* g_web_ip is empty; there is no file

ASSUME AddrAssumption == NoSock \notin Socks /\ NoAddr \notin Centres
ASSUME InterruptAssumption == MaxInterrupts \in Nat

VARIABLES file,           \* WEB_G_IP_MSG
          g_web_ip,
          lis,            \* the listen thread and its client_info
          posted,         \* m_sem
          srv,            \* the connection threads
          open,           \* sockets accepted and not closed
          rt,             \* the report thread
          unsaved,        \* ghost: the last attempt to write the file failed
          interrupted     \* ghost: how often a signal has interrupted the wait

conns   == <<lis, posted, open, interrupted>>
webVars == <<file, g_web_ip, conns, srv, rt, unsaved>>

\* web_client_info_ex_t.
Info == [sock : Socks \cup {NoSock}, addr : Centres \cup {NoAddr}]
NoInfo == [sock |-> NoSock, addr |-> NoAddr]

Listener == [pc : {"accept", "create", "wait", "ended"}, info : Info]
Accepting == [pc |-> "accept", info |-> NoInfo]

Server == [pc : {"none", "copy", "recv", "cmp", "cpy", "open", "write", "run", "kill"},
           info : Info,                            \* c_client_info
           known : BOOLEAN]                        \* reget_g_web_ip
Idle == [pc |-> "none", info |-> NoInfo, known |-> FALSE]

At(t, pc) == srv[t].pc = pc
Goto(t, pc) == srv' = [srv EXCEPT ![t].pc = pc]

WebInit == /\ file \in Centres \cup {NoAddr} /\ g_web_ip = NoAddr
           /\ lis = Accepting /\ posted = 0 /\ interrupted = 0
           /\ srv = [t \in Threads |-> Idle]
           /\ open = {} /\ rt = "read" /\ unsaved = FALSE

-----------------------------------------------------------------------------
(***************************************************************************)
(* create_web_listen_thread.  An error of accept that is neither EPERM nor *)
(* ENOBUFS, EINTR among them, goes on with the socket -1; one of           *)
(* pthread_create ends it for good and leaves the connection open.         *)
(***************************************************************************)
AcceptConn(c, a) ==
  /\ lis.pc = "accept" /\ c \notin open
  /\ lis' = [pc |-> "create", info |-> [sock |-> c, addr |-> a]]
  /\ open' = open \cup {c}
  /\ UNCHANGED <<file, g_web_ip, posted, interrupted, srv, rt, unsaved>>
AcceptFails ==
  /\ lis.pc = "accept"
  /\ lis' = [lis EXCEPT !.pc = "create"]
  /\ UNCHANGED <<file, g_web_ip, posted, open, interrupted, srv, rt, unsaved>>

\* sem_wait, and the memset of client_info at the top of the loop.
CreateThread_NoWait(t) ==
  /\ lis.pc = "create" /\ At(t, "none")
  /\ Goto(t, "copy")
  /\ lis' = Accepting
  /\ UNCHANGED <<file, g_web_ip, posted, open, interrupted, rt, unsaved>>
CreateThread(t) ==
  /\ lis.pc = "create" /\ At(t, "none")
  /\ Goto(t, "copy")
  /\ lis' = [lis EXCEPT !.pc = "wait"]
  /\ UNCHANGED <<file, g_web_ip, posted, open, interrupted, rt, unsaved>>
CreateFails ==
  /\ lis.pc = "create"
  /\ lis' = [lis EXCEPT !.pc = "ended"]
  /\ UNCHANGED <<file, g_web_ip, posted, open, interrupted, srv, rt, unsaved>>
Resume ==
  /\ lis.pc = "wait" /\ posted > 0
  /\ posted' = posted - 1
  /\ lis' = Accepting
  /\ UNCHANGED <<file, g_web_ip, open, interrupted, srv, rt, unsaved>>

\* SIGALRM is caught in the listen thread, and sem_wait returns EINTR: signal
\* (reach_os.c) installs the handler without SA_RESTART, and nobody looks at the result.
Interrupt ==
  /\ lis.pc = "wait" /\ rt = "reports"
  /\ interrupted < MaxInterrupts
  /\ interrupted' = interrupted + 1
  /\ lis' = Accepting
  /\ UNCHANGED <<file, g_web_ip, posted, open, srv, rt, unsaved>>

-----------------------------------------------------------------------------
(***************************************************************************)
(* create_listen_client_thread.                                            *)
(***************************************************************************)
CopyInfo(t) ==
  /\ At(t, "copy")
  /\ srv' = [srv EXCEPT ![t].pc = "recv", ![t].info = lis.info]
  /\ posted' = posted + 1
  /\ UNCHANGED <<file, g_web_ip, lis, open, interrupted, rt, unsaved>>

\* Only the first command of a connection sets the address.
RecvCommand(t) ==
  /\ At(t, "recv") /\ srv[t].info.sock # NoSock
  /\ Goto(t, IF srv[t].known THEN "run" ELSE "cmp")
  /\ UNCHANGED <<file, g_web_ip, conns, rt, unsaved>>

CloseConn(t) == /\ open' = open \ {srv[t].info.sock}
                /\ srv' = [srv EXCEPT ![t] = Idle]
                /\ UNCHANGED <<lis, posted, interrupted>>

\* The connection has ended, or what came is too long or no command.
RecvFails(t) ==
  /\ At(t, "recv")
  /\ CloseConn(t)
  /\ UNCHANGED <<file, g_web_ip, rt, unsaved>>

\* set_wet_url: strcmp, strcpy, open, write.  What is written is g_web_ip, as it is then.
CompareAddr(t) ==
  /\ At(t, "cmp")
  /\ srv' = IF g_web_ip = srv[t].info.addr
            THEN [srv EXCEPT ![t].pc = "run", ![t].known = TRUE]
            ELSE [srv EXCEPT ![t].pc = "cpy"]
  /\ UNCHANGED <<file, g_web_ip, conns, rt, unsaved>>
CopyAddr(t) ==
  /\ At(t, "cpy")
  /\ g_web_ip' = srv[t].info.addr
  /\ Goto(t, "open")
  /\ UNCHANGED <<file, conns, rt, unsaved>>
OpenFile(t) ==
  /\ At(t, "open")
  /\ Goto(t, "write")
  /\ UNCHANGED <<file, g_web_ip, conns, rt, unsaved>>
OpenFails(t) ==
  /\ At(t, "open")
  /\ CloseConn(t)
  /\ unsaved' = TRUE
  /\ UNCHANGED <<file, g_web_ip, rt>>
WriteFile_Own(t) ==
  /\ At(t, "write")
  /\ file' = srv[t].info.addr /\ unsaved' = FALSE
  /\ srv' = [srv EXCEPT ![t].pc = "run", ![t].known = TRUE]
  /\ UNCHANGED <<g_web_ip, conns, rt>>
WriteFile(t) ==
  /\ At(t, "write")
  /\ file' = g_web_ip /\ unsaved' = FALSE
  /\ srv' = [srv EXCEPT ![t].pc = "run", ![t].known = TRUE]
  /\ UNCHANGED <<g_web_ip, conns, rt>>

\* write returns -1 and the code looks for 0.
WriteFails(t) ==
  /\ At(t, "write")
  /\ unsaved' = TRUE
  /\ srv' = [srv EXCEPT ![t].pc = "run", ![t].known = TRUE]
  /\ UNCHANGED <<file, g_web_ip, conns, rt>>

\* The command, its answer, and the next one.
RunCommand(t) ==
  /\ At(t, "run")
  /\ Goto(t, "recv")
  /\ UNCHANGED <<file, g_web_ip, conns, rt, unsaved>>

\* 20006: the answer, the end of the connection, and then restart_live, which kills the
\* process.
RunReboot(t) ==
  /\ At(t, "run")
  /\ open' = open \ {srv[t].info.sock}
  /\ srv' = [srv EXCEPT ![t] = [Idle EXCEPT !.pc = "kill"]]
  /\ UNCHANGED <<file, g_web_ip, lis, posted, interrupted, rt, unsaved>>

-----------------------------------------------------------------------------
(***************************************************************************)
(* create_http_report_thread.  The file is not there, or cannot be opened  *)
(* or read, or read sets the address.  A post that fails is tried again;   *)
(* an answer that cannot be parsed ends the thread, and no report is ever  *)
(* made.                                                                   *)
(***************************************************************************)
ReadFile ==
  /\ rt = "read"
  /\ g_web_ip' \in {g_web_ip} \cup ({file} \ {NoAddr})
  /\ rt' = "ask"
  /\ UNCHANGED <<file, conns, srv, unsaved>>
AskServInfo ==
  /\ rt = "ask" /\ g_web_ip # NoAddr
  /\ rt' \in {"reports", "ended"}
  /\ UNCHANGED <<file, g_web_ip, conns, srv, unsaved>>

ListenStep == \/ \E c \in Socks, a \in Centres : AcceptConn(c, a)
              \/ AcceptFails \/ CreateFails \/ Resume \/ Interrupt
              \/ \E t \in Threads : CreateThread(t)
ServeStep(t) == \/ CopyInfo(t) \/ RecvCommand(t) \/ RecvFails(t)
                \/ CompareAddr(t) \/ CopyAddr(t) \/ OpenFile(t) \/ OpenFails(t)
                \/ WriteFile(t) \/ WriteFails(t) \/ RunCommand(t) \/ RunReboot(t)
WebStep == ListenStep \/ (\E t \in Threads : ServeStep(t)) \/ ReadFile \/ AskServInfo

=============================================================================
