---------------------------- MODULE WorkerProofs ----------------------------
(***************************************************************************)
(* Proofs of the safety properties of Worker, for any number of process    *)
(* ids, media centres, sockets and connection threads.                     *)
(***************************************************************************)
EXTENDS Worker, FiniteSetTheorems, TLAPS

-----------------------------------------------------------------------------
(***************************************************************************)
(* What each kind of step does to the two halves of the state.             *)
(***************************************************************************)

\* Two facts of arithmetic: no wait has been interrupted at first, and one post at most that
\* is not one is none.
LEMMA OneOrNone == ASSUME NEW n \in Nat, n =< 1, n # 1 PROVE n = 0
  OBVIOUS

LEMMA NoneYet == 0 \in 0..MaxInterrupts
  BY InterruptAssumption

\* No socket is called NoSock, no media centre NoAddr.
LEMMA Distinct == NoSock \notin Socks /\ NoAddr \notin Centres
  BY AddrAssumption

\* A step of the parent or of a worker that wakes keeps the types of its half.
LEMMA SupTypes ==
  ASSUME WorkerTypeOK, SupStep
  PROVE  kid' \in [Pids -> KidStates] /\ sup' \in SupStates /\ sigchld' \in BOOLEAN
<1>1. ASSUME NEW p \in Pids, WorkerWakes(p)
      PROVE  kid' \in [Pids -> KidStates] /\ sup' \in SupStates /\ sigchld' \in BOOLEAN
  BY <1>1 DEF WorkerWakes, WorkerTypeOK, KidStates
<1>2. CASE ForkFirst
  BY <1>2 DEF ForkFirst, Fork, WorkerTypeOK, KidStates, SupStates
<1>3. CASE Install
  BY <1>3 DEF Install, WorkerTypeOK, SupStates
<1>4. CASE HandleSignal
  BY <1>4 DEF HandleSignal, WorkerTypeOK, SupStates
<1>5. CASE Reap
  <2>1. CASE Zombies # {}
    BY <1>5, <2>1 DEF Reap, Zombies, WorkerTypeOK, KidStates, SupStates
  <2>2. CASE Zombies = {}
    BY <1>5, <2>2 DEF Reap, WorkerTypeOK, SupStates
  <2> QED BY <2>1, <2>2
<1>6. CASE Refork
  BY <1>6 DEF Refork, Fork, WorkerTypeOK, KidStates, SupStates
<1>7. CASE ParentWakes
  BY <1>7 DEF ParentWakes, WorkerTypeOK, SupStates
<1>8. CASE ForkFails
  BY <1>8 DEF ForkFails, WorkerTypeOK, SupStates
<1> QED BY <1>1, <1>2, <1>3, <1>4, <1>5, <1>6, <1>7, <1>8 DEF SupStep, ParentStep

\* The parent forks only when no process is left that it has not waited for.
LEMMA SupKid ==
  ASSUME WorkerTypeOK, KidInv, SupStep
  PROVE  KidInv'
<1> USE DEF KidInv, WorkerTypeOK, KidStates, SupStates
<1>1. ASSUME NEW p \in Pids, WorkerWakes(p) PROVE KidInv'
  BY <1>1 DEF WorkerWakes
<1>2. CASE ForkFirst
  BY <1>2 DEF ForkFirst, Fork
<1>3. CASE Install
  BY <1>3 DEF Install
<1>4. CASE HandleSignal
  BY <1>4 DEF HandleSignal
<1>5. CASE Reap
  <2>1. CASE Zombies # {}
    <3>1. PICK p \in Zombies : kid' = [kid EXCEPT ![p] = "none"] /\ sup' = "refork"
      BY <1>5, <2>1 DEF Reap
    <3>2. p \in Pids /\ kid[p] # "none"
      BY DEF Zombies
    <3>3. \A q \in Pids : kid'[q] = "none"
      BY <3>1, <3>2
    <3> QED BY <3>1, <3>3
  <2>2. CASE Zombies = {}
    BY <1>5, <2>2 DEF Reap
  <2> QED BY <2>1, <2>2
<1>6. CASE Refork
  BY <1>6 DEF Refork, Fork
<1>7. CASE ParentWakes
  BY <1>7 DEF ParentWakes
<1>8. CASE ForkFails
  BY <1>8 DEF ForkFails
<1> QED BY <1>1, <1>2, <1>3, <1>4, <1>5, <1>6, <1>7, <1>8 DEF SupStep, ParentStep

\* A worker that ends leaves a zombie in its place.
LEMMA DieKid ==
  ASSUME WorkerTypeOK, KidInv, NEW p \in Pids, Die(p)
  PROVE  /\ KidInv'
         /\ kid' \in [Pids -> KidStates] /\ sup' \in SupStates /\ sigchld' \in BOOLEAN
  BY DEF Die, KidInv, WorkerTypeOK, KidStates, SupStates

-----------------------------------------------------------------------------
(***************************************************************************)
(* The threads of a worker.                                                *)
(***************************************************************************)

WebTypes ==
  /\ file \in Centres \cup {NoAddr} /\ g_web_ip \in Centres \cup {NoAddr}
  /\ lis \in Listener /\ posted \in Nat /\ interrupted \in 0..MaxInterrupts
  /\ srv \in [Threads -> Server]
  /\ open \subseteq Socks
  /\ rt \in {"read", "ask", "reports", "ended"} /\ unsaved \in BOOLEAN

\* What the semaphore ensures, for as long as no signal interrupts a wait.
Lending == LoanInv /\ SockInv
WebInv == WebTypes /\ AddrInv /\ (interrupted = 0 => Lending)

\* The listen thread takes a new socket, or none.
LEMMA AcceptInv ==
  ASSUME WebTypes, AddrInv,
         AcceptFails \/ \E c \in Socks, a \in Centres : AcceptConn(c, a)
  PROVE  /\ WebTypes' /\ AddrInv' /\ interrupted' = interrupted
         /\ Lending => Lending'
<1> USE Distinct DEF WebTypes, Listener, Server, Info, NoInfo
<1>1. CASE AcceptFails
  <2>1. WebTypes' /\ AddrInv' /\ interrupted' = interrupted
    BY <1>1 DEF AcceptFails, AddrInv, At, Saving
  <2>2. ASSUME Lending PROVE Lending'
    BY <1>1, <2>2 DEF AcceptFails, Lending, LoanInv, SockInv, Holds, Lent, Leaked,
       HandedOver, At
  <2> QED BY <2>1, <2>2
<1>2. ASSUME NEW c \in Socks, NEW a \in Centres, AcceptConn(c, a)
      PROVE  /\ WebTypes' /\ AddrInv' /\ interrupted' = interrupted
             /\ Lending => Lending'
  <2> USE <1>2 DEF AcceptConn
  <2>1. WebTypes' /\ interrupted' = interrupted
    OBVIOUS
  <2>2. AddrInv'
    BY DEF AddrInv, Saving
  <2>3. ASSUME Lending PROVE Lending'
    <3> USE <2>3 DEF Lending
    <3>1. LoanInv'
      BY DEF LoanInv, At
    <3>2. \A d \in Socks : ~Lent(d) /\ (Lent(d)' <=> d = c)
      BY DEF LoanInv, Lent, Leaked, HandedOver
    <3>3. \A t \in Threads : ~Holds(t, c)
      BY DEF SockInv
    <3>4. SockInv'
      BY <3>2, <3>3 DEF SockInv, Holds
    <3> QED BY <3>1, <3>4
  <2> QED BY <2>1, <2>2, <2>3
<1> QED BY <1>1, <1>2

\* It starts a thread and waits for it, or ends, or goes on once the copy is made.
LEMMA LendInv ==
  ASSUME WebTypes, AddrInv,
         CreateFails \/ Resume \/ \E t \in Threads : CreateThread(t)
  PROVE  /\ WebTypes' /\ AddrInv' /\ interrupted' = interrupted
         /\ Lending => Lending'
<1> USE Distinct DEF WebTypes, Listener, Server, Info, NoInfo, Accepting
<1>1. CASE CreateFails
  <2> USE <1>1 DEF CreateFails
  <2>1. WebTypes' /\ AddrInv' /\ interrupted' = interrupted
    BY DEF AddrInv, Saving
  <2>2. ASSUME Lending PROVE Lending'
    <3> USE <2>2 DEF Lending
    <3>1. LoanInv'
      BY DEF LoanInv, At
    <3>2. \A c \in Socks : Lent(c)' <=> Lent(c)
      BY DEF Lent, Leaked, HandedOver
    <3>3. SockInv'
      BY <3>2 DEF SockInv, Holds
    <3> QED BY <3>1, <3>3
  <2> QED BY <2>1, <2>2
<1>2. CASE Resume
  <2> USE <1>2 DEF Resume
  <2>1. WebTypes' /\ AddrInv' /\ interrupted' = interrupted
    BY DEF AddrInv, Saving
  <2>2. ASSUME Lending PROVE Lending'
    <3> USE <2>2 DEF Lending
    <3>1. LoanInv'
      BY DEF LoanInv, At
    <3>2. \A c \in Socks : ~Lent(c) /\ ~Lent(c)'
      BY DEF Lent, Leaked, HandedOver
    <3>3. \A u \in Threads, c \in Socks \cup {NoSock} : Holds(u, c)' <=> Holds(u, c)
      BY DEF Holds
    <3>4. SockInv'
      BY <3>2, <3>3 DEF SockInv
    <3> QED BY <3>1, <3>4
  <2> QED BY <2>1, <2>2
<1>3. ASSUME NEW t \in Threads, CreateThread(t)
      PROVE  /\ WebTypes' /\ AddrInv' /\ interrupted' = interrupted
             /\ Lending => Lending'
  <2> USE <1>3 DEF CreateThread, Goto
  <2>1. WebTypes' /\ interrupted' = interrupted
    OBVIOUS
  <2>2. AddrInv'
    BY DEF AddrInv, Saving, At
  <2>3. ASSUME Lending PROVE Lending'
    <3> USE <2>3 DEF Lending
    <3>0. posted = 0 /\ \A u \in Threads : ~At(u, "copy")
      <4>1. posted \in Nat /\ posted =< 1 /\ posted # 1
        BY DEF LoanInv
      <4>2. posted = 0
        BY <4>1, OneOrNone
      <4>3. \A u \in Threads : ~At(u, "copy")
        BY DEF LoanInv
      <4> QED BY <4>2, <4>3
    <3>1. LoanInv'
      BY <3>0 DEF LoanInv, At
    <3>2. \A u \in Threads, c \in Socks \cup {NoSock} : Holds(u, c)' <=> Holds(u, c)
      BY DEF Holds
    <3>3. \A c \in Socks : Lent(c)' <=> Lent(c)
      BY <3>0 DEF Lent, Leaked, HandedOver
    <3>4. SockInv'
      BY <3>2, <3>3 DEF SockInv, At
    <3> QED BY <3>1, <3>4
  <2> QED BY <2>1, <2>2, <2>3
<1> QED BY <1>1, <1>2, <1>3

\* The connection passes to the thread.
LEMMA CopyInfoInv ==
  ASSUME WebTypes, AddrInv, NEW t \in Threads, CopyInfo(t)
  PROVE  /\ WebTypes' /\ AddrInv' /\ interrupted' = interrupted
         /\ Lending => Lending'
<1> USE Distinct DEF WebTypes, CopyInfo
<1>1. WebTypes' /\ interrupted' = interrupted
  <2>1. srv[t] \in Server /\ lis.info \in Info
    BY DEF Listener
  <2>2. [srv[t] EXCEPT !.pc = "recv", !.info = lis.info] \in Server
    BY <2>1 DEF Server
  <2>3. srv' = [srv EXCEPT ![t] = [srv[t] EXCEPT !.pc = "recv", !.info = lis.info]]
    BY <2>1 DEF Server
  <2> QED BY <2>2, <2>3
<1> USE DEF Listener, Server, Info, NoInfo
<1>2. AddrInv'
  BY DEF AddrInv, Saving, At
<1>3. ASSUME Lending PROVE Lending'
  <2> USE <1>3 DEF Lending
  <2>1. LoanInv'
    BY DEF LoanInv, At
  <2>2. \A c \in Socks : ~Lent(c)'
    BY DEF LoanInv, Lent, Leaked, HandedOver, At
  <2>3. \A c \in Socks : Lent(c) <=> lis.info.sock = c
    BY DEF LoanInv, Lent, Leaked, HandedOver, At
  <2>4. /\ Holds(t, NoSock)
        /\ \A c \in Socks \cup {NoSock} : Holds(t, c)' <=> lis.info.sock = c
        /\ \A u \in Threads \ {t}, c \in Socks \cup {NoSock} : Holds(u, c)' <=> Holds(u, c)
    BY DEF SockInv, Holds, At
  <2>5. SockInv'
    <3>1. \A u \in Threads : srv'[u].pc \in {"none", "copy", "kill"} => Holds(u, NoSock)'
      BY <2>4 DEF SockInv
    <3>2. \A c \in Socks : Holds(t, c)' => Lent(c)
      BY <2>3, <2>4
    <3>3. \A c \in Socks, u \in Threads : Holds(u, c)' => c \in open
      BY <2>3, <2>4, <3>2 DEF SockInv
    <3>4. \A c \in Socks, u \in Threads : Lent(c) => ~Holds(u, c)
      BY DEF SockInv
    <3>5. \A c \in Socks, u, v \in Threads : Holds(u, c)' /\ Holds(v, c)' => u = v
      BY <2>4, <3>2, <3>4 DEF SockInv
    <3>6. ASSUME NEW c \in open PROVE \E u \in Threads : Holds(u, c)'
      <4>1. c \in Socks /\ ~Holds(t, c)
        BY <2>4 DEF Holds
      <4>2. CASE Lent(c)
        BY <2>3, <2>4, <4>1, <4>2
      <4>3. ASSUME NEW u \in Threads, Holds(u, c) PROVE Holds(u, c)'
        BY <2>4, <4>1, <4>3
      <4> QED BY <4>2, <4>3 DEF SockInv
    <3> HIDE DEF Listener, Server, Info, NoInfo
    <3>7. open' = open
      OBVIOUS
    <3> QED BY <2>2, <3>1, <3>3, <3>5, <3>6, <3>7 DEF SockInv
  <2> QED BY <2>1, <2>5
<1> QED BY <1>1, <1>2, <1>3

\* A thread that closes its connection, or none, holds none.
LEMMA CloseInv ==
  ASSUME WebTypes, NEW t \in Threads, srv[t].pc \in {"recv", "open", "run"},
         NEW pc \in {"none", "kill"},
         open' = open \ {srv[t].info.sock},
         srv' = [srv EXCEPT ![t] = [Idle EXCEPT !.pc = pc]],
         UNCHANGED <<lis, posted, interrupted, file, g_web_ip, rt>>,
         unsaved' \in BOOLEAN
  PROVE  WebTypes' /\ (Lending => Lending')
<1> USE Distinct DEF WebTypes, Listener, Server, Info, NoInfo, Idle
<1>1. WebTypes'
  OBVIOUS
<1>2. ASSUME Lending PROVE Lending'
  <2> USE <1>2 DEF Lending
  <2>1. LoanInv'
    BY DEF LoanInv, At
  <2>2. \A c \in Socks : Lent(c)' <=> Lent(c)
    BY DEF Lent, Leaked, HandedOver
  <2>3. /\ Holds(t, NoSock)'
        /\ \A c \in Socks : ~Holds(t, c)'
        /\ \A u \in Threads \ {t}, c \in Socks \cup {NoSock} : Holds(u, c)' <=> Holds(u, c)
    BY DEF Holds
  <2>4. SockInv'
    <3>1. \A u \in Threads : srv'[u].pc \in {"none", "copy", "kill"} => Holds(u, NoSock)'
      BY <2>3 DEF SockInv
    <3>2. ASSUME NEW c \in Socks, NEW u \in Threads, Holds(u, c)'
          PROVE  c \in open' /\ ~Lent(c)'
      BY <2>2, <2>3, <3>2 DEF SockInv, Holds
    <3>3. ASSUME NEW c \in Socks, NEW u \in Threads, NEW v \in Threads,
                 Holds(u, c)', Holds(v, c)'
          PROVE  u = v
      BY <2>3, <3>3 DEF SockInv
    <3>4. ASSUME NEW c \in Socks, Lent(c)'
          PROVE  c \in open'
      BY <2>2, <3>4 DEF SockInv, Holds
    <3>5. ASSUME NEW c \in open'
          PROVE  Lent(c)' \/ \E u \in Threads : Holds(u, c)'
      <4>1. c \in open /\ ~Holds(t, c) /\ c \in Socks
        BY DEF Holds
      <4> QED BY <2>2, <2>3, <4>1 DEF SockInv
    <3> QED BY <3>1, <3>2, <3>3, <3>4, <3>5 DEF SockInv
  <2> QED BY <2>1, <2>4
<1> QED BY <1>1, <1>2

\* A thread that goes on with the connection it has.
LEMMA GoOnInv ==
  ASSUME WebTypes, NEW t \in Threads,
         srv[t].pc \in {"recv", "cmp", "cpy", "open", "write", "run"},
         NEW pc \in {"recv", "cmp", "cpy", "open", "write", "run"},
         NEW known \in BOOLEAN,
         srv' = [srv EXCEPT ![t].pc = pc, ![t].known = known],
         UNCHANGED conns
  PROVE  /\ srv' \in [Threads -> Server] /\ interrupted' = interrupted
         /\ Lending => Lending'
<1> USE DEF WebTypes, Server, conns
<1>1. srv' \in [Threads -> Server] /\ interrupted' = interrupted
  OBVIOUS
<1>2. ASSUME Lending PROVE Lending'
  <2> USE <1>2 DEF Lending
  <2>1. LoanInv'
    BY DEF LoanInv, At
  <2>2. \A c \in Socks : Lent(c)' <=> Lent(c)
    BY DEF Lent, Leaked, HandedOver
  <2>3. \A u \in Threads, c \in Socks \cup {NoSock} : Holds(u, c)' <=> Holds(u, c)
    BY DEF Holds
  <2>4. SockInv'
    BY <2>2, <2>3 DEF SockInv
  <2> QED BY <2>1, <2>4
<1> QED BY <1>1, <1>2

\* Each step of a connection thread.
LEMMA ServeInv ==
  ASSUME WebTypes, AddrInv, NEW t \in Threads, ServeStep(t)
  PROVE  /\ WebTypes' /\ AddrInv' /\ interrupted' = interrupted
         /\ Lending => Lending'
<1> USE Distinct
<1>t. srv \in [Threads -> Server] /\ srv[t] \in Server
  BY DEF WebTypes
<1>1. CASE CopyInfo(t)
  BY <1>1, CopyInfoInv
<1>2. CASE RecvCommand(t) \/ RunCommand(t)
  <2>1. PICK pc \in {"recv", "cmp", "run"} : srv' = [srv EXCEPT ![t].pc = pc]
    BY <1>2 DEF RecvCommand, RunCommand, Goto
  <2>2. srv' = [srv EXCEPT ![t].pc = pc, ![t].known = srv[t].known]
    BY <1>t, <2>1 DEF Server
  <2>3. srv[t].known \in BOOLEAN /\ srv[t].pc \in {"recv", "run"}
    BY <1>t, <1>2 DEF Server, RecvCommand, RunCommand, At
  <2>4. UNCHANGED <<file, g_web_ip, conns, rt, unsaved>>
    BY <1>2 DEF RecvCommand, RunCommand
  <2>5. srv' \in [Threads -> Server] /\ interrupted' = interrupted /\ (Lending => Lending')
    BY GoOnInv, <2>2, <2>3, <2>4 DEF conns
  <2>6. Saving' <=> Saving
    BY <1>t, <2>1, <2>3 DEF Saving
  <2> QED BY <2>4, <2>5, <2>6 DEF WebTypes, AddrInv, conns
<1>3. CASE RecvFails(t)
  <2>1. WebTypes' /\ interrupted' = interrupted /\ (Lending => Lending')
    BY CloseInv, <1>3 DEF RecvFails, CloseConn, At, Idle, WebTypes
  <2>2. Saving' <=> Saving
    BY <1>3, <1>t DEF RecvFails, CloseConn, At, Idle, Saving
  <2> QED BY <1>3, <2>1, <2>2 DEF RecvFails, CloseConn, AddrInv
<1>4. CASE CompareAddr(t)
  <2>1. PICK pc \in {"cpy", "run"}, known \in BOOLEAN :
          srv' = [srv EXCEPT ![t].pc = pc, ![t].known = known]
    <3>1. CASE g_web_ip = srv[t].info.addr
      BY <1>4, <3>1 DEF CompareAddr
    <3>2. CASE g_web_ip # srv[t].info.addr
      <4>1. srv' = [srv EXCEPT ![t].pc = "cpy"]
        BY <1>4, <3>2 DEF CompareAddr
      <4>2. srv' = [srv EXCEPT ![t].pc = "cpy", ![t].known = srv[t].known]
        BY <1>t, <4>1 DEF Server
      <4>3. srv[t].known \in BOOLEAN
        BY <1>t DEF Server
      <4> QED BY <4>2, <4>3
    <3> QED BY <3>1, <3>2
  <2>2. srv' \in [Threads -> Server] /\ interrupted' = interrupted /\ (Lending => Lending')
    BY GoOnInv, <1>4, <2>1 DEF CompareAddr, At, conns
  <2>3. Saving' <=> Saving
    BY <1>4, <1>t, <2>1 DEF CompareAddr, At, Saving
  <2> QED BY <1>4, <2>2, <2>3 DEF CompareAddr, WebTypes, AddrInv, conns
<1>5. CASE CopyAddr(t)
  <2>1. srv' = [srv EXCEPT ![t].pc = "open", ![t].known = srv[t].known]
    BY <1>t, <1>5 DEF CopyAddr, Goto, Server
  <2>2. srv[t].known \in BOOLEAN /\ srv[t].info.addr \in Centres \cup {NoAddr}
    BY <1>t DEF Server, Info
  <2>3. srv' \in [Threads -> Server] /\ interrupted' = interrupted /\ (Lending => Lending')
    BY GoOnInv, <1>5, <2>1, <2>2 DEF CopyAddr, At, conns
  <2>4. Saving'
    BY <1>t, <2>1 DEF Saving
  <2> QED BY <1>5, <2>2, <2>3, <2>4 DEF CopyAddr, WebTypes, AddrInv, conns
<1>6. CASE OpenFile(t)
  <2>1. srv' = [srv EXCEPT ![t].pc = "write", ![t].known = srv[t].known]
    BY <1>t, <1>6 DEF OpenFile, Goto, Server
  <2>2. srv[t].known \in BOOLEAN
    BY <1>t DEF Server
  <2>3. srv' \in [Threads -> Server] /\ interrupted' = interrupted /\ (Lending => Lending')
    BY GoOnInv, <1>6, <2>1, <2>2 DEF OpenFile, At, conns
  <2>4. Saving'
    BY <1>t, <2>1 DEF Saving
  <2> QED BY <1>6, <2>3, <2>4 DEF OpenFile, WebTypes, AddrInv, conns
<1>7. CASE OpenFails(t)
  <2>1. WebTypes' /\ interrupted' = interrupted /\ (Lending => Lending')
    BY CloseInv, <1>7 DEF OpenFails, CloseConn, At, Idle
  <2> QED BY <1>7, <2>1 DEF OpenFails, AddrInv
<1>8. CASE WriteFile(t)
  <2>1. srv' \in [Threads -> Server] /\ interrupted' = interrupted /\ (Lending => Lending')
    BY GoOnInv, <1>8 DEF WriteFile, At, conns
  <2> QED BY <1>8, <2>1 DEF WriteFile, WebTypes, AddrInv, conns
<1>9. CASE WriteFails(t)
  <2>1. srv' \in [Threads -> Server] /\ interrupted' = interrupted /\ (Lending => Lending')
    BY GoOnInv, <1>9 DEF WriteFails, At, conns
  <2> QED BY <1>9, <2>1 DEF WriteFails, WebTypes, AddrInv, conns
<1>10. CASE RunReboot(t)
  <2>1. WebTypes' /\ interrupted' = interrupted /\ (Lending => Lending')
    BY CloseInv, <1>10 DEF RunReboot, At, Idle, WebTypes
  <2>2. Saving' <=> Saving
    BY <1>10, <1>t DEF RunReboot, At, Idle, Saving
  <2> QED BY <1>10, <2>1, <2>2 DEF RunReboot, AddrInv
<1> QED BY <1>1, <1>2, <1>3, <1>4, <1>5, <1>6, <1>7, <1>8, <1>9, <1>10 DEF ServeStep

\* The report thread changes the address in memory only to what the file holds.
LEMMA ReportThreadInv ==
  ASSUME WebTypes, AddrInv, ReadFile \/ AskServInfo
  PROVE  /\ WebTypes' /\ AddrInv' /\ interrupted' = interrupted
         /\ Lending => Lending'
<1>1. WebTypes' /\ AddrInv' /\ interrupted' = interrupted
  BY DEF ReadFile, AskServInfo, WebTypes, AddrInv, conns, Saving
<1>2. ASSUME Lending PROVE Lending'
  BY <1>2 DEF ReadFile, AskServInfo, Lending, LoanInv, SockInv, conns, Holds, Lent, Leaked,
     HandedOver, At
<1> QED BY <1>1, <1>2

\* A signal: nothing is claimed of the connections any more.
LEMMA InterruptInv ==
  ASSUME WebTypes, AddrInv, Interrupt
  PROVE  WebTypes' /\ AddrInv' /\ interrupted' # 0
<1> USE InterruptAssumption, Distinct DEF WebTypes, Interrupt
<1>1. WebTypes' /\ interrupted' # 0
  BY DEF Listener, Info, Accepting, NoInfo
<1>2. AddrInv'
  BY DEF AddrInv, Saving
<1> QED BY <1>1, <1>2

LEMMA WebStepInv ==
  ASSUME WebInv, WebStep
  PROVE  WebInv'
  BY AcceptInv, LendInv, ServeInv, ReportThreadInv, InterruptInv
     DEF WebInv, WebStep, ListenStep

\* A new process holds no connection, and knows no address.
LEMMA ForgetInv ==
  ASSUME WebInv, Forget
  PROVE  WebInv'
<1> USE Distinct DEF Forget, WebInv, Lending, Idle, Accepting, NoInfo
<1>1. WebTypes'
  BY NoneYet DEF WebTypes, Listener, Server, Info
<1>2. LoanInv'
  BY DEF LoanInv, At
<1>3. \A c \in Socks : ~Lent(c)'
  BY DEF Lent, Leaked, HandedOver
<1>4. \A t \in Threads : Holds(t, NoSock)' /\ \A c \in Socks : ~Holds(t, c)'
  BY DEF Holds
<1>5. SockInv'
  BY <1>3, <1>4 DEF SockInv
<1>6. AddrInv'
  BY DEF AddrInv
<1> QED BY <1>1, <1>2, <1>5, <1>6

-----------------------------------------------------------------------------
(***************************************************************************)
(* The invariant, and what follows from it.                                *)
(***************************************************************************)

LEMMA WInvInit == WorkerInit => WInv
<1> SUFFICES ASSUME WorkerInit PROVE WInv
  OBVIOUS
<1> USE Distinct DEF WorkerInit, SupInit, WebInit, Idle, Accepting, NoInfo
<1>1. WorkerTypeOK
  BY NoneYet DEF WorkerTypeOK, Listener, Server, Info, KidStates, SupStates
<1>2. KidInv /\ LoanInv
  BY DEF KidInv, LoanInv, At
<1>3. \A c \in Socks : ~Lent(c)
  BY DEF Lent, Leaked, HandedOver
<1>4. \A t \in Threads : Holds(t, NoSock) /\ \A c \in Socks : ~Holds(t, c)
  BY DEF Holds
<1>5. SockInv
  BY <1>3, <1>4 DEF SockInv
<1>6. AddrInv
  BY DEF AddrInv
<1> QED BY <1>1, <1>2, <1>5, <1>6 DEF WInv

\* What is about the threads of the worker stays as long as their state does.
LEMMA WebStutter ==
  ASSUME WebInv, UNCHANGED webVars
  PROVE  WebInv'
<1>1. WebTypes' /\ AddrInv' /\ interrupted' = interrupted
  BY DEF WebInv, webVars, conns, WebTypes, AddrInv, Saving
<1>2. ASSUME Lending PROVE Lending'
  BY <1>2 DEF webVars, conns, Lending, LoanInv, SockInv, Holds, Lent, Leaked, HandedOver, At
<1> QED BY <1>1, <1>2 DEF WebInv

LEMMA WInvNext == WInv /\ [WorkerNext]_wVars => WInv'
<1> SUFFICES ASSUME WInv, [WorkerNext]_wVars PROVE WInv'
  OBVIOUS
<1>0. WorkerTypeOK /\ KidInv /\ WebInv
  BY DEF WInv, WorkerTypeOK, WebInv, Lending, WebTypes
<1>1. SUFFICES /\ kid' \in [Pids -> KidStates] /\ sup' \in SupStates /\ sigchld' \in BOOLEAN
               /\ KidInv' /\ WebInv'
  BY DEF WInv, WorkerTypeOK, WebInv, Lending, WebTypes
<1>2. CASE SupStep /\ UNCHANGED webVars
  <2>1. WebInv'
    BY <1>0, <1>2, WebStutter DEF webVars
  <2> QED BY <1>0, <1>2, <2>1, SupTypes, SupKid
<1>3. CASE WebStep /\ UNCHANGED supVars
  <2>1. WebInv'
    BY <1>0, <1>3, WebStepInv
  <2> QED BY <1>0, <1>3, <2>1 DEF supVars, WorkerTypeOK, KidInv
<1>4. ASSUME NEW p \in Pids, Die(p), Forget
      PROVE  /\ kid' \in [Pids -> KidStates] /\ sup' \in SupStates /\ sigchld' \in BOOLEAN
             /\ KidInv' /\ WebInv'
  BY <1>0, <1>4, DieKid, ForgetInv
<1>5. CASE UNCHANGED wVars
  <2>1. WebInv'
    BY <1>0, <1>5, WebStutter DEF wVars
  <2> QED BY <1>0, <1>5, <2>1 DEF wVars, supVars, WorkerTypeOK, KidInv
<1> QED BY <1>2, <1>3, <1>4, <1>5 DEF WorkerNext, Crash, Reboot

LEMMA WInvariance == WorkerSpec => []WInv
  BY WInvInit, WInvNext, PTL DEF WorkerSpec

\* The state has its types.
THEOREM WorkerTypeCorrect == WorkerSpec => []WorkerTypeOK
<1>1. WInv => WorkerTypeOK
  BY DEF WInv
<1> QED BY <1>1, WInvariance, PTL

\* One worker at a time, whatever ends when: sig_child (test/main.c) forks only after
\* waitpid has returned the last process.
THEOREM SingleWorker == WorkerSpec => []OneWorker
<1>1. WInv => OneWorker
  <2> SUFFICES ASSUME WInv PROVE OneWorker
    OBVIOUS
  <2>1. \A p, q \in Alive : p = q
    BY DEF WInv, KidInv, Alive
  <2>2. CASE Alive = {}
    BY <2>2, FS_EmptySet DEF OneWorker
  <2>3. CASE Alive # {}
    <3>1. PICK p \in Alive : Alive = {p}
      BY <2>1, <2>3
    <3>2. Cardinality({p}) = 1
      BY FS_Singleton
    <3> QED BY <3>1, <3>2 DEF OneWorker
  <2> QED BY <2>2, <2>3
<1> QED BY <1>1, WInvariance, PTL

\* A connection of a media centre belongs to one thread (create_web_listen_thread,
\* create_listen_client_thread): the semaphore makes the single client_info safe to lend
\* until a signal interrupts the wait for it, and loses no connection but one whose thread
\* could not be created.
THEOREM ConnectionsOwned == WorkerSpec => []OwnConnection
<1>1. WInv => OwnConnection
  <2> SUFFICES ASSUME WInv, interrupted = 0, NEW c \in Socks
               PROVE  IF c \in open
                      THEN IF HandedOver(c) \/ Leaked(c) THEN Holders(c) = {}
                           ELSE \E t \in Threads : Holders(c) = {t}
                      ELSE Holders(c) = {}
    BY DEF OwnConnection
  <2>0. SockInv /\ Holders(c) = {t \in Threads : Holds(t, c)}
    BY DEF WInv, Holders, Holds
  <2>1. CASE c \notin open
    BY <2>0, <2>1 DEF SockInv, Lent
  <2>2. CASE Lent(c)
    BY <2>0, <2>2 DEF SockInv, Lent
  <2>3. CASE c \in open /\ ~Lent(c)
    <3>1. PICK t \in Threads : Holds(t, c)
      BY <2>0, <2>3 DEF SockInv
    <3>2. Holders(c) = {t}
      BY <2>0, <3>1 DEF SockInv
    <3> QED BY <2>3, <3>2 DEF Lent
  <2> QED BY <2>0, <2>1, <2>2, <2>3 DEF SockInv
<1> QED BY <1>1, WInvariance, PTL

\* The file keeps the address of the media centre for the next worker (set_wet_url).
THEOREM AddressKept == WorkerSpec => []AddressSaved
<1>1. WInv => AddressSaved
  BY DEF WInv, AddrInv, AddressSaved
<1> QED BY <1>1, WInvariance, PTL

-----------------------------------------------------------------------------
(***************************************************************************)
(* A signal that has been taken up ends in a worker.                       *)
(***************************************************************************)

\* The parent leaves its handler only with a process in its place, or for good.
LEMMA SupAnswers ==
  ASSUME WInv, SupStep, Answering, ~Answering'
  PROVE  Alive' # {} \/ sup' = "gone"
<1> USE DEF WInv, KidInv, WorkerTypeOK, KidStates, Answering
<1>1. ASSUME NEW p \in Pids, WorkerWakes(p) PROVE Alive' # {}
  BY <1>1 DEF WorkerWakes
<1>2. CASE ForkFirst \/ Install
  BY <1>2 DEF ForkFirst, Install
<1>3. CASE HandleSignal \/ ParentWakes
  BY <1>3 DEF HandleSignal, ParentWakes
<1>4. CASE Reap
  <2>1. CASE Zombies # {}
    BY <1>4, <2>1 DEF Reap
  <2>2. CASE Zombies = {}
    <3>1. kid' = kid
      BY <1>4, <2>2 DEF Reap
    <3>2. PICK p \in Pids : kid[p] # "none"
      BY <1>4 DEF Reap
    <3>3. kid[p] # "dead"
      BY <2>2 DEF Zombies
    <3>4. p \in Alive'
      BY <3>1, <3>2, <3>3 DEF Alive
    <3> QED BY <3>4
  <2> QED BY <2>1, <2>2
<1>5. CASE Refork
  <2>1. PICK p \in Pids : Fork(p, "sleep")
    BY <1>5 DEF Refork
  <2>2. p \in Alive'
    BY <2>1 DEF Fork, Alive
  <2> QED BY <2>2
<1>6. CASE ForkFails
  BY <1>6 DEF ForkFails
<1> QED BY <1>1, <1>2, <1>3, <1>4, <1>5, <1>6 DEF SupStep, ParentStep

\* A worker that ends raises a signal that is not pending yet: it answers none.
LEMMA DieAnswersNone ==
  ASSUME WInv, NEW p \in Pids, Die(p), Answering, ~Answering'
  PROVE  sup' = "gone"
  BY DEF Die, WInv, KidInv, WorkerTypeOK, SupStates, Answering

\* sig_child (test/main.c) takes up one pending signal for any number of workers that
\* have ended, and starts one: the parent does not go back to waiting without a worker.
THEOREM SignalsAnswered == WorkerSpec => SignalAnswered
<1>1. ASSUME WInv, [WorkerNext]_wVars
      PROVE  [Answering /\ ~Answering' => Alive' # {} \/ sup' = "gone"]_wVars
  <2> SUFFICES ASSUME Answering, ~Answering', ~UNCHANGED wVars
               PROVE  Alive' # {} \/ sup' = "gone"
    OBVIOUS
  <2>1. CASE SupStep
    BY <1>1, <2>1, SupAnswers
  <2>2. CASE UNCHANGED supVars
    BY <2>2 DEF supVars, Answering
  <2>3. ASSUME NEW p \in Pids, Die(p) PROVE sup' = "gone"
    BY <1>1, <2>3, DieAnswersNone
  <2> QED BY <1>1, <2>1, <2>2, <2>3 DEF WorkerNext, Crash, Reboot
<1> QED BY <1>1, WInvariance, PTL DEF WorkerSpec, SignalAnswered
=============================================================================
