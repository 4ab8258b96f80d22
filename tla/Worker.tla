------------------------------- MODULE Worker -------------------------------
(***************************************************************************)
(* The supervised worker: the process of Supervisor runs the threads of    *)
(* WebListen.  A process that ends takes its memory, its threads and its   *)
(* connections along; the file stays.                                      *)
(***************************************************************************)
EXTENDS Supervisor, WebListen

wVars == <<supVars, webVars>>

WorkerInit == SupInit /\ WebInit

\* All that lived in the process is as the next one starts with it.
Forget == /\ g_web_ip' = NoAddr
          /\ lis' = Accepting /\ posted' = 0 /\ interrupted' = 0
          /\ srv' = [t \in Threads |-> Idle]
          /\ open' = {} /\ rt' = "read" /\ unsaved' = FALSE
          /\ UNCHANGED file

Crash(p) == Die(p) /\ Forget

\* restart_live: system("kill <own pid>").
Reboot(p, t) == At(t, "kill") /\ Die(p) /\ Forget

WorkerNext ==
  \/ SupStep /\ UNCHANGED webVars
  \/ Running # {} /\ WebStep /\ UNCHANGED supVars
  \/ \E p \in Pids : Crash(p)
  \/ \E p \in Pids, t \in Threads : Reboot(p, t)

WorkerSpec == WorkerInit /\ [][WorkerNext]_wVars

\* Neither process is kept from running for ever.
WorkerFair == WF_supVars(ParentStep) /\ \A p \in Pids : WF_supVars(WorkerWakes(p))
WorkerFairSpec == WorkerSpec /\ WorkerFair

-----------------------------------------------------------------------------
(***************************************************************************)
(* Properties.                                                             *)
(***************************************************************************)

WorkerTypeOK ==
  /\ kid \in [Pids -> KidStates] /\ sup \in SupStates /\ sigchld \in BOOLEAN
  /\ file \in Centres \cup {NoAddr} /\ g_web_ip \in Centres \cup {NoAddr}
  /\ lis \in Listener /\ posted \in Nat /\ interrupted \in 0..MaxInterrupts
  /\ srv \in [Threads -> Server]
  /\ open \subseteq Socks
  /\ rt \in {"read", "ask", "reports", "ended"} /\ unsaved \in BOOLEAN

\* There are never two workers at a time: they would share the ports, the address file
\* and the recording servers.  Not even while a worker ends inside the parent's handler.
OneWorker == Cardinality(Alive) =< 1

\* A worker that ends, and whose signal is not dropped, is replaced by one that runs,
\* unless the parent has ended itself for want of a process.
Restarted == sigchld ~> (sup = "gone" \/ Running # {})

\* However many workers end during a round of the handler, and however their signals
\* merge into one: the parent does not take up a signal and go back to waiting without
\* a worker in place.
Answering == sigchld \/ sup \in {"reap", "refork"}
SignalAnswered == [][Answering /\ ~Answering' => Alive' # {} \/ sup' = "gone"]_wVars

\* The connection of a media centre is on its way from the listen thread to a connection
\* thread, or one thread has it and no other: client_info, which both threads use, does
\* not hand a connection out twice, and loses none.  There is one exception, the connection
\* whose thread could not be created: the listen thread ends, and nobody has it or closes
\* it.  All this as long as no signal has interrupted the listen thread's wait: the next
\* connection may then be in client_info, or none, when the thread copies it.
Holders(c) == {t \in Threads : srv[t].info.sock = c}
HandedOver(c) ==
  /\ lis.info.sock = c
  /\ lis.pc = "create" \/ (lis.pc = "wait" /\ posted = 0)
Leaked(c) == lis.pc = "ended" /\ lis.info.sock = c
OwnConnection ==
  interrupted = 0 =>
    \A c \in Socks :
      IF c \in open
      THEN IF HandedOver(c) \/ Leaked(c) THEN Holders(c) = {}
                                         ELSE \E t \in Threads : Holders(c) = {t}
      ELSE Holders(c) = {}

\* The address the worker uses is the one in the file, however the threads of several
\* media centres and the report thread overlap, unless the last write has failed: the
\* worker that replaces it finds the same media centre there.
Saving == \E t \in Threads : srv[t].pc \in {"open", "write"}
AddressSaved == ~Saving /\ ~unsaved /\ g_web_ip # NoAddr => file = g_web_ip

-----------------------------------------------------------------------------
(***************************************************************************)
(* The inductive invariant behind the safety properties.                   *)
(***************************************************************************)

\* A process that has not been waited for keeps its place: the parent forks into none,
\* and once it has forked there is one, but for the moment before it forks again.  No
\* signal is pending before there is a handler.
KidInv ==
  /\ \A p, q \in Pids : kid[p] # "none" /\ kid[q] # "none" => p = q
  /\ sup \in {"fork", "refork"} => \A p \in Pids : kid[p] = "none"
  /\ sup \in {"install", "wait", "reap", "sleep"} => \E p \in Pids : kid[p] # "none"
  /\ sup \in {"fork", "install"} => ~sigchld

\* The semaphore: at most one thread is at its copy, and the listen thread waits for it.
LoanInv ==
  /\ lis.pc = "accept" => lis.info = NoInfo
  /\ posted =< 1 /\ (posted = 1 => lis.pc = "wait")
  /\ \A t \in Threads : At(t, "copy") => lis.pc = "wait" /\ posted = 0
  /\ \A t, u \in Threads : At(t, "copy") /\ At(u, "copy") => t = u

\* Where each socket is.
Holds(t, c) == srv[t].info.sock = c
Lent(c) == HandedOver(c) \/ Leaked(c)
SockInv ==
  /\ \A t \in Threads : srv[t].pc \in {"none", "copy", "kill"} => Holds(t, NoSock)
  /\ \A c \in Socks, t \in Threads : Holds(t, c) => c \in open /\ ~Lent(c)
  /\ \A c \in Socks, t, u \in Threads : Holds(t, c) /\ Holds(u, c) => t = u
  /\ \A c \in Socks : Lent(c) => c \in open
  /\ \A c \in open : Lent(c) \/ \E t \in Threads : Holds(t, c)

\* Memory may be empty, as the report thread need not have read the file.
AddrInv == ~Saving /\ ~unsaved => g_web_ip \in {file, NoAddr}

WInv == WorkerTypeOK /\ KidInv /\ (interrupted = 0 => LoanInv /\ SockInv) /\ AddrInv

=============================================================================
