----------------------------- MODULE Supervisor -----------------------------
(***************************************************************************)
(* The two processes of src/test/main.c: the parent forks a worker, and    *)
(* forks another from its SIGCHLD handler whenever one has ended.          *)
(***************************************************************************)
EXTENDS Integers, FiniteSets

CONSTANT Pids             \* process numbers of the workers

VARIABLES kid,            \* the workers: none, asleep before run_live, running, a zombie
          sup,            \* where the parent is
          sigchld         \* SIGCHLD is pending at the parent

supVars == <<kid, sup, sigchld>>

KidStates == {"none", "sleep", "run", "dead"}
SupStates == {"fork", "install", "wait", "reap", "refork", "sleep", "gone"}

Alive == {p \in Pids : kid[p] \in {"sleep", "run"}}
Running == {p \in Pids : kid[p] = "run"}
Zombies == {p \in Pids : kid[p] = "dead"}

SupInit == /\ kid = [p \in Pids |-> "none"]
           /\ sup = "fork"
           /\ sigchld = FALSE

\* The worker's number is one that is free.
Fork(p, state) == kid[p] = "none" /\ kid' = [kid EXCEPT ![p] = state]

\* main: the first worker runs at once; the handler is installed afterwards.
ForkFirst ==
  /\ sup = "fork"
  /\ \E p \in Pids : Fork(p, "run")
  /\ sup' = "install"
  /\ UNCHANGED sigchld
Install ==
  /\ sup = "install"
  /\ sup' = "wait"
  /\ UNCHANGED <<kid, sigchld>>

\* sig_child runs with SIGCHLD blocked: a worker that ends meanwhile leaves one pending.
HandleSignal ==
  /\ sup = "wait" /\ sigchld
  /\ sup' = "reap" /\ sigchld' = FALSE
  /\ UNCHANGED kid

\* waitpid(-1, &stat, WNOHANG): above 0 for a zombie, 0 while workers live.
Reap_NotNegative ==
  /\ sup = "reap"
  /\ IF Zombies # {}
     THEN \E p \in Zombies : kid' = [kid EXCEPT ![p] = "none"] /\ sup' = "refork"
     ELSE sup' = (IF Alive # {} THEN "refork" ELSE "wait") /\ UNCHANGED kid
  /\ UNCHANGED sigchld
Reap ==
  /\ sup = "reap"
  /\ IF Zombies # {}
     THEN \E p \in Zombies : kid' = [kid EXCEPT ![p] = "none"] /\ sup' = "refork"
     ELSE sup' = "wait" /\ UNCHANGED kid
  /\ UNCHANGED sigchld

\* The new worker sleeps two seconds before run_live, the parent one before it waits
\* for more.
Refork ==
  /\ sup = "refork"
  /\ \E p \in Pids : Fork(p, "sleep")
  /\ sup' = "sleep"
  /\ UNCHANGED sigchld
ParentWakes ==
  /\ sup = "sleep"
  /\ sup' = "reap"
  /\ UNCHANGED <<kid, sigchld>>

\* fork fails: exit(1).
ForkFails_GoesOn ==
  /\ sup \in {"fork", "refork"}
  /\ sup' = IF sup = "fork" THEN "gone" ELSE "wait"
  /\ UNCHANGED <<kid, sigchld>>
ForkFails ==
  /\ sup \in {"fork", "refork"}
  /\ sup' = "gone"
  /\ UNCHANGED <<kid, sigchld>>

WorkerWakes(p) ==
  /\ kid[p] = "sleep"
  /\ kid' = [kid EXCEPT ![p] = "run"]
  /\ UNCHANGED <<sup, sigchld>>

\* A worker ends, by a crash or by "kill".  Without a handler the signal is dropped.
Die(p) ==
  /\ kid[p] = "run"
  /\ kid' = [kid EXCEPT ![p] = "dead"]
  /\ sigchld' = (sup \notin {"fork", "install", "gone"})
  /\ UNCHANGED sup

ParentStep == \/ ForkFirst \/ Install \/ HandleSignal \/ Reap \/ Refork \/ ParentWakes
              \/ ForkFails
SupStep == ParentStep \/ \E p \in Pids : WorkerWakes(p)

=============================================================================
