------------------------------ MODULE MCWorker ------------------------------
(***************************************************************************)
(* The supervised worker, on a small instance.                             *)
(***************************************************************************)
EXTENDS Worker, TLC

\* Nothing tells two media centres, sockets or threads apart.  The fairness and the temporal
\* properties are about supVars, where none of them occurs.
Symmetry == Permutations(Centres) \cup Permutations(Socks) \cup Permutations(Threads)

=============================================================================
