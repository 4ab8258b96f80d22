\* Two media centres and two connections at a time; the worker ends at any point, and one
\* wait of each worker is interrupted.
CONSTANTS
  Pids = {1, 2}
  Centres = {mcA, mcB}
  Socks = {s1, s2}
  Threads = {t1, t2}
  MaxInterrupts = 1
SYMMETRY Symmetry
SPECIFICATION WorkerFairSpec
INVARIANTS OneWorker OwnConnection AddressSaved
PROPERTIES Restarted SignalAnswered
CHECK_DEADLOCK FALSE
