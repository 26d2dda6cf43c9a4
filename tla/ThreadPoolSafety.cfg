SPECIFICATION Spec
CONSTANTS
  c1 = c1
  c2 = c2
  Chan <- MCChan
  Worker = {w1, w2, w3}
  None = None
  Program <- EveryGuest
  DEFAULT_QUANTA = 1
  Initial = 1
  MaxThreads = 3
  MaxInstr = 2
SYMMETRY Workers
INVARIANTS PoolDeadlockIsReal OkMeansAllExited PoolConservesThreads ParkedThreadIsRetried NobodySleepsOnWork
