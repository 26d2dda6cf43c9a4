SPECIFICATION Spec
CONSTANTS
  c1 = c1
  c2 = c2
  Chan <- MCChan
  Worker = {w1, w2}
  None = None
  Program <- PipeGuest
  DEFAULT_QUANTA = 2
  Initial = 1
  MaxThreads = 3
  MaxInstr = 2
PROPERTIES PoolTerminates PoolImplementsGuestThreads
