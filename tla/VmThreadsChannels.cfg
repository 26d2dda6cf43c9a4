SPECIFICATION Spec
CONSTANTS
  c1 = c1
  c2 = c2
  Chan <- MCChan
  NIL = NIL
  None = None
  Program <- ChannelGuest
  THREAD_QUANTUM = 2
  YIELD_QUANTUM = 2
  MaxThreads = 3
INVARIANT IInv
PROPERTY NoPayloadOverwritten
