SPECIFICATION Spec
CONSTANTS
  r1 = r1
  r2 = r2
  f1 = f1
  f2 = f2
  Rec <- Records
  File <- Files
  Device = {"file"}
  Socket = {"listener"}
  Op = {"read", "stream"}
  StreamTo = {1}
  DupTo <- Targets
  MaxFd = 4
  MaxQueue = 1
  MaxInput = 1
SYMMETRY Symmetry
INVARIANTS WritersCounted OwnersOwn
PROPERTIES PipeEndsOnce
CHECK_DEADLOCK FALSE
