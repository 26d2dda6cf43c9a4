SPECIFICATION Spec
CONSTANTS
  o1 = o1
  o2 = o2
  o3 = o3
  t1 = t1
  t2 = t2
  Id <- Objects
  NIL = NIL
  Thread <- Threads
  Var = {"x"}
  Global = {"g"}
  Caller = {}
  Text = {"a", "b"}
  Program <- CountingGuest
  Made = {"array", "module"}
  MaxCount = 5
  MaxRefs = 1
SYMMETRY Symmetry
INVARIANTS NoDangling CountsCover SlicesShareTheirRoot
PROPERTIES SeparateWords
CHECK_DEADLOCK FALSE
