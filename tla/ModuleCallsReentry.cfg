SPECIFICATION Spec
CONSTANTS
  main = main
  lib = lib
  aux = aux
  tried = tried
  bare = bare
  Main = main
  Loaded = {lib}
  Pc <- MCPc
  Handlers <- MCHandlers
  None = None
  MAX_FRAMES = 5
INVARIANTS StoresPersist
