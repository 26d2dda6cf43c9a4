SPECIFICATION Spec
CONSTANTS
  main = main
  lib = lib
  aux = aux
  tried = tried
  bare = bare
  Main = main
  Loaded = {lib, aux}
  Pc <- MCPc
  Handlers <- MCHandlers
  None = None
  MAX_FRAMES = 5
INVARIANTS DataInOnePlace RunsOnOwnData ContextIsRestored FrameMatchesModule
PROPERTIES CallersFramesKept
