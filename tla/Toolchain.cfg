CONSTANTS
  WordMax = 127
  Sources <- MCSources
  Generated <- MCGenerated
  Modules <- MCModules
  Meanings <- MCMeanings
  CutLengths = {1, 2, 5, 12}
  MaxArrayBytes = 256
  MaxData = 1024
  Precision = 3
SPECIFICATION Spec
CHECK_DEADLOCK FALSE
INVARIANTS ReadsBack LoadsBack CutFilesAreRefused DataIsMeaning CasesFindTheirRange ImportsAreBound NumbersAreExact
