CONSTANTS
  WordMax = 127
  Adts <- MCAdts
  Programs <- MCPrograms
  Images <- MCImages
  Outcomes <- MCOutcomes
  MaxThreads = 3
SPECIFICATION Spec
CHECK_DEADLOCK FALSE
INVARIANTS OutcomeIsMeaning WritesStayInFrames DescriptorsCoverPointers MarkedWordsAreAlive
PROPERTY EveryProgramEnds
