SPECIFICATION FairSpec
CONSTANTS
  NS = 2
  Unit <- MCUnit
  Programs <- StructuredPrograms
INVARIANTS RunTypeOK OrderKept NothingLost JumpsNotSplit KernelsFirst UnitsExclusive ReadsOwnResult ReturnsIdle
PROPERTIES Omp Terminates
