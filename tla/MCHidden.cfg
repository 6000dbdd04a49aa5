SPECIFICATION RunSpec
CONSTANTS
  NS = 2
  Unit <- MCUnit
  Programs <- HiddenPrograms
INVARIANT JumpsNotSplit
