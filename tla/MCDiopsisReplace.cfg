SPECIFICATION Spec
CONSTANTS
  Programs <- MCPrograms
  NamedDsp <- MCDsp
  Dsp <- MCDsp
  NoWait <- MCNoWait
  DspStat = TRUE
  GppStat = TRUE
INVARIANTS RewrittenApart RestKept CallProtocol UidsUnique GppStatsWaited ErrorsJustified
PROPERTY Ends
