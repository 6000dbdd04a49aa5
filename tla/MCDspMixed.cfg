SPECIFICATION Spec
CONSTANTS
  Programs <- MixedPrograms
  NamedDsp <- MCDsp
  Dsp <- MCDsp
  NoWait <- MCNoWait
  DspStat = FALSE
  GppStat = FALSE
INVARIANT Rewritten
