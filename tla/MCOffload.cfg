SPECIFICATION Spec
CONSTANTS
  Programs <- MCPrograms
  NamedDsp <- MCNamedDsp
  Dsp <- MCDsp
  NoWait <- MCNoWait
  DspStat = FALSE
  GppStat = TRUE
  Fpga <- MCFpga
  GenerateSet = FALSE
  FpgaStat = FALSE
INVARIANTS EachByItsUnit BuiltinsUntouched
