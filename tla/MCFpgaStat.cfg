SPECIFICATION Spec
CONSTANTS
  Programs <- EmbeddedPrograms
  Fpga <- MCFpga
  GenerateSet = TRUE
  FpgaStat = TRUE
INVARIANT StatsOfCall
