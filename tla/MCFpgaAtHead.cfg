SPECIFICATION Spec
CONSTANTS
  Programs <- AtHeadPrograms
  Fpga <- MCFpga
  GenerateSet = TRUE
  FpgaStat = FALSE
INVARIANT TwoDummiesFound
