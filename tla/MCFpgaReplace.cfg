SPECIFICATION Spec
CONSTANTS
  Programs <- MCPrograms
  Fpga <- MCFpga
  GenerateSet = TRUE
  FpgaStat = FALSE
INVARIANTS TypeOK Rewritten CallProtocol TwoDummiesFound
PROPERTY Ends
