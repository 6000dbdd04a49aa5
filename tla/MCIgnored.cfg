SPECIFICATION Spec
CONSTANTS
  Items <- MCItems
  MaxItems = 5
  DspNames = {"DSP", "MAGIC"}
INVARIANT OneIgnored
