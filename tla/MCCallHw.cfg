SPECIFICATION Spec
CONSTANTS
  Items <- MCItems
  MaxItems = 5
  DspNames = {"DSP", "MAGIC"}
INVARIANTS NothingWaitsInBody AttributeOfOwnPragma WeakrefOfLastRead DummyInPlace ErrorsJustified ReportedJustified
