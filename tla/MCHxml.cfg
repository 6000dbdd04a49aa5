SPECIFICATION Spec
CONSTANTS
  Documents <- MCDocuments
  Ids <- MCIds
INVARIANTS TypeAsWritten RegistersAsWritten BusAsWritten ErrorsJustified RefusedJustified
