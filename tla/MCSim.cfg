SPECIFICATION Spec
CONSTANTS
  NumRec = 4
  MaxCalls = 4
INVARIANTS TypeOK FciOfFile InStep RecordsKnown
PROPERTY Labelled
CHECK_DEADLOCK FALSE
