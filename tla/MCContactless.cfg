SPECIFICATION BothSpec
CONSTANTS
  Payload = 2
  MaxTx = 3
  MaxAnswer = 3
  MaxCalls = 3
  MaxWtx = 2
  TagReset = "tag"
  Speeds = {424}
  Waits = {4, 8, 9, 16}
  FieldCalls = 3
INVARIANTS TypeOK InStep FreshAnswer WholeCommand WholeAnswer
INVARIANTS FieldTypeOK FieldInStep TimerLasts
PROPERTY GenuineSelected
CHECK_DEADLOCK FALSE
