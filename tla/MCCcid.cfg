SPECIFICATION Spec
CONSTANTS
  NumSlots = 1
  SeqMod = 2
  MaxTry = 2
  MaxExt = 2
  OutCap = 1
  InCap = 2
  IntrCap = 1
  UsbErrors = {"BUS", "NO_MEM", "DEVICE_REMOVED"}
  BErrors = {"ABORT"}
  MaxCmds = 4
INVARIANTS TypeOK WindowSafe AbortOnlyAfterWrap NoFalseBusError
PROPERTY ImplementsChannel
CHECK_DEADLOCK FALSE
