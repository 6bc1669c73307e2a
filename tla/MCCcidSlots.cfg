SPECIFICATION FairSpec
CONSTANTS
  NumSlots = 2
  SeqMod = 4
  MaxTry = 2
  MaxExt = 1
  OutCap = 1
  InCap = 1
  IntrCap = 1
  UsbErrors = {"BUS", "DEVICE_REMOVED"}
  BErrors = {"ABORT"}
  MaxCmds = 4
INVARIANTS InSync CacheCurrent KnownStatus
PROPERTIES CallReturns WaitReturns
CHECK_DEADLOCK FALSE
