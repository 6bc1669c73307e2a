SPECIFICATION Spec
CONSTANTS
  NumSlots = 1
  SeqMod = 4
  MaxTry = 2
  MaxExt = 1
  OutCap = 1
  InCap = 1
  IntrCap = 1
  UsbErrors = {"BUS", "NO_MEM", "DEVICE_REMOVED"}
  BErrors = {"ABORT"}
  MaxCmds = 4
INVARIANT WaitMeansPresent
CHECK_DEADLOCK FALSE
