SPECIFICATION MCSpec
CONSTANTS
  Devices <- TheDevices
  Handles = {h1, h2, h3, h4}
  Wants <- TheWants
  None = None
  Dangling = Dangling
  MaxRefs = 1
  MaxSlots = 1
SYMMETRY Symmetry
INVARIANTS TypeOK ReleasedOnce DeviceReferenced InterfaceOpen MarkTellsFreed SessionOutlives
CHECK_DEADLOCK FALSE
