SPECIFICATION Spec
CONSTANTS
  Apps = {a, b}
  Profiles <- MCProfiles
  None = none
  Pse = pse
INVARIANT StatusAfterSuccess
CHECK_DEADLOCK FALSE
