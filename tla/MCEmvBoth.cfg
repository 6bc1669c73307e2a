SPECIFICATION Spec
CONSTANTS
  Apps = {a, b}
  Profiles <- MCProfiles
  None = none
  Pse = pse
INVARIANT GenuineAccepted
CHECK_DEADLOCK FALSE
