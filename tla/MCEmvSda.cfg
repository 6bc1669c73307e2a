SPECIFICATION Spec
CONSTANTS
  Apps = {a, b}
  Profiles <- MCProfiles
  None = none
  Pse = pse
INVARIANT SdaMeansVerified
CHECK_DEADLOCK FALSE
