SPECIFICATION Spec
CONSTANTS
  Apps = {a, b}
  Profiles <- MCProfiles
  None = none
  Pse = pse
SYMMETRY Symmetric
INVARIANTS TypeOK KeysVerified DdaProven DdaImpliesSda
CHECK_DEADLOCK FALSE
