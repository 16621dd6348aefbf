SPECIFICATION Spec
CONSTANTS
  Malformed = Malformed
  MaxChanges = 2
INVARIANTS
  ReadersExact
  DecodersAgree
  FingerprintsCanonical
  ListsCombine
  FieldsUnambiguous
CHECK_DEADLOCK FALSE
