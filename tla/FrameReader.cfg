SPECIFICATION Spec
CONSTANTS
  MaxLength = 13
  MaxEntries = 3
  MaxFrames = 2
INVARIANTS
  PaddingExact
  EntriesWithinBudget
PROPERTIES
  ExtensionsIgnored
CHECK_DEADLOCK FALSE
