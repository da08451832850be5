SPECIFICATION Spec
CONSTANTS
  Texts <- MCTexts
  Hash <- MCHash
  TagUnit = 16
  MinSlots = 4
  MaxStrings = 4
  MaxBytes = 4
INVARIANTS TypeOK SlicesSound BelowHalfFull ChainsUnbroken
PROPERTIES HandlesStable LookupEnds ImplementsInterner
CHECK_DEADLOCK TRUE
