SPECIFICATION Spec
CONSTANTS
  Spelling <- MCSpelling
  RustKeywords <- MCRustKeywords
  NotRaw <- MCNotRaw
  Reserved <- MCReserved
  MaxComponent = 2
  Crates <- MCCrates
INVARIANTS ComplainsExactlyWhenMalformed CallReadAsWritten LabelsReadBack
  AccessorsMatchTables EnumValuesResolve KindsNumberSlots
CHECK_DEADLOCK FALSE
