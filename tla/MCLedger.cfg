SPECIFICATION Spec
CONSTANTS
  MaxRecords = 5
  MaxFaults = 3
  Journalled = TRUE
INVARIANTS
  TypeOK
  AckedDurable
  AlwaysReopens
  NoFalseFreeze
  TornStaysOut
PROPERTIES
  TornPreserved
  SealedForGood
