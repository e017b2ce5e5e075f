SPECIFICATION FairSpec
CONSTANTS
  MaxRecords = 4
  MaxFaults = 2
  Journalled = TRUE
PROPERTIES
  Settles
  IsDurableLog
