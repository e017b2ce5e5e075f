SPECIFICATION Spec
CONSTANTS
  MaxRecords = 4
  MaxFaults = 2
  Journalled = FALSE
INVARIANT PublishBeforeRewrite
