SPECIFICATION Spec
CONSTANTS
  Events = {e1, e2}
  Heads = {h1}
  Captures = {c1}
  Contrary = {e1, e2}
  Nobody = Nobody
  MaxPauses = 2
  MaxFaults = 2
INVARIANTS
  TypeOK
  Together
  AnswersTrue
  RecordReplays
  CaptureAtBoundary
