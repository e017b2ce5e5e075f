SPECIFICATION FairSpec
CONSTANTS
  Events = {e1, e2}
  Heads = {h1}
  Captures = {}
  Contrary = {e1, e2}
  Nobody = Nobody
  MaxPauses = 1
  MaxFaults = 1
PROPERTIES
  Answered
  Alerted
