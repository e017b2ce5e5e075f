SPECIFICATION Spec
CONSTANTS
  Events = {e1, e2}
  Heads = {h1, h2}
  Captures = {}
  Contrary = {}
  Nobody = Nobody
  MaxPauses = 2
  MaxFaults = 0
PROPERTY HeadOnTime
