SPECIFICATION Spec
CONSTANTS
  Events = {e1}
  Heads = {}
  Captures = {}
  Contrary = {e1}
  Nobody = Nobody
  MaxPauses = 0
  MaxFaults = 2
INVARIANT DebrisBootsLive
