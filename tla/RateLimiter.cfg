SPECIFICATION Spec
CONSTANTS
  Handlers = {h1, h2}
  Keys = {ip1}
  Durs = {2, 4}
  Limits <- MCLimits
  Second = 4
  MaxTime = 5
  MaxTakes = 4
SYMMETRY Symmetry
INVARIANTS
  MemoryLimits
  
CHECK_DEADLOCK FALSE
