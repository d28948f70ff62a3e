CONSTANTS
  inbox = inbox
  serve = serve
  x1 = x1
  x2 = x2
  p1 = p1
  p2 = p2
  Timers = {inbox}
  Services = {serve}
  Settings = {x1, x2}
  Operators = {p1, p2}
  MaxRuns = 5
  Faults = {"refuse", "stop"}
SPECIFICATION Spec
CHECK_DEADLOCK FALSE
SYMMETRY Symmetric
INVARIANTS NoOrphans
PROPERTIES InstallTakes
