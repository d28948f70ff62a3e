CONSTANTS
  n1 = n1
  n2 = n2
  p1 = p1
  p2 = p2
  Names = {n1, n2}
  Keys <- MCKeys
  MaxPerKey = 2
  Procs = {p1, p2}
  Mode = "semi-auto"
  RunsAlone = TRUE
  Faults = {"abort", "repeat"}
SPECIFICATION Spec
INVARIANTS OneOpenPerKey ApprovedIsLinked NoStandstill
PROPERTIES PairOnce
SYMMETRY Symmetric
