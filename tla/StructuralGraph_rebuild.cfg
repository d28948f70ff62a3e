CONSTANTS
  s1 = s1
  k1 = k1
  k2 = k2
  c1 = c1
  d1 = d1
  r1 = r1
  Sources = {s1}
  Chunks = {k1, k2}
  Concepts = {c1}
  SourceOf <- MCSourceOf
  Drainers = {d1}
  Rebuilder = r1
  MaxWrites = 4
  Faults = {"store"}
SPECIFICATION Spec
CHECK_DEADLOCK FALSE
SYMMETRY Symmetric
INVARIANTS SettledIsShown
PROPERTIES RebuildExact
