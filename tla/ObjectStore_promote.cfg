CONSTANTS
  k1 = k1
  k2 = k2
  b1 = b1
  b2 = b2
  junk = junk
  a1 = a1
  a2 = a2
  i1 = i1
  i2 = i2
  Keys = {k1, k2}
  Shared = {k2}
  Bodies = {b1, b2, junk}
  Bad = {junk}
  Agents = {a1, a2}
  Ids = {i1, i2}
  MaxSlug = 2
  MaxWrites = 2
  MaxRuns = 2
  Faults = {"stop", "delete", "file"}
SPECIFICATION Spec
CHECK_DEADLOCK FALSE
SYMMETRY Symmetric
INVARIANTS ProvenanceHonest OnePage
PROPERTIES MapPromise
