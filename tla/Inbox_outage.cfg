CONSTANTS
  fa = fa
  fb = fb
  v1 = v1
  v2 = v2
  junk = junk
  i1 = i1
  i2 = i2
  i3 = i3
  p1 = p1
  p2 = p2
  Files = {fa, fb}
  Contents = {v1, v2, junk}
  Bad = {junk}
  Ids = {i1, i2, i3}
  Procs = {p1}
  MaxDrops = 5
  Alone = TRUE
  Faults = {"crash", "db"}
SPECIFICATION Spec
CHECK_DEADLOCK FALSE
SYMMETRY Symmetric
INVARIANTS CorpusSound
PROPERTIES ProcessedIsKnown
