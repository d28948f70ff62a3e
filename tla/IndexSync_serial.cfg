CONSTANTS
  s1 = s1
  c1 = c1
  c2 = c2
  d1 = d1
  d2 = d2
  Sources = {s1}
  Chunks = {c1, c2}
  SourceOf <- MCSourceOf
  Drainers = {d1}
  MaxVersion = 2
  MaxTags = 1
  Exclusive = TRUE
  Faults = {"crash", "store"}
SPECIFICATION Spec
INVARIANTS NoSilentLoss
PROPERTIES ServesCurrent ReindexRestores DrainSettles
