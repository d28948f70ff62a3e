CONSTANTS
  s1 = s1
  c1 = c1
  p1 = p1
  p2 = p2
  Sources = {s1}
  Concepts = {c1}
  Procs = {p1, p2}
  Apart = {{"promote"}, {"promote", "write"}, {"promote", "delete"},
           {"delete"}, {"delete", "write"}, {"delete", "backup"},
           {"restore"}, {"restore", "write"}, {"restore", "promote"},
           {"restore", "delete"}, {"restore", "backup"}}
  MaxRevs = 4
  Faults = {"stop"}
SPECIFICATION Spec
CHECK_DEADLOCK FALSE
SYMMETRY Symmetric
INVARIANTS FileCovers ArchiveCovers
PROPERTIES StatusMoves RestoreReturns GoesBack
