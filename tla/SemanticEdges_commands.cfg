CONSTANTS
  p1 = p1
  p2 = p2
  Nodes <- MCNodes
  Sources <- MCSources
  Procs = {p1, p2}
  Regimes <- MCRegimes
SPECIFICATION Spec
SYMMETRY Symmetric
INVARIANTS StoresAgree
PROPERTIES CuratorKept RebuildFaithful
