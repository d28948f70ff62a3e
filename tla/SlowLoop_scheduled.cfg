CONSTANTS
  p1 = p1
  p2 = p2
  p3 = p3
  r1 = r1
  Pages = {p1, p2, p3}
  First = {p1, p2}
  Steps = {"edges", "candidates"}
  Runners = {r1}
  SweepEvery = 3
  MaxWrites = 2
  MaxFaults = 1
SPECIFICATION ScheduledSpec
INVARIANTS LoopTypeOK NothingMissed
PROPERTIES EventuallyLooked
