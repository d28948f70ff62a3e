CONSTANTS
  Pages <- MCPages
  Others <- MCOthers
  Chunks = {1}
  Graphs <- MCGraphs
  PoolSize = 4
  RrfK = 3
  TopK = 3
  SeedK = 2
  MaxHops = 2
  Unit = 420
  Whole = 20
  Factor <- MCFactor
  Threshold <- Half
  Refuse <- TwoFifths
  Kinds = {"query", "ask", "replay", "control"}
  Failing = {"store", "graph", "llm", "postgres"}
  SelectLimit = 2
  MaxSince = 3
SPECIFICATION AskSpec
CHECK_DEADLOCK FALSE
INVARIANTS AskTypeOK FoundLeads ReachedByPath AnswerGrounded ReturnedIsTraced GapIsCurated
