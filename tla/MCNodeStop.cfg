SPECIFICATION FairSpec
CONSTANTS
  Callers = {"mempool", "query"}
  Workers = 2
  Ctrlers = 2
  Conns = 2
  MaxAsked = 3
  MaxCommits = 2
  None = None
INVARIANTS StopKeepsBlocks
PROPERTIES BlocksProceed 
CHECK_DEADLOCK FALSE
