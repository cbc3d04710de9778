SPECIFICATION PromotionSpec
CONSTANTS
  l1 = l1
  h1 = h1
  s1 = s1
  s2 = s2
  c1 = c1
  c2 = c2
  NoHolder = NoHolder
  Lineage <- OneLineage
  Holder <- OneHolder
  Session <- OneSession
  Candidate <- TwoCandidates
  Deadline <- EarlyAndLate
  ClaimOnly = TRUE
  InitialBudget <- OneClaim
  Ttl = 2
  MaxLag = 1
  MaxTime = 3
  MaxToken = 2
  MaxNotes = 1
  MaxGeneration = 5
  MaxResets = 1
SYMMETRY Symmetric
CHECK_DEADLOCK FALSE
PROPERTIES
  SecondExecutionIsRefused
