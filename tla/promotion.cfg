SPECIFICATION PromotionSpec
CONSTANTS
  l1 = l1
  h1 = h1
  s1 = s1
  s2 = s2
  c1 = c1
  c2 = c2
  NoHolder = NoHolder
  Lineage <- OneLineage
  Holder <- OneHolder
  Session <- TwoSessions
  Candidate <- TwoCandidates
  Deadline <- EarlyAndLate
  ClaimOnly = TRUE
  InitialBudget <- OneClaim
  Ttl = 2
  MaxLag = 1
  MaxTime = 4
  MaxToken = 3
  MaxNotes = 2
  MaxGeneration = 5
  MaxResets = 1
SYMMETRY Symmetric
CHECK_DEADLOCK FALSE
INVARIANTS
  PromotedFenceIsLast
  NoWriteIsRepeated
  ReportedWritesLanded
  SentWritesAreVisible
