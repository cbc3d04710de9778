SPECIFICATION Spec
CONSTANTS
  l1 = l1
  l2 = l2
  h1 = h1
  h2 = h2
  NoHolder = NoHolder
  Lineage <- TwoLineages
  Holder <- OneHolder
  ClaimOnly = FALSE
  InitialBudget <- SmallBudget
  Ttl = 1
  MaxLag = 1
  MaxTime = 2
  MaxToken = 2
  MaxNotes = 0
  MaxGeneration = 4
SYMMETRY Symmetric
CHECK_DEADLOCK FALSE
INVARIANTS
  FencesIdentifyAttempts
  VerdictDecides
  OneCompletion
PROPERTIES
  WorkMovesUnderOwnFence
  ImplementsFencedAttempts
