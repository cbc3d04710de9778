SPECIFICATION Spec
CONSTANTS
  l1 = l1
  l2 = l2
  h1 = h1
  h2 = h2
  NoHolder = NoHolder
  Lineage <- OneLineage
  Holder <- OneHolder
  ClaimOnly = FALSE
  InitialBudget <- SmallBudget
  Ttl = 1
  MaxLag = 0
  MaxTime = 2
  MaxToken = 2
  MaxNotes = 1
  MaxGeneration = 5
SYMMETRY Symmetric
CHECK_DEADLOCK FALSE
INVARIANTS
  ConfirmedEffectIsNotRetried
