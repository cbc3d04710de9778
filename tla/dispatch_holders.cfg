SPECIFICATION Spec
CONSTANTS
  l1 = l1
  l2 = l2
  h1 = h1
  h2 = h2
  NoHolder = NoHolder
  Lineage <- OneLineage
  Holder <- TwoHolders
  ClaimOnly = TRUE
  InitialBudget <- SmallBudget
  Ttl = 1
  MaxLag = 1
  MaxTime = 2
  MaxToken = 3
  MaxNotes = 1
  MaxGeneration = 6
SYMMETRY Symmetric
CHECK_DEADLOCK FALSE
INVARIANTS
  TypeOK
  HeldLeaseHasAttempt
  OpenWorkIsVisible
  TerminalWorkIsEvidenced
  NoEffectIsFinal
  RetriesArePaid
  QuotaIsConserved
PROPERTIES
  LiveFenceIsNotStolen
  DeadFenceIsInert
  HistoryIsAppendOnly
