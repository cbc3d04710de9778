SPECIFICATION FairReadingSpec
CONSTANTS
  l1 = l1
  l2 = l2
  h1 = h1
  r1 = r1
  r2 = r2
  r3 = r3
  NoHolder = NoHolder
  Lineage <- TwoLineages
  Holder <- OneHolder
  Run <- TwoRuns
  LineageOf <- Lineages
  HolderOf <- Holders
  Inputs = 2
  Faults <- Refusals
  ClaimOnly = FALSE
  InitialBudget <- RunBudget
  Ttl = 2
  MaxLag = 1
  MaxTime = 1
  MaxToken = 3
  MaxNotes = 1
  MaxGeneration = 9
CHECK_DEADLOCK FALSE
INVARIANTS
  VerdictsAreObserved
PROPERTIES
  AdmittedRunReports
