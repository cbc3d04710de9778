SPECIFICATION OperatorSpec
CONSTANTS
  l1 = l1
  l2 = l2
  h1 = h1
  r1 = r1
  r2 = r2
  r3 = r3
  NoHolder = NoHolder
  Lineage <- TwoLineages
  Holder <- OneHolder
  Run <- ThreeRuns
  LineageOf <- Lineages
  HolderOf <- Holders
  Inputs = 1
  Faults <- AnyFault
  ClaimOnly = FALSE
  InitialBudget <- RunBudget
  Ttl = 1
  MaxLag = 1
  MaxTime = 1
  MaxToken = 3
  MaxNotes = 1
  MaxGeneration = 9
CHECK_DEADLOCK FALSE
SYMMETRY Repeats
INVARIANTS
  ReportsAreTruthful
  OneRunCompletes
PROPERTIES
  NoSpuriousRefusal
  RunsAreJournaledCallers
