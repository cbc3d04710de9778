SPECIFICATION FairQueueSpec
CONSTANTS
  first = first
  second = second
  ref = ref
  consumer = consumer
  before = before
  after = after
  old = old
  new = new
  inspect = inspect
  retest = retest
  runner = runner
  Unrouted = Unrouted
  Planner = {old}
  RunsUnder <- MCAnyConfig
  Consumer = {k1, k2}
  ReferenceEndpoint = runner
  Worker = {w1}
  Subject = {first, second}
  Locus = {ref}
  LocusOf <- MCLocusOf
  Project = {consumer}
  Frontier <- MCLaterFrontier
  SubjectOf <- MCSubjectOf
  ProjectOf <- MCProjectOf
  CollisionKeys <- MCCollisionKeys
  Endpoint = {runner}
  Inspection <- MCInspection
  EndpointUnder <- MCEndpointUnder
  Private <- MCPublic
  Config = {before}
  TopologyOf <- MCTopologyOf
  WorkersOf <- MCWorkersOf
  PolicyUnder <- MCPolicyUnder
  ReadyUnder <- MCReadyUnder
  Outcomes = {"COMPLETE"}
  Answers = {"SUCCEEDED"}
  MaxSnapshots = 3
  MaxToken = 6
  MaxDelivery = 4
  MaxHead = 1
  MaxFaults = 1
  MaxReconciliations = 1
INVARIANTS
  QueueFollowsOperator
CHECK_DEADLOCK FALSE
PROPERTIES
  AbandonedClaimIsResumed
  RoutedWorkIsAnswered
