SPECIFICATION Spec
CONSTANTS
  first = first
  second = second
  ref = ref
  consumer = consumer
  before = before
  after = after
  old = old
  new = new
  inspect = inspect
  retest = retest
  runner = runner
  Unrouted = Unrouted
  Planner = {old, new}
  RunsUnder <- MCRunsUnder
  Subject = {first, second}
  Locus = {ref}
  LocusOf <- MCLocusOf
  Project = {consumer}
  Frontier <- MCLaterFrontier
  SubjectOf <- MCSubjectOf
  ProjectOf <- MCProjectOf
  CollisionKeys <- MCCollisionKeys
  Endpoint = {runner}
  Inspection <- MCInspection
  EndpointUnder <- MCEndpointUnder
  Private <- MCPrivate
  Config = {before, after}
  TopologyOf <- MCTopologyOf
  WorkersOf <- MCWorkersOf
  PolicyUnder <- MCPolicyUnder
  ReadyUnder <- MCReadyUnder
  Outcomes = {"OUTCOME_UNKNOWN"}
  Answers = {"SUCCEEDED", "FAILED_RETRYABLE"}
  MaxSnapshots = 3
  MaxToken = 2
  MaxDelivery = 2
  MaxHead = 2
INVARIANTS
  SameSubjectIsExclusive
  OutboxMirrorsQueue
  DeliveriesFollowPolicy
  ReceiptsDecide
  NoChangeIsMissed
PROPERTIES
  DecisionsStand
CHECK_DEADLOCK FALSE
