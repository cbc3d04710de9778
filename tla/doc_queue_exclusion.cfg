SPECIFICATION Spec
CONSTANTS
  first = first
  second = second
  ref = ref
  consumer = consumer
  before = before
  after = after
  old = old
  new = new
  inspect = inspect
  retest = retest
  runner = runner
  Unrouted = Unrouted
  Planner = {old}
  RunsUnder <- MCAnyConfig
  Subject = {first, second}
  Locus = {ref}
  LocusOf <- MCLocusOf
  Project = {consumer}
  Frontier <- MCFrontier
  SubjectOf <- MCSubjectOf
  ProjectOf <- MCProjectOf
  CollisionKeys <- MCCollisionKeys
  Endpoint = {runner}
  Inspection <- MCInspection
  EndpointUnder <- MCEndpointUnder
  Private <- MCPrivate
  Config = {before}
  TopologyOf <- MCTopologyOf
  WorkersOf <- MCWorkersOf
  PolicyUnder <- MCPolicyUnder
  ReadyUnder <- MCReadyUnder
  Outcomes = {"COMPLETE"}
  Answers = {"SUCCEEDED"}
  MaxSnapshots = 3
  MaxToken = 2
  MaxDelivery = 2
  MaxHead = 1
INVARIANTS
  LiveClaimsExclude
CHECK_DEADLOCK FALSE
