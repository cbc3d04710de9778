SPECIFICATION Spec
CONSTANTS
  root = root
  left = left
  right = right
  leaf = leaf
  read = read
  write = write
  Work <- Units
  Root = root
  Capability <- Powers
  Requires <- Needs
  RootCapabilities <- Powers
  Targets <- Policies
  MaxDepth = 2
  RootQuota <- Given
  Requests <- Asked
  MaxProposals = 2
CHECK_DEADLOCK FALSE
INVARIANTS
  TypeOK
  TreeQuotaIsConserved
  AncestryIsPath
  AuthorityNarrows
PROPERTIES
  TerminalWorkGetsNoChild
