SPECIFICATION Spec
CONSTANTS
  MaxId = 2
  MaxPredecessors = 0
  MaxProposals = 0
  MaxFailures = 0
  Sessions = {}
  Scopes = {}
  None = None
INVARIANT AckedIsDurable
