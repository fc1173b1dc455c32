SPECIFICATION Spec
CONSTANTS
  MaxId = 3
  MaxPredecessors = 2
  MaxProposals = 1
  MaxFailures = 2
  Sessions = {s1}
  s1 = s1
  Scopes = {a, b}
  a = a
  b = b
  None = None
INVARIANT OnlyItsOwnFailureLosesAWrite
INVARIANT AckedIsAudited
INVARIANT TypeOK
INVARIANT StoredCurrentIsNewest
INVARIANT RevisionNumbersAreFree
INVARIANT PredecessorsStoredFirst
PROPERTY ImplementsLog
