SPECIFICATION Spec
CONSTANTS
  Inputs = {i1, i2}
  Humans = {h1}
  Blockers = {b1, b2}
  Nonconformities = {n1, n2}
  ChangeRequests = {c1}
  Artifacts = {a1, a2}
  Nobody = Nobody
  Agent = Agent
  NoArtifact = NoArtifact
  MaxTime = 3
  LeadTime = 1
INVARIANTS
  TypeOK
  GatesNeverSkipped
  RecordsFollowStage
PROPERTIES
  DueDatePinned
SYMMETRY Symmetry
CHECK_DEADLOCK FALSE
