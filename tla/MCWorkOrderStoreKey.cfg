SPECIFICATION Spec
CONSTANTS
  Inputs = {i1}
  Humans = {h1}
  Blockers = {}
  Nonconformities = {}
  ChangeRequests = {}
  Artifacts = {}
  Nobody = Nobody
  Agent = Agent
  NoArtifact = NoArtifact
  Orders = {w1, w2}
  Identities = {d1, d2}
  Keys = {k1}
  Writers = {p1, p2}
  OfferedTypes = {}
  MaxVersion = 1
  MaxTime = 1
  MaxDecisions = 2
  NoRow = NoRow
  NoIdentity = NoIdentity
  Free = Free
SYMMETRY Symmetry
INVARIANT KeyConflictsAreHeld
