SPECIFICATION Spec
CONSTANTS
  Inputs = {i1}
  Humans = {h1}
  Blockers = {}
  Nonconformities = {}
  ChangeRequests = {}
  Artifacts = {}
  Nobody = Nobody
  Agent = Agent
  NoArtifact = NoArtifact
  Orders = {w1}
  Identities = {d1}
  Keys = {k1, k2, k3}
  Writers = {p1, p2}
  OfferedTypes = {"OWNER_ASSIGNED", "WORK_ORDER_CANCELLED"}
  MaxVersion = 3
  MaxTime = 2
  MaxDecisions = 3
  NoRow = NoRow
  NoIdentity = NoIdentity
  Free = Free
SYMMETRY Symmetry
INVARIANT TypeOK
INVARIANT ProjectionIsReplay
INVARIANT AnswersAreDurable
