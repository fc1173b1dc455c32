SPECIFICATION FairSpec
CONSTANTS
  Inputs = {i1}
  Humans = {}
  Blockers = {}
  Nonconformities = {}
  ChangeRequests = {}
  Artifacts = {}
  Nobody = Nobody
  Agent = Agent
  NoArtifact = NoArtifact
  Orders = {w1, w2}
  Identities = {d1, d2}
  Keys = {k1, k2}
  Writers = {p1, p2}
  OfferedTypes = {"INPUT_RECEIVED"}
  MaxVersion = 2
  MaxTime = 1
  MaxDecisions = 2
  NoRow = NoRow
  NoIdentity = NoIdentity
  Free = Free
INVARIANT OneActiveIdentity
INVARIANT RetryIsDuplicate
PROPERTY EveryCallEnds
PROPERTY ImplementsLog
