SPECIFICATION FairSpec
CONSTANTS
  Processes = {p1, p2}
  Sources = {s1}
  Kinds = {k1}
  p1 = p1
  p2 = p2
  s1 = s1
  s2 = s2
  Requested <- OneRequest
  PoolSize = 2
  Answers <- AllAnswers
  MaxTime = 1
  MaxRevision = 2
  MaxFaults = 1
  Never = Never
INVARIANT TypeOK
INVARIANT OneRunPerSource
INVARIANT CurrentIsLatest
INVARIANT DoneIsComplete
INVARIANT LateAnswersAreDropped
INVARIANT StopCutsNothing
INVARIANT NothingIsLost
PROPERTY ImplementsTables
PROPERTY EverySourceIsCollected
CHECK_DEADLOCK FALSE
