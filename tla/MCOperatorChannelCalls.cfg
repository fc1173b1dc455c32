SPECIFICATION FairSpec
CONSTANTS
  Actors = {ana}
  ana = ana
  Reasons = {spike}
  spike = spike
  Requests <- Everything
  Statuses = {"2xx", "4xx", "429", "5xx"}
  failureThreshold = 2
  MaxCalls = 3
  MaxLedgerFailures = 1
  NoActor = NoActor
  NoReason = NoReason
  BadReason = BadReason
INVARIANT TypeOK
INVARIANT LedgerIsFaithful
INVARIANT PausedUnlessInDoubt
INVARIANT OpenBreakerHasCause
PROPERTY EveryCallIsAnswered
CHECK_DEADLOCK FALSE
