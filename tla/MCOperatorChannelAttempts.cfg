SPECIFICATION Spec
CONSTANTS
  Actors = {ana, bia}
  ana = ana
  bia = bia
  Reasons = {spike}
  spike = spike
  Requests <- Attempts
  Statuses = {"2xx"}
  failureThreshold = 2
  MaxCalls = 3
  MaxLedgerFailures = 0
  NoActor = NoActor
  NoReason = NoReason
  BadReason = BadReason
INVARIANT PauseAttemptRevokes
CHECK_DEADLOCK FALSE
