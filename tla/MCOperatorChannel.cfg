SPECIFICATION Spec
CONSTANTS
  Actors = {ana, bia}
  ana = ana
  bia = bia
  Reasons = {spike, solved}
  spike = spike
  solved = solved
  Requests <- Legal
  Statuses = {"2xx", "4xx"}
  failureThreshold = 2
  MaxCalls = 3
  MaxLedgerFailures = 1
  NoActor = NoActor
  NoReason = NoReason
  BadReason = BadReason
SYMMETRY Symmetry
INVARIANT NoStaleRelease
PROPERTY ImplementsKillSwitch
CHECK_DEADLOCK FALSE
