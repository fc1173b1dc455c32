SPECIFICATION FairSpec
CONSTANTS
  Tabs = {t1}
  Candidates = {c}
  Actions = {"create", "adjust", "reconcile", "APPROVE", "HOLD"}
  MaxWrites = 2
  MaxDrifts = 1
  MaxMoves = 1
  MaxReads = 0
  Nobody = Nobody
INVARIANTS
  TypeOK
  MarksAreTemporary
  EffectsAreSettled
  ReportedDecisionsAreReal
  UrlIsShown
PROPERTY EveryFormIsReleased
CHECK_DEADLOCK FALSE
