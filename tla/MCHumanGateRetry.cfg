SPECIFICATION Spec
CONSTANTS
  Tabs = {t1}
  Candidates = {c}
  Actions = {"create"}
  MaxWrites = 3
  MaxDrifts = 0
  MaxMoves = 1
  MaxReads = 0
  Nobody = Nobody
INVARIANT UncertainIntentAppliesOnce
CHECK_DEADLOCK FALSE
