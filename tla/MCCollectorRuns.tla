---------------------------- MODULE MCCollectorRuns ----------------------------
(* Instance of CollectorRuns: a good answer, a failed collect and a source  *)
(* that is not configured.                                                  *)
EXTENDS CollectorRuns

GoodAnswer == [freshness |-> "FRESH", error |-> NoError]
FailedAnswer == [freshness |-> "ERROR", error |-> "collect_failed"]
BlockedAnswer == [freshness |-> "UNKNOWN", error |-> "BLOCKED_BY_SECRET"]

CONSTANTS p1, p2, s1, s2
OneRequest == {<<p1, s1>>}

AllAnswers == {GoodAnswer, FailedAnswer, BlockedAnswer}

=============================================================================
