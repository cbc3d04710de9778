------------------------ MODULE MCExecutionPromotion ------------------------
EXTENDS ExecutionPromotion
CONSTANTS l1, h1, s1, s2, c1, c2

OneLineage == {l1}
OneHolder == {h1}
OneSession == {s1}
TwoSessions == {s1, s2}
TwoCandidates == {c1, c2}
OneClaim == [active |-> 1, retries |-> 0, jobs |-> 1]
EarlyAndLate == {2, 4}

Symmetric == Permutations(Session) \cup Permutations(Candidate)
=============================================================================
