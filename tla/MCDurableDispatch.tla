------------------------- MODULE MCDurableDispatch -------------------------
EXTENDS DurableDispatch
CONSTANTS l1, l2, h1, h2

TwoLineages == {l1, l2}
OneLineage == {l1}
TwoHolders == {h1, h2}
OneHolder == {h1}
SmallBudget == [active |-> 3, retries |-> 1, jobs |-> 3]

Symmetric == Permutations(Holder) \cup Permutations(Lineage)
=============================================================================
