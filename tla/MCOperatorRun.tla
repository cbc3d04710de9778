--------------------------- MODULE MCOperatorRun ---------------------------
EXTENDS OperatorRun
CONSTANTS l1, l2, h1, r1, r2, r3

TwoLineages == {l1, l2}
OneHolder == {h1}
RunBudget == [active |-> 2, retries |-> 1, jobs |-> 2]

TwoRuns == {r1, r2}
ThreeRuns == {r1, r2, r3}

(* r2 inspects the frontier of r1 under another lineage, and r3 repeats    *)
(* the command of r1.  All give the same holder name, so that only the     *)
(* fencing token tells their leases apart.                                 *)
Lineages == [r \in Run |-> IF r = r2 THEN l2 ELSE l1]
Holders == [r \in Run |-> h1]

Repeats == Permutations({r1, r3})

AnyFault == {"REFUSAL", "RECONCILIATION"}
Refusals == {"REFUSAL"}
=============================================================================
