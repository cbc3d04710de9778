-------------------------- MODULE FencedAttempts --------------------------
(***************************************************************************)
(* What the durable store promises to its callers, without leases, clocks, *)
(* budgets or journals: the attempts at one piece of work form a log, each *)
(* granted to one lineage, only the lineage of the last attempt may decide *)
(* its work, a decision is final, and a COMPLETE decision closes the log   *)
(* for every lineage.                                                      *)
(***************************************************************************)
EXTENDS Naturals, Sequences

CONSTANT Lineage

VARIABLES
  granted,   \* the lineage of attempt 1, 2, ...
  decided    \* the terminal status of each lineage's work, or OPEN

Decision == {"COMPLETE", "FAILED_DETERMINISTIC", "SUPERSEDED"}

Closed == \E l \in Lineage : decided[l] = "COMPLETE"

Init ==
  /\ granted = <<>>
  /\ decided = [l \in Lineage |-> "OPEN"]

Grant(l) ==
  /\ ~Closed
  /\ decided[l] = "OPEN"
  /\ granted' = Append(granted, l)
  /\ UNCHANGED decided

Decide(l, d) ==
  /\ ~Closed
  /\ decided[l] = "OPEN"
  /\ granted # <<>>
  /\ granted[Len(granted)] = l
  /\ decided' = [decided EXCEPT ![l] = d]
  /\ UNCHANGED granted

Next == \E l \in Lineage : Grant(l) \/ \E d \in Decision : Decide(l, d)

Spec == Init /\ [][Next]_<<granted, decided>>
=============================================================================
