-------------------------- MODULE OperatorReadings --------------------------
(***************************************************************************)
(* What the inspection runs of OperatorRun.tla read, as history: while a   *)
(* run executes and while it verifies, where the refs of its subjects are. *)
(* The history restricts no step.                                          *)
(***************************************************************************)
EXTENDS OperatorRun

VARIABLE seen  \* where the inputs of each run have been while it was reading

readingVars == <<operatorVars, seen>>

(* GitHubReadInspectionBackend.execute and verify_observed_result *)
Reading == {"EXECUTE", "VERIFY"}

(* exact: the inputs that were at their exact commit at some moment of a   *)
(* reading; away: those that were not, at some moment of the last reading. *)
Nothing == [exact |-> [p \in Reading |-> {}], away |-> {}]

(* r is reading after this step, and m are the moved inputs. *)
Noticed(r, m) ==
  LET p == run'[r].pc IN
  [exact |-> [seen[r].exact EXCEPT ![p] = @ \cup ((1 .. Inputs) \ m)],
   away |-> IF At(r, p) THEN seen[r].away \cup m ELSE m]

Watch ==
  seen' = [r \in Run |-> IF run'[r].pc \in Reading THEN Noticed(r, moved') ELSE seen[r]]

ReadingInit == OperatorInit /\ seen = [r \in Run |-> Nothing]
ReadingNext == OperatorNext /\ Watch
ReadingSpec == ReadingInit /\ [][ReadingNext]_readingVars

FairReadingSpec == ReadingSpec /\ Fairness

---------------------------------------------------------------------------
(* Properties *)

(* Two independent readings: a run reports COMPLETE only if every subject  *)
(* was at its exact commit at some moment of the execution and again at    *)
(* some moment of the verification, and SUPERSEDED only if one was         *)
(* elsewhere during the last reading it made, however the refs went and    *)
(* returned.                                                               *)
VerdictsAreObserved ==
  \A r \in Run :
    At(r, "DONE") =>
      /\ run[r].verdict = "COMPLETE" => \A p \in Reading : seen[r].exact[p] = 1 .. Inputs
      /\ run[r].verdict = "SUPERSEDED" => seen[r].away # {}

=============================================================================
