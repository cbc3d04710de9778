---------------------------- MODULE OperatorRun ----------------------------
(***************************************************************************)
(* Processes running run_durable_github_read_inspection                    *)
(* (runner/operator.py) over the durable execution store: root, admission, *)
(* reads of the exact subjects, their independent verification, and the    *)
(* verdict.  Each store call is a transaction of its own and each read a   *)
(* network call; between any two the clock moves, a subject's ref may      *)
(* move, and a reconciler may decide about the attempt.  A process that    *)
(* dies takes no further step, which OperatorSpec always allows.           *)
(*                                                                         *)
(* The work's fingerprint does not depend on the lineage, so runs of one   *)
(* frontier under several lineages contend for one lease.                  *)
(***************************************************************************)
EXTENDS DurableDispatch

CONSTANTS
  Run,        \* processes
  LineageOf,  \* the lineage_id each was given
  HolderOf,   \* the holder each was given
  Inputs,     \* how many exact subjects the work reads, in order
  Faults      \* what may go wrong: REFUSAL (an HTTP error), RECONCILIATION

ASSUME OperatorAssumption ==
  /\ LineageOf \in [Run -> Lineage]
  /\ HolderOf \in [Run -> Holder]
  /\ Inputs \in Nat \ {0}
  /\ Faults \subseteq {"REFUSAL", "RECONCILIATION"}
  /\ MaxTime \in Nat
  /\ MaxLag >= MaxTime  \* a clock value may be used any time after it was read

VARIABLES
  run,    \* the local state of each process
  moved   \* the inputs whose ref is not at the exact commit

operatorVars == <<vars, run, moved>>

---------------------------------------------------------------------------
Calls == {"INITIALIZE", "ADMIT", "START", "RECORD", "BEGIN", "FINALIZE", "NOTE", "SUSPEND"}

(* A run's step, its lease's token, the work generation it last learnt,    *)
(* the input it reads next, the backend's classification, the verdict or   *)
(* how far the result has come, and verified_at.                           *)
Fresh == [pc |-> "INITIALIZE", token |-> 0, gen |-> 0, next |-> 1, result |-> "NONE",
          verdict |-> "NONE", at |-> 0]

LeaseOf(r) == [holder |-> HolderOf[r], token |-> run[r].token]
AttemptOf(r) == <<LineageOf[r], run[r].token>>

At(r, pc) == run[r].pc = pc

Goes(r, row) == run' = [run EXCEPT ![r] = row] /\ UNCHANGED moved

(* The run after a call that returned the next work generation. *)
Advanced(r, pc) == [run[r] EXCEPT !.pc = pc, !.gen = @ + 1]

(* Mutant of Started: the generation returned by the call is dropped. *)
StartedKeepingGeneration(r) == [run[r] EXCEPT !.pc = "EXECUTE"]

Started(r) == Advanced(r, "EXECUTE")

---------------------------------------------------------------------------
(* The store calls, with the arguments the run passes *)

Initialize(r) ==
  /\ At(r, "INITIALIZE")
  /\ InitializeRoot(LineageOf[r])
  /\ Goes(r, Advanced(r, "ADMIT"))

AdmitRoot(r, clock) ==
  /\ At(r, "ADMIT")
  /\ Admit(LineageOf[r], 1, run[r].gen, HolderOf[r], clock)
  /\ Goes(r, [Advanced(r, "START") EXCEPT !.token = NextToken])

Start(r, clock) ==
  /\ At(r, "START")
  /\ CompareAndSwapStatus(LineageOf[r], run[r].gen, "RUNNING", LeaseOf(r), clock)
  /\ Goes(r, Started(r))

(* The inspection's results are never the failed OUTCOME_UNKNOWN. *)
Record(r) ==
  /\ At(r, "RECORD")
  /\ RecordResult(AttemptOf(r), "CONCLUSIVE")
  /\ Goes(r, [run[r] EXCEPT !.pc = "BEGIN"])

Begin(r, clock) ==
  /\ At(r, "BEGIN")
  /\ CompareAndSwapStatus(LineageOf[r], run[r].gen, "VERIFYING", LeaseOf(r), clock)
  /\ Goes(r, Advanced(r, "CLOCK"))

(* Mutant of Finalize: the work store's own finalization, past the journal. *)
FinalizeUnjournaled(r) ==
  /\ At(r, "FINALIZE")
  /\ FinalizeTerminalStatus(LineageOf[r], run[r].gen, run[r].verdict, LeaseOf(r), run[r].at)
  /\ Goes(r, Advanced(r, "DONE"))

Finalize(r) ==
  /\ At(r, "FINALIZE")
  /\ FinalizeTerminalVerification(AttemptOf(r), run[r].gen, LeaseOf(r), run[r].verdict, run[r].at)
  /\ Goes(r, Advanced(r, "DONE"))

(* Mutant of Note: it returns, and leaves the work VERIFYING. *)
NoteAndReturn(r) ==
  /\ At(r, "NOTE")
  /\ RecordVerification(AttemptOf(r))
  /\ Goes(r, [run[r] EXCEPT !.pc = "DONE"])

Note(r) ==
  /\ At(r, "NOTE")
  /\ RecordVerification(AttemptOf(r))
  /\ Goes(r, [run[r] EXCEPT !.pc = "SUSPEND"])

Suspend(r) ==
  /\ At(r, "SUSPEND")
  /\ CompareAndSwapStatus(LineageOf[r], run[r].gen, "OUTCOME_UNKNOWN", LeaseOf(r), run[r].at)
  /\ Goes(r, Advanced(r, "DONE"))

ClockedCall(r, clock) == AdmitRoot(r, clock) \/ Start(r, clock) \/ Begin(r, clock)
OtherCall(r) == Initialize(r) \/ Record(r) \/ Finalize(r) \/ Note(r) \/ Suspend(r)

Call(r) == OtherCall(r) \/ \E clock \in Readings : ClockedCall(r, clock)

(* The store raises instead, and the exception ends the run. *)
Refused(r) ==
  IF run[r].pc \in {"ADMIT", "START", "BEGIN"}
    THEN \E clock \in Readings : ~ENABLED ClockedCall(r, clock)
    ELSE ~ENABLED OtherCall(r)

Refuse(r) ==
  /\ run[r].pc \in Calls
  /\ Refused(r)
  /\ Goes(r, [run[r] EXCEPT !.pc = "REFUSED"])
  /\ UNCHANGED vars

---------------------------------------------------------------------------
(* The reads.  A ref is found at the exact commit or moved, or GitHub      *)
(* answers with an error; a connection that breaks raises and ends the     *)
(* process, which then takes no further step.                              *)

(* Mutant of Exact: only the first input is compared. *)
ExactAtFirst(r) == run[r].next > 1 \/ 1 \notin moved

Exact(r) == run[r].next \notin moved

Unreadable == "REFUSAL" \in Faults

(* GitHubReadInspectionBackend.execute, one read of it *)
Execute(r) ==
  /\ At(r, "EXECUTE")
  /\ \/ /\ run[r].next \notin moved
        /\ Goes(r, IF run[r].next < Inputs THEN [run[r] EXCEPT !.next = @ + 1]
                   ELSE [run[r] EXCEPT !.pc = "RECORD", !.result = "SUCCEEDED"])
     \/ /\ run[r].next \in moved
        /\ Goes(r, [run[r] EXCEPT !.pc = "RECORD", !.result = "PRECONDITION_FAILED"])
     \/ /\ Unreadable
        /\ Goes(r, [run[r] EXCEPT !.pc = "RECORD", !.result = "TRANSPORT_FAILED"])
  /\ UNCHANGED vars

Judged(r, verdict) ==
  [run[r] EXCEPT !.verdict = verdict,
                 !.pc = IF verdict = "OUTCOME_UNKNOWN" THEN "NOTE" ELSE "FINALIZE"]

(* What an unsuccessful result is judged to be, without a reading. *)
Failed(result) ==
  IF result = "PRECONDITION_FAILED" THEN "SUPERSEDED" ELSE "FAILED_DETERMINISTIC"

(* verified_at is read before the readings of verification. *)
ReadClock(r) ==
  LET judging == IF run[r].result = "SUCCEEDED"
                   THEN [run[r] EXCEPT !.pc = "VERIFY", !.next = 1]
                   ELSE Judged(r, Failed(run[r].result))
  IN
  /\ At(r, "CLOCK")
  /\ Goes(r, [judging EXCEPT !.at = now])
  /\ UNCHANGED vars

(* verify_observed_result, one read of it.  The evidence of a successful   *)
(* inspection is always valid, so no run is left VERIFYING.                *)
Verify(r) ==
  /\ At(r, "VERIFY")
  /\ \/ /\ Exact(r)
        /\ Goes(r, IF run[r].next < Inputs THEN [run[r] EXCEPT !.next = @ + 1]
                   ELSE Judged(r, "COMPLETE"))
     \/ /\ ~Exact(r)
        /\ Goes(r, Judged(r, "SUPERSEDED"))
     \/ /\ Unreadable
        /\ Goes(r, Judged(r, "OUTCOME_UNKNOWN"))
  /\ UNCHANGED vars

Step(r) == Call(r) \/ Refuse(r) \/ Execute(r) \/ ReadClock(r) \/ Verify(r)

---------------------------------------------------------------------------
(* The world *)

(* A ref leaves the exact commit, or is set back to it. *)
Move(i) ==
  /\ moved' = IF i \in moved THEN moved \ {i} ELSE moved \cup {i}
  /\ UNCHANGED <<vars, run>>

(* The store's interface is open to a reconciler who found the attempt     *)
(* among the unresolved ones.  In the repository only the source-write     *)
(* path calls it; a fault here, not a step of the protocol.                *)
Reconcile(k) ==
  /\ "RECONCILIATION" \in Faults
  /\ Reconciliation(k)
  /\ UNCHANGED <<run, moved>>

OperatorInit ==
  /\ Init
  /\ run = [r \in Run |-> Fresh]
  /\ moved = {}

OperatorNext ==
  \/ \E r \in Run : Step(r)
  \/ \E i \in 1 .. Inputs : Move(i)
  \/ \E k \in DOMAIN journal : Reconcile(k)
  \/ Tick /\ UNCHANGED <<run, moved>>

OperatorSpec == OperatorInit /\ [][OperatorNext]_operatorVars

(* A process that is alive takes its next step. *)
Fairness == \A r \in Run : WF_operatorVars(Step(r))
FairSpec == OperatorSpec /\ Fairness

---------------------------------------------------------------------------
(* Properties *)

(* run_durable_github_read_inspection uses the store as a journaled caller *)
(* does, so what DurableDispatch promises such callers holds of runs.      *)
RunsAreJournaledCallers == Spec

(* InspectionRunResult tells the truth, and no reconciler or other run     *)
(* makes it false later: the work is in the status reported, at the        *)
(* generation reported, and the run's attempt was verified to be.          *)
ReportsAreTruthful ==
  \A r \in Run :
    At(r, "DONE") =>
      /\ work[LineageOf[r]] = [status |-> run[r].verdict, gen |-> run[r].gen]
      /\ Latest(journal[AttemptOf(r)].verdicts) = run[r].verdict

(* However many lineages run the same inspection, one reports COMPLETE.    *)
OneRunCompletes ==
  \A r, s \in Run :
    /\ At(r, "DONE") /\ run[r].verdict = "COMPLETE"
    /\ At(s, "DONE") /\ run[s].verdict = "COMPLETE"
    => r = s

(* The protocol trips over nothing of its own: the store refuses a call of *)
(* an admitted run only if its lease expired, somebody was admitted after  *)
(* it, or its attempt was reconciled away.                                 *)
NoSpuriousRefusal ==
  [][\A r \in Run :
       run[r].token > 0 /\ ~At(r, "REFUSED") /\ At(r, "REFUSED")' =>
         \/ lease.expires <= now
         \/ lease.token > run[r].token
         \/ NoEffect(AttemptOf(r))]_operatorVars

(* A run that was admitted, is not interfered with and does not outlive    *)
(* its lease reports.                                                      *)
AdmittedRunReports == \A r \in Run : At(r, "START") ~> At(r, "DONE")

=============================================================================
