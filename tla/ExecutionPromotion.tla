------------------------- MODULE ExecutionPromotion -------------------------
(***************************************************************************)
(* A claimed work unit becomes a write to a GitHub branch: the promotion   *)
(* gate (runner/execution_promotion.py), the exact-head write it allows    *)
(* (runner/promoted_github.py, put_file_exact_head of github_backend.py)   *)
(* and the commands that settle a write whose outcome is unknown           *)
(* (runner/promoted_github_runtime.py), over the store of DurableDispatch. *)
(*                                                                         *)
(* A session is one run of a command: promote, execute, reconcile or       *)
(* finalize.  It reads the store and the branch, waits, and writes, each   *)
(* in a step of its own; any number of sessions may work on one attempt,   *)
(* and a session may end between any two steps, killed or by an exception. *)
(* Its requests to GitHub outlive it.                                      *)
(*                                                                         *)
(* Every request names one branch and the head the claim was made at, BASE.*)
(* The replay of a committed promotion or finalization only reads; it is a *)
(* stuttering step.                                                        *)
(***************************************************************************)
EXTENDS DurableDispatch

CONSTANTS
  Session,     \* runs of the commands
  Candidate,   \* commits that executions create, one for each
  Deadline,    \* when the first of the three signed documents goes stale
  MaxResets    \* bound: how often somebody puts the branch back to BASE

ASSUME PromotionAssumption ==
  /\ ClaimOnly
  /\ \A l, m \in Lineage : l = m  \* the claim's fingerprint binds its plan and subject
  /\ {"BASE", "FOREIGN"} \cap Candidate = {}
  /\ Deadline \subseteq Nat
  /\ MaxResets \in Nat

VARIABLES
  promotion,  \* execution_promotions with their requests, by attempt
  recorded,   \* result_json of the attempts that have one
  session,    \* what each run of a command carries from step to step
  head,       \* the commit the branch points at
  update,     \* updateRefs requests, by the commit they publish
  resets      \* how often the branch was put back

gate == <<promotion, recorded, session>>
github == <<head, update, resets>>
promotionVars == <<vars, gate, github>>

Idle == [step |-> "IDLE"]

Working(s, step) == session[s].step = step

(* s goes on with record r: its next step, and what it carries there. *)
Continue(s, r) == session' = [session EXCEPT ![s] = r]

(* s goes on to a step, and carries nothing but its attempt. *)
Advance(s, step) == Continue(s, [step |-> step, attempt |-> session[s].attempt])

Finish(s) == Continue(s, Idle)

Published == {c \in DOMAIN update : update[c].state = "APPLIED"}

PromotionInit ==
  /\ Init
  /\ promotion = [k \in {} |-> Idle]
  /\ recorded = [k \in {} |-> Idle]
  /\ session = [s \in Session |-> Idle]
  /\ head = "BASE"
  /\ update = [c \in {} |-> Idle]
  /\ resets = 0

---------------------------------------------------------------------------
(* CLAIMED -> RUNNING *)

(* The signed review, execution grant and effect grant bind the claim and, *)
(* but for the review, its fence; until is the first of their valid_until. *)
Fresh(until, at) == at < until

(* _load_claim_snapshot *)
ClaimHeld(k, at) ==
  /\ work[k[1]] = [status |-> "CLAIMED", gen |-> journal[k].workGen]
  /\ ActiveLease(FenceOf(k), at)
  /\ journal[k].result = "NONE"
  /\ journal[k].verdicts = <<>>
  /\ journal[k].outcomes = <<>>

(* promote_claimed_to_running, up to the reading of the live head *)
CheckClaim(s, k, until, at) ==
  /\ Working(s, "IDLE")
  /\ ClaimHeld(k, at)
  /\ Fresh(until, at)
  /\ head = "BASE"
  /\ Continue(s, [step |-> "PROMOTING", attempt |-> k, until |-> until])
  /\ UNCHANGED <<vars, promotion, recorded, github>>

(* Mutant of CommitPromotion: only the status is compared in the update,   *)
(* the claim is not loaded again inside the transaction.                   *)
CommitPromotionBlind(s, at) ==
  /\ Working(s, "PROMOTING")
  /\ LET k == session[s].attempt IN
     /\ work[k[1]].status = "CLAIMED"
     /\ work[k[1]].gen < MaxGeneration
     /\ Fresh(session[s].until, at)
     /\ promotion' = Insert(promotion, k, [until |-> session[s].until,
                                           gen |-> work[k[1]].gen + 1])
     /\ work' = Moved(k[1], "RUNNING")
  /\ Finish(s)
  /\ UNCHANGED <<now, lease, budget, journal, recorded, github>>

(* The transaction of promote_claimed_to_running; its clock was read       *)
(* before BEGIN IMMEDIATE, the head before that.                           *)
CommitPromotion(s, at) ==
  /\ Working(s, "PROMOTING")
  /\ LET k == session[s].attempt IN
     /\ ClaimHeld(k, at)
     /\ work[k[1]].gen < MaxGeneration
     /\ Fresh(session[s].until, at)
     /\ promotion' = Insert(promotion, k, [until |-> session[s].until,
                                           gen |-> work[k[1]].gen + 1])
     /\ work' = Moved(k[1], "RUNNING")
  /\ Finish(s)
  /\ UNCHANGED <<now, lease, budget, journal, recorded, github>>

---------------------------------------------------------------------------
(* The backend call *)

(* _load_promotion *)
Promoted(k) ==
  /\ k \in DOMAIN promotion
  /\ work[k[1]] = [status |-> "RUNNING", gen |-> promotion[k].gen]
  /\ Current(FenceOf(k))
  /\ journal[k].result = "NONE"

Executable(k, at) ==
  /\ Promoted(k)
  /\ at < lease.expires
  /\ Fresh(promotion[k].until, at)

(* execute_promoted, up to the reading of the live head *)
CheckPromotion(s, k, at) ==
  /\ Working(s, "IDLE")
  /\ Executable(k, at)
  /\ head = "BASE"
  /\ Continue(s, [step |-> "CHECKED", attempt |-> k])
  /\ UNCHANGED <<vars, promotion, recorded, github>>

(* execute_promoted, the second reading of clock and store: nothing is     *)
(* written before the backend is called.                                   *)
CallBackend(s, at) ==
  /\ Working(s, "CHECKED")
  /\ Executable(session[s].attempt, at)
  /\ Advance(s, "CALLED")
  /\ UNCHANGED <<vars, promotion, recorded, github>>

(* PromotedGitHubSourceWriteBackend: what it hands back to execute_promoted *)
Return(s, classification, outputs) ==
  /\ Continue(s, [step |-> "RETURNED", attempt |-> session[s].attempt,
                  result |-> [classification |-> classification, outputs |-> outputs]])
  /\ UNCHANGED <<vars, promotion, recorded>>

(* put_file_exact_head finds the branch moved. *)
RefuseHead(s) ==
  /\ Working(s, "CALLED")
  /\ head # "BASE"
  /\ Return(s, "PRECONDITION_FAILED", {})
  /\ UNCHANGED github

(* It fails to read the tree, or to create the blob, the tree or the       *)
(* commit; or the file at BASE is not the one the request replaces.        *)
FailBeforeUpdate(s) ==
  /\ Working(s, "CALLED")
  /\ \E c \in {"TRANSPORT_FAILED", "PRECONDITION_FAILED"} : Return(s, c, {})
  /\ UNCHANGED github

(* It created commit c on top of BASE and sends updateRefs. *)
SendUpdate(s, c) ==
  /\ Working(s, "CALLED")
  /\ head = "BASE"
  /\ c \notin DOMAIN update
  /\ update' = Insert(update, c, [attempt |-> session[s].attempt, state |-> "SENT"])
  /\ Continue(s, [step |-> "SENT", attempt |-> session[s].attempt, commit |-> c])
  /\ UNCHANGED <<vars, promotion, recorded, head, resets>>

(* _update_ref_exact: an answer that accepts or rejects the update *)
ReadReply(s) ==
  /\ Working(s, "SENT")
  /\ \/ /\ update[session[s].commit].state = "APPLIED"
        /\ Continue(s, [step |-> "ACCEPTED", attempt |-> session[s].attempt,
                        commit |-> session[s].commit])
        /\ UNCHANGED <<vars, promotion, recorded>>
     \/ /\ update[session[s].commit].state = "REJECTED"
        /\ Return(s, "PRECONDITION_FAILED", {})
  /\ UNCHANGED github

(* An error status, an unclassified error, or a readback that fails with   *)
(* one, whatever became of the request.                                    *)
LoseReply(s) ==
  /\ session[s].step \in {"SENT", "ACCEPTED"}
  /\ Return(s, "OUTCOME_UNKNOWN", {session[s].commit})
  /\ UNCHANGED github

(* A body that is no JSON: a ValueError, which _update_ref_exact lets pass *)
(* and the backend takes for a transport failure.                          *)
GarbleReply(s) ==
  /\ Working(s, "SENT")
  /\ Return(s, "TRANSPORT_FAILED", {})
  /\ UNCHANGED github

ReadBack(s) ==
  /\ Working(s, "ACCEPTED")
  /\ Return(s, IF head = session[s].commit THEN "SUCCEEDED" ELSE "OUTCOME_UNKNOWN",
            {session[s].commit})
  /\ UNCHANGED github

StoredResult(r) ==
  IF r.classification = "OUTCOME_UNKNOWN" THEN "OUTCOME_UNKNOWN" ELSE "CONCLUSIVE"

(* execute_promoted records what the backend returned; the second result   *)
(* of an attempt is an error, and the session ends with it.                *)
RecordReturned(s) ==
  /\ Working(s, "RETURNED")
  /\ LET k == session[s].attempt r == session[s].result IN
     /\ RecordResult(k, StoredResult(r))
     /\ recorded' = Insert(recorded, k, r)
  /\ Finish(s)
  /\ UNCHANGED <<promotion, github>>

---------------------------------------------------------------------------
(* Settling a write whose outcome is unknown *)

UnknownWrite(k) ==
  /\ k \in DOMAIN recorded
  /\ recorded[k].classification = "OUTCOME_UNKNOWN"

CommitOf(k) == CHOOSE c \in recorded[k].outputs : TRUE

(* Mutants of Classify: the state before the write is taken for no effect; *)
(* any later state is taken for the write.                                 *)
ClassifyAbsentAsNoEffect(k) ==
  IF head = CommitOf(k) THEN "EFFECT_CONFIRMED"
  ELSE IF head = "BASE" THEN "NO_EFFECT_CONFIRMED" ELSE "INDETERMINATE"

ClassifyMovedAsEffect(k) ==
  IF head # "BASE" THEN "EFFECT_CONFIRMED" ELSE "INDETERMINATE"

(* _classify_unknown_source_write: a file read at the candidate commit is  *)
(* the candidate's, and nothing proves that a write had no effect.         *)
Classify(k) ==
  IF head = CommitOf(k) THEN "EFFECT_CONFIRMED" ELSE "INDETERMINATE"

(* reconcile_github_source_write_outcome_unknown, the snapshot.  The head  *)
(* is read again after the file; a ref that moved in between is what an    *)
(* earlier or a later snapshot sees as INDETERMINATE.                      *)
ObserveWrite(s, k) ==
  /\ Working(s, "IDLE")
  /\ UnknownWrite(k)
  /\ Continue(s, [step |-> "RECONCILING", attempt |-> k, outcome |-> Classify(k)])
  /\ UNCHANGED <<vars, promotion, recorded, github>>

(* reconcile_github_source_write_outcome_unknown, the journal entry *)
ConcludeReconciliation(s) ==
  /\ Working(s, "RECONCILING")
  /\ LET k == session[s].attempt IN
     ReconcileAdmitted(k, promotion[k].gen, FenceOf(k), session[s].outcome, TRUE)
  /\ Finish(s)
  /\ UNCHANGED <<promotion, recorded, github>>

(* finalize_github_source_write_effect_confirmed, the first readback *)
CheckEffect(s, k, at) ==
  /\ Working(s, "IDLE")
  /\ UnknownWrite(k)
  /\ Latest(journal[k].outcomes) = "EFFECT_CONFIRMED"
  /\ work[k[1]].status # "COMPLETE"
  /\ ActiveLease(FenceOf(k), at)
  /\ head = CommitOf(k)
  /\ Continue(s, [step |-> "FINALIZING", attempt |-> k])
  /\ UNCHANGED <<vars, promotion, recorded, github>>

(* ... and RUNNING -> VERIFYING; work that an interrupted session left in  *)
(* VERIFYING is taken up there.                                            *)
EnterVerifying(s, at) ==
  /\ Working(s, "FINALIZING")
  /\ LET k == session[s].attempt IN
     \/ BeginVerification(k, promotion[k].gen, FenceOf(k), at)
     \/ /\ work[k[1]] = [status |-> "VERIFYING", gen |-> promotion[k].gen + 1]
        /\ ActiveLease(FenceOf(k), at)
        /\ UNCHANGED vars
  /\ Advance(s, "VERIFYING")
  /\ UNCHANGED <<promotion, recorded, github>>

(* ... the second readback *)
VerifyEffect(s) ==
  /\ Working(s, "VERIFYING")
  /\ head = CommitOf(session[s].attempt)
  /\ Advance(s, "VERIFIED")
  /\ UNCHANGED <<vars, promotion, recorded, github>>

(* ... and VERIFYING -> COMPLETE *)
CompleteEffect(s, at) ==
  /\ Working(s, "VERIFIED")
  /\ LET k == session[s].attempt IN
     FinalizeTerminalVerification(k, promotion[k].gen + 1, FenceOf(k), "COMPLETE", at)
  /\ Finish(s)
  /\ UNCHANGED <<promotion, recorded, github>>

---------------------------------------------------------------------------
(* The process is killed, or an exception ends the command: a check that   *)
(* fails, or a timeout, which urlopen raises as an OSError that neither    *)
(* the transport nor the backend catches.                                  *)
EndSession(s) ==
  /\ ~Working(s, "IDLE")
  /\ Finish(s)
  /\ UNCHANGED <<vars, promotion, recorded, github>>

SessionStep(s) ==
  \/ EndSession(s)
  \/ \E at \in Readings :
       \/ CommitPromotion(s, at) \/ CallBackend(s, at)
       \/ EnterVerifying(s, at) \/ CompleteEffect(s, at)
       \/ \E k \in DOMAIN journal :
            \/ CheckPromotion(s, k, at) \/ CheckEffect(s, k, at)
            \/ \E until \in Deadline : CheckClaim(s, k, until, at)
  \/ RefuseHead(s) \/ FailBeforeUpdate(s) \/ (\E c \in Candidate : SendUpdate(s, c))
  \/ ReadReply(s) \/ LoseReply(s) \/ GarbleReply(s) \/ ReadBack(s)
  \/ RecordReturned(s)
  \/ \E k \in DOMAIN recorded : ObserveWrite(s, k)
  \/ ConcludeReconciliation(s)
  \/ VerifyEffect(s)

(* Mutant of ApplyUpdate: the update is forced. *)
ApplyUpdateForced(c) ==
  /\ update[c].state = "SENT"
  /\ head' = c
  /\ update' = [update EXCEPT ![c].state = "APPLIED"]
  /\ UNCHANGED <<vars, gate, resets>>

(* GitHub compares beforeOid when the request reaches it, if it ever does. *)
ApplyUpdate(c) ==
  /\ update[c].state = "SENT"
  /\ IF head = "BASE"
       THEN head' = c /\ update' = [update EXCEPT ![c].state = "APPLIED"]
       ELSE UNCHANGED head /\ update' = [update EXCEPT ![c].state = "REJECTED"]
  /\ UNCHANGED <<vars, gate, resets>>

(* Somebody else pushes to the branch, or puts it back to BASE. *)
ForeignPush ==
  /\ head # "FOREIGN"
  /\ head' = "FOREIGN"
  /\ UNCHANGED <<vars, gate, update, resets>>

ForeignReset ==
  /\ head # "BASE"
  /\ resets < MaxResets
  /\ head' = "BASE"
  /\ resets' = resets + 1
  /\ UNCHANGED <<vars, gate, update>>

GitHubStep ==
  \/ \E c \in DOMAIN update : ApplyUpdate(c)
  \/ ForeignPush
  \/ ForeignReset

(* Time, and the bridge that claims the work and fences it anew. *)
ClaimStep ==
  /\ Tick \/ \E l \in Lineage : InitializeRoot(l) \/ Admission(l)
  /\ UNCHANGED <<gate, github>>

PromotionNext ==
  \/ ClaimStep
  \/ \E s \in Session : SessionStep(s)
  \/ GitHubStep

PromotionSpec == PromotionInit /\ [][PromotionNext]_promotionVars

---------------------------------------------------------------------------
(* Properties *)

(* The promoted fence is the last: claimed work may be fenced anew while a *)
(* promotion is under way, but an attempt that was promoted is never       *)
(* followed by another, so no write of an old fence meets one of a new.    *)
PromotedFenceIsLast ==
  \A k \in DOMAIN promotion : Newest(k) /\ lease.token = k[2]

(* execute_promoted leaves no mark before it calls the backend, so one     *)
(* promotion may be executed twice; still at most one of the writes lands, *)
(* and another only if somebody else put the branch back to BASE.          *)
NoWriteIsRepeated == Cardinality(Published) <= 1 + resets

(* A write that the journal reports as done was published: a recorded      *)
(* success, a confirmed effect, and work that is being verified or is      *)
(* COMPLETE, whichever session recorded, reconciled or finalized it.       *)
ReportedWritesLanded ==
  \A k \in DOMAIN recorded :
    \/ recorded[k].classification = "SUCCEEDED"
    \/ Latest(journal[k].outcomes) = "EFFECT_CONFIRMED"
    \/ work[k[1]].status \in {"VERIFYING", "COMPLETE"}
    => recorded[k].outputs # {} /\ recorded[k].outputs \subseteq Published

(* A write that was sent is never written off, neither by a crash before   *)
(* its result is recorded, nor by a reconciler while the request is still  *)
(* in flight, nor by fencing the claim anew: recovery finds its attempt    *)
(* unresolved until the work is COMPLETE.                                  *)
SentWritesAreVisible ==
  \A c \in DOMAIN update :
    LET k == update[c].attempt IN
    ~NoEffect(k) /\ (k \in Unresolved \/ Completed(k[1]))

(* docs/PROMOTED_GITHUB_SOURCE_WRITE_V1.md: if the update may have reached *)
(* GitHub but its result cannot be proven, the outcome is journaled and    *)
(* the execution path refuses a blind second backend execution for the     *)
(* same attempt.                                                           *)
SecondExecutionIsRefused ==
  [][\A c \in DOMAIN update' \ DOMAIN update :
       \A d \in DOMAIN update :
         update[d].attempt = update'[c].attempt => update[d].state = "REJECTED"]_promotionVars
=============================================================================
