---------------------- MODULE ExecutionPromotionProofs ----------------------
(***************************************************************************)
(* What promotion promises, for any number of sessions, candidates and     *)
(* bounds.  The commands are journaled callers of the store, so all that   *)
(* is proved of it holds of them; and the invariant Settled, about what    *)
(* sessions carry and what the tables and the branch say of each other,    *)
(* implies the four safety properties of ExecutionPromotion.               *)
(***************************************************************************)
EXTENDS ExecutionPromotion, DurableDispatchSafety, FiniteSetTheorems

---------------------------------------------------------------------------
(* The inductive invariant *)

EffectConfirmed(k) == Latest(journal[k].outcomes) = "EFFECT_CONFIRMED"

Landed(k) == recorded[k].outputs # {} /\ recorded[k].outputs \subseteq Published

(* A result that is unknown names a request, one that succeeded a commit.  *)
Named(result) ==
  /\ result.classification = "OUTCOME_UNKNOWN" => \E c \in DOMAIN update : result.outputs = {c}
  /\ result.classification = "SUCCEEDED" =>
       result.outputs # {} /\ result.outputs \subseteq Published

(* What a session carries was read from the tables or the branch, where it *)
(* still is.                                                               *)
Carried(s) ==
  LET r == session[s] IN
  /\ r.step # "IDLE" => r.attempt \in DOMAIN journal
  /\ r.step \notin {"IDLE", "PROMOTING"} => r.attempt \in DOMAIN promotion
  /\ r.step \in {"SENT", "ACCEPTED"} => r.commit \in DOMAIN update
  /\ r.step = "ACCEPTED" => r.commit \in Published
  /\ r.step = "RETURNED" => Named(r.result)
  /\ r.step = "RECONCILING" =>
       /\ r.attempt \in DOMAIN recorded
       /\ r.outcome \in {"INDETERMINATE", "EFFECT_CONFIRMED"}
       /\ r.outcome = "EFFECT_CONFIRMED" => Landed(r.attempt)
  /\ r.step \in {"FINALIZING", "VERIFYING", "VERIFIED"} =>
       r.attempt \in DOMAIN recorded /\ EffectConfirmed(r.attempt)

Sessions ==
  /\ session = [s \in Session |-> session[s]]
  /\ \A s \in Session : Carried(s)

Requests ==
  /\ DOMAIN update \subseteq Candidate
  /\ update \in [DOMAIN update ->
                   [attempt : DOMAIN promotion, state : {"SENT", "APPLIED", "REJECTED"}]]
  /\ head \in {"BASE", "FOREIGN"} \cup Published

Results ==
  /\ DOMAIN recorded \subseteq DOMAIN promotion
  /\ \A k \in DOMAIN recorded :
       /\ journal[k].result # "NONE"
       /\ Named(recorded[k])
       /\ EffectConfirmed(k) => Landed(k)

Promotions ==
  /\ DOMAIN promotion \subseteq DOMAIN journal
  /\ \A k \in DOMAIN promotion :
       /\ lease.token = k[2]
       /\ work[k[1]].status \in {"RUNNING", "VERIFYING", "COMPLETE"}
       /\ work[k[1]].status # "RUNNING" => EffectConfirmed(k)
       /\ EffectConfirmed(k) => k \in DOMAIN recorded
       /\ ~NoEffect(k)
       /\ journal[k].verdicts = <<>> \/ Completed(k[1])

Settled == Inv /\ Sessions /\ Requests /\ Results /\ Promotions

---------------------------------------------------------------------------
(* The commands are journaled callers *)

(* The claim's generation is one its owner may have read. *)
LEMMA GenerationRead ==
  ASSUME TypeOK, NEW l \in Lineage
  PROVE  work[l].gen \in Generations(l)
  BY DEF TypeOK, WorkRow, Generations

LEMMA StepIsJournaled ==
  ASSUME Settled, [PromotionNext]_promotionVars
  PROVE  [Next]_vars
<1> USE DEF Settled, Inv
<1>1. CASE UNCHANGED promotionVars
  BY <1>1 DEF promotionVars, vars
<1>2. CASE ClaimStep
  BY <1>2 DEF ClaimStep, Next
<1>3. CASE GitHubStep
  BY <1>3 DEF GitHubStep, ApplyUpdate, ForeignPush, ForeignReset
<1>4. ASSUME NEW s \in Session, NEW at \in Readings, CommitPromotion(s, at)
      PROVE  Next
  <2> DEFINE k == session[s].attempt
  <2>1. k \in DOMAIN journal
    BY <1>4 DEF CommitPromotion, Working, Sessions, Carried
  <2>2. k[1] \in Lineage
    BY <2>1, FenceType
  <2>3. CompareAndSwapStatus(k[1], work[k[1]].gen, "RUNNING", FenceOf(k), at)
    BY <1>4 DEF CommitPromotion, ClaimHeld, CompareAndSwapStatus, AllowedTransitions, Status,
                LeaseBound, Terminal
  <2>4. Lifecycle(k)
    BY <2>2, <2>3, GenerationRead DEF Lifecycle, LeaseBound
  <2> QED BY <2>1, <2>4 DEF Next
<1>5. ASSUME NEW s \in Session, RecordReturned(s)
      PROVE  Next
  <2>1. session[s].attempt \in DOMAIN journal
    BY <1>5 DEF RecordReturned, Working, Sessions, Carried
  <2>2. StoredResult(session[s].result) \in Result
    BY DEF StoredResult, Result
  <2> QED BY <1>5, <2>1, <2>2 DEF RecordReturned, Observation, Next
<1>6. ASSUME NEW s \in Session, ConcludeReconciliation(s)
      PROVE  Next
  <2> DEFINE k == session[s].attempt
  <2>1. k \in DOMAIN journal /\ session[s].outcome \in Outcome
    BY <1>6 DEF ConcludeReconciliation, Working, Sessions, Carried, Outcome
  <2>2. k[1] \in Lineage
    BY <2>1, FenceType
  <2>3. ReconcileAdmitted(k, promotion[k].gen, FenceOf(k), session[s].outcome, TRUE)
    BY <1>6 DEF ConcludeReconciliation
  <2>4. promotion[k].gen \in Generations(k[1])
    BY <2>2, <2>3, GenerationRead DEF ReconcileAdmitted
  <2>5. Reconciliation(k)
    BY <2>1, <2>3, <2>4 DEF Reconciliation
  <2> QED BY <2>1, <2>5 DEF Next
<1>7. ASSUME NEW s \in Session, NEW at \in Readings, EnterVerifying(s, at)
      PROVE  [Next]_vars
  <2> DEFINE k == session[s].attempt
  <2>1. k \in DOMAIN journal
    BY <1>7 DEF EnterVerifying, Working, Sessions, Carried
  <2>2. k[1] \in Lineage
    BY <2>1, FenceType
  <2>3. CASE BeginVerification(k, promotion[k].gen, FenceOf(k), at)
    <3>1. promotion[k].gen \in Generations(k[1])
      BY <2>2, <2>3, GenerationRead DEF BeginVerification
    <3>2. Lifecycle(k)
      BY <2>3, <3>1 DEF Lifecycle
    <3> QED BY <2>1, <3>2 DEF Next
  <2> QED BY <1>7, <2>3 DEF EnterVerifying
<1>8. ASSUME NEW s \in Session, NEW at \in Readings, CompleteEffect(s, at)
      PROVE  Next
  <2> DEFINE k == session[s].attempt
  <2>1. k \in DOMAIN journal
    BY <1>8 DEF CompleteEffect, Working, Sessions, Carried
  <2>2. k[1] \in Lineage
    BY <2>1, FenceType
  <2>3. FinalizeTerminalVerification(k, promotion[k].gen + 1, FenceOf(k), "COMPLETE", at)
    BY <1>8 DEF CompleteEffect
  <2>4. promotion[k].gen + 1 \in Generations(k[1])
    BY <2>2, <2>3, GenerationRead DEF FinalizeTerminalVerification
  <2>5. Lifecycle(k)
    BY <2>3, <2>4 DEF Lifecycle, Terminal
  <2> QED BY <2>1, <2>5 DEF Next
<1>9. ASSUME NEW s \in Session, SessionStep(s)
      PROVE  [Next]_vars
  BY <1>4, <1>5, <1>6, <1>7, <1>8, <1>9
     DEF SessionStep, EndSession, CallBackend, CheckPromotion, CheckEffect, CheckClaim,
         RefuseHead, FailBeforeUpdate, SendUpdate, ReadReply, LoseReply, GarbleReply, ReadBack,
         Return, ObserveWrite, VerifyEffect
<1> QED BY <1>1, <1>2, <1>3, <1>9 DEF PromotionNext

---------------------------------------------------------------------------
(* What sessions carry outlives the steps of others *)

(* Nothing that a session relies on is taken back. *)
Grows ==
  /\ DOMAIN journal \subseteq DOMAIN journal'
  /\ DOMAIN promotion \subseteq DOMAIN promotion'
  /\ DOMAIN recorded \subseteq DOMAIN recorded'
  /\ DOMAIN update \subseteq DOMAIN update'
  /\ Published \subseteq Published'
  /\ \A k \in DOMAIN recorded : recorded'[k] = recorded[k]
  /\ \A k \in DOMAIN recorded : EffectConfirmed(k) => EffectConfirmed(k)'

LEMMA CarriedStays ==
  ASSUME NEW s \in Session, Carried(s), Grows, session'[s] = session[s]
  PROVE  Carried(s)'
  BY DEF Carried, Grows, Named, Landed

LEMMA SessionMoves ==
  ASSUME Sessions, NEW s \in Session, NEW r, Continue(s, r)
  PROVE  /\ session' = [t \in Session |-> session'[t]]
         /\ session'[s] = r
         /\ \A t \in Session : t # s => session'[t] = session[t]
  BY DEF Sessions, Continue

LEMMA SessionsMove ==
  ASSUME Sessions, Grows, NEW s \in Session, NEW r, Continue(s, r), Carried(s)'
  PROVE  Sessions'
<1>1. /\ session' = [t \in Session |-> session'[t]]
      /\ \A t \in Session : t # s => session'[t] = session[t]
  BY SessionMoves
<1>2. ASSUME NEW t \in Session, t # s
      PROVE  Carried(t)'
  BY <1>1, <1>2, CarriedStays DEF Sessions
<1> QED BY <1>1, <1>2 DEF Sessions

LEMMA SessionsStay ==
  ASSUME Sessions, Grows, session' = session
  PROVE  Sessions'
<1>1. ASSUME NEW t \in Session
      PROVE  Carried(t)'
  BY CarriedStays DEF Sessions
<1> QED BY <1>1 DEF Sessions

(* An idle session carries nothing. *)
LEMMA FinishedCarries ==
  ASSUME Sessions, NEW s \in Session, Finish(s)
  PROVE  Carried(s)'
<1>1. session'[s] = Idle
  BY SessionMoves DEF Finish
<1> QED BY <1>1 DEF Carried, Idle

---------------------------------------------------------------------------
(* Steps that only read *)

LEMMA ReadingKeeps ==
  ASSUME Requests, Results, Promotions, UNCHANGED <<vars, promotion, recorded, head, update>>
  PROVE  Grows /\ Requests' /\ Results' /\ Promotions'
<1>1. Published' = Published
  BY DEF Published
<1>2. UNCHANGED <<lease, work, journal>>
  BY DEF vars
<1>3. Grows
  BY <1>1, <1>2 DEF Grows, EffectConfirmed
<1>4. Requests' /\ Results' /\ Promotions'
  BY <1>1, <1>2 DEF Requests, Results, Promotions, Named, Landed, EffectConfirmed, NoEffect,
                    Completed
<1> QED BY <1>3, <1>4

(* The commit an unknown result names, and what it means to find it.       *)
LEMMA FoundMeansLanded ==
  ASSUME Requests, Results, NEW k \in DOMAIN recorded, UnknownWrite(k), head = CommitOf(k)
  PROVE  Landed(k)
<1>1. PICK c \in DOMAIN update : recorded[k].outputs = {c}
  BY DEF Results, Named, UnknownWrite
<1>2. CommitOf(k) = c
  BY <1>1 DEF CommitOf
<1>3. c \in Candidate /\ "BASE" \notin Candidate /\ "FOREIGN" \notin Candidate
  BY PromotionAssumption DEF Requests
<1>4. c \in Published
  BY <1>2, <1>3 DEF Requests
<1> QED BY <1>1, <1>4 DEF Landed

LEMMA ReadingStep ==
  ASSUME Settled, NEW s \in Session, NEW r, Continue(s, r),
         UNCHANGED <<vars, promotion, recorded, head, update>>, Carried(s)'
  PROVE  Sessions' /\ Requests' /\ Results' /\ Promotions'
  BY ReadingKeeps, SessionsMove DEF Settled

Kept == Sessions' /\ Requests' /\ Results' /\ Promotions'

(* A session that reads the tables or the branch, or ends.                 *)
LEMMA CheckingSteps ==
  ASSUME Settled, NEW s \in Session,
         \/ EndSession(s) \/ VerifyEffect(s)
         \/ \E at \in Readings :
              \/ CallBackend(s, at)
              \/ \E k \in DOMAIN journal :
                   \/ CheckPromotion(s, k, at) \/ CheckEffect(s, k, at)
                   \/ \E until \in Deadline : CheckClaim(s, k, until, at)
  PROVE  Kept /\ UNCHANGED github
<1> USE DEF Settled, Kept
<1>1. /\ UNCHANGED <<vars, promotion, recorded, head, update>> /\ UNCHANGED journal
      /\ UNCHANGED github
  BY DEF EndSession, CallBackend, CheckClaim, CheckPromotion, CheckEffect, VerifyEffect, github,
         vars
<1>2. Carried(s)
  BY DEF Sessions
<1>3. CASE EndSession(s)
  BY <1>1, <1>3, FinishedCarries, ReadingStep DEF EndSession, Finish
<1>4. ASSUME NEW at \in Readings, CallBackend(s, at)
      PROVE  Kept
  <2> DEFINE r == [step |-> "CALLED", attempt |-> session[s].attempt]
  <2>1. Continue(s, r)
    BY <1>4 DEF CallBackend, Advance
  <2>2. r.attempt \in DOMAIN promotion /\ r.attempt \in DOMAIN journal
    BY <1>2, <1>4 DEF CallBackend, Working, Carried
  <2>3. session'[s] = r
    BY <2>1, SessionMoves
  <2>4. Carried(s)'
    BY <1>1, <2>2, <2>3 DEF Carried
  <2> QED BY <1>1, <2>1, <2>4, ReadingStep
<1>5. ASSUME NEW at \in Readings, NEW k \in DOMAIN journal, NEW until \in Deadline,
             CheckClaim(s, k, until, at)
      PROVE  Kept
  <2> DEFINE r == [step |-> "PROMOTING", attempt |-> k, until |-> until]
  <2>1. Continue(s, r)
    BY <1>5 DEF CheckClaim
  <2>2. session'[s] = r
    BY <2>1, SessionMoves
  <2>3. Carried(s)'
    BY <1>1, <2>2 DEF Carried
  <2> QED BY <1>1, <2>1, <2>3, ReadingStep
<1>6. ASSUME NEW at \in Readings, NEW k \in DOMAIN journal, CheckPromotion(s, k, at)
      PROVE  Kept
  <2> DEFINE r == [step |-> "CHECKED", attempt |-> k]
  <2>1. Continue(s, r) /\ k \in DOMAIN promotion
    BY <1>6 DEF CheckPromotion, Executable, Promoted
  <2>2. session'[s] = r
    BY <2>1, SessionMoves
  <2>3. Carried(s)'
    BY <1>1, <2>1, <2>2 DEF Carried
  <2> QED BY <1>1, <2>1, <2>3, ReadingStep
<1>7. ASSUME NEW at \in Readings, NEW k \in DOMAIN journal, CheckEffect(s, k, at)
      PROVE  Kept
  <2> DEFINE r == [step |-> "FINALIZING", attempt |-> k]
  <2>1. Continue(s, r) /\ k \in DOMAIN recorded /\ EffectConfirmed(k)
    BY <1>7 DEF CheckEffect, UnknownWrite, EffectConfirmed
  <2>2. session'[s] = r
    BY <2>1, SessionMoves
  <2>3. Carried(s)'
    BY <1>1, <2>1, <2>2 DEF Carried, EffectConfirmed, Results
  <2> QED BY <1>1, <2>1, <2>3, ReadingStep
<1>8. CASE VerifyEffect(s)
  <2> DEFINE r == [step |-> "VERIFIED", attempt |-> session[s].attempt]
  <2>1. Continue(s, r)
    BY <1>8 DEF VerifyEffect, Advance
  <2>2. /\ r.attempt \in DOMAIN recorded /\ EffectConfirmed(r.attempt)
        /\ r.attempt \in DOMAIN promotion /\ r.attempt \in DOMAIN journal
    BY <1>2, <1>8 DEF VerifyEffect, Working, Carried
  <2>3. session'[s] = r
    BY <2>1, SessionMoves
  <2>4. Carried(s)'
    BY <1>1, <2>2, <2>3 DEF Carried, EffectConfirmed
  <2> QED BY <1>1, <2>1, <2>4, ReadingStep
<1> QED BY <1>1, <1>3, <1>4, <1>5, <1>6, <1>7, <1>8

(* What the backend hands back names a request or a commit if it says so.  *)
LEMMA ReturnKeeps ==
  ASSUME Settled, NEW s \in Session, NEW classification, NEW outputs,
         Return(s, classification, outputs), UNCHANGED github,
         session[s].step \in {"CALLED", "SENT", "ACCEPTED"},
         Named([classification |-> classification, outputs |-> outputs])
  PROVE  Kept
<1> DEFINE result == [classification |-> classification, outputs |-> outputs]
           r == [step |-> "RETURNED", attempt |-> session[s].attempt, result |-> result]
<1>1. Continue(s, r) /\ UNCHANGED <<vars, promotion, recorded, head, update>>
  BY DEF Return, github
<1>2. r.attempt \in DOMAIN promotion /\ r.attempt \in DOMAIN journal
  BY DEF Settled, Sessions, Carried
<1>3. session'[s] = r
  BY <1>1, SessionMoves DEF Settled
<1>4. Published' = Published /\ update' = update /\ DOMAIN journal' = DOMAIN journal
  BY <1>1 DEF Published, vars
<1>5. Named(result)'
  BY <1>4 DEF Named
<1> HIDE DEF result
<1>6. Carried(s)'
  BY <1>1, <1>2, <1>3, <1>4, <1>5 DEF Carried
<1> QED BY <1>1, <1>6, ReadingStep DEF Kept

(* A session that hears from GitHub, or stops listening.                   *)
LEMMA BackendSteps ==
  ASSUME Settled, NEW s \in Session,
         \/ RefuseHead(s) \/ FailBeforeUpdate(s) \/ ReadReply(s) \/ LoseReply(s)
         \/ GarbleReply(s) \/ ReadBack(s)
  PROVE  Kept
<1>1. Carried(s)
  BY DEF Settled, Sessions
<1>2. CASE RefuseHead(s)
  <2>1. Return(s, "PRECONDITION_FAILED", {}) /\ UNCHANGED github /\ session[s].step = "CALLED"
    BY <1>2 DEF RefuseHead, Working
  <2>2. Named([classification |-> "PRECONDITION_FAILED", outputs |-> {}])
    BY DEF Named
  <2> QED BY <2>1, <2>2, ReturnKeeps
<1>3. CASE FailBeforeUpdate(s)
  <2>1. PICK c \in {"TRANSPORT_FAILED", "PRECONDITION_FAILED"} : Return(s, c, {})
    BY <1>3 DEF FailBeforeUpdate
  <2>2. Named([classification |-> c, outputs |-> {}])
    BY DEF Named
  <2>3. UNCHANGED github /\ session[s].step = "CALLED"
    BY <1>3 DEF FailBeforeUpdate, Working
  <2> QED BY <2>1, <2>2, <2>3, ReturnKeeps
<1>4. CASE ReadReply(s)
  <2>1. UNCHANGED github /\ session[s].step = "SENT"
    BY <1>4 DEF ReadReply, Working
  <2>2. CASE Return(s, "PRECONDITION_FAILED", {})
    <3>1. Named([classification |-> "PRECONDITION_FAILED", outputs |-> {}])
      BY DEF Named
    <3> QED BY <2>1, <2>2, <3>1, ReturnKeeps
  <2>3. CASE ~Return(s, "PRECONDITION_FAILED", {})
    <3> DEFINE r == [step |-> "ACCEPTED", attempt |-> session[s].attempt,
                     commit |-> session[s].commit]
    <3>1. Continue(s, r) /\ UNCHANGED <<vars, promotion, recorded, head, update>>
      BY <1>4, <2>3 DEF ReadReply, github
    <3>2. /\ r.attempt \in DOMAIN promotion /\ r.attempt \in DOMAIN journal
          /\ r.commit \in DOMAIN update /\ r.commit \in Published
      BY <1>1, <1>4, <2>1, <2>3 DEF ReadReply, Carried, Published
    <3>3. session'[s] = r
      BY <3>1, SessionMoves DEF Settled
    <3>4. Published' = Published /\ DOMAIN journal' = DOMAIN journal
      BY <3>1 DEF Published, vars
    <3>5. Carried(s)'
      BY <3>1, <3>2, <3>3, <3>4 DEF Carried
    <3> QED BY <3>1, <3>5, ReadingStep DEF Kept
  <2> QED BY <2>2, <2>3
<1>5. CASE LoseReply(s)
  <2> DEFINE result == [classification |-> "OUTCOME_UNKNOWN", outputs |-> {session[s].commit}]
  <2>1. /\ Return(s, "OUTCOME_UNKNOWN", {session[s].commit}) /\ UNCHANGED github
        /\ session[s].step \in {"SENT", "ACCEPTED"}
    BY <1>5 DEF LoseReply
  <2>2. session[s].commit \in DOMAIN update
    BY <1>1, <2>1 DEF Carried
  <2>3. Named(result)
    BY <2>2 DEF Named
  <2> QED BY <2>1, <2>3, ReturnKeeps
<1>6. CASE GarbleReply(s)
  <2>1. Return(s, "TRANSPORT_FAILED", {}) /\ UNCHANGED github /\ session[s].step = "SENT"
    BY <1>6 DEF GarbleReply, Working
  <2>2. Named([classification |-> "TRANSPORT_FAILED", outputs |-> {}])
    BY DEF Named
  <2> QED BY <2>1, <2>2, ReturnKeeps
<1>7. CASE ReadBack(s)
  <2> DEFINE class == IF head = session[s].commit THEN "SUCCEEDED" ELSE "OUTCOME_UNKNOWN"
             result == [classification |-> class, outputs |-> {session[s].commit}]
  <2>1. /\ Return(s, class, {session[s].commit}) /\ UNCHANGED github
        /\ session[s].step = "ACCEPTED"
    BY <1>7 DEF ReadBack, Working
  <2>2. session[s].commit \in DOMAIN update /\ session[s].commit \in Published
    BY <1>1, <2>1 DEF Carried
  <2>3. Named(result)
    BY <2>2 DEF Named
  <2> HIDE DEF class
  <2> QED BY <2>1, <2>3, ReturnKeeps
<1> QED BY <1>2, <1>3, <1>4, <1>5, <1>6, <1>7

(* A reconciler that confirms an effect has found the commit on the branch. *)
LEMMA ObserveKeeps ==
  ASSUME Settled, NEW s \in Session, NEW k \in DOMAIN recorded, ObserveWrite(s, k)
  PROVE  Kept
<1> DEFINE r == [step |-> "RECONCILING", attempt |-> k, outcome |-> Classify(k)]
<1>1. Continue(s, r) /\ UNCHANGED <<vars, promotion, recorded, head, update>> /\ UnknownWrite(k)
  BY DEF ObserveWrite, github
<1>2. /\ Classify(k) \in {"INDETERMINATE", "EFFECT_CONFIRMED"}
      /\ Classify(k) = "EFFECT_CONFIRMED" => Landed(k)
  BY <1>1, FoundMeansLanded DEF Classify, Settled
<1>3. k \in DOMAIN promotion /\ k \in DOMAIN journal
  BY DEF Settled, Results, Promotions
<1>4. session'[s] = r
  BY <1>1, SessionMoves DEF Settled
<1>5. Published' = Published /\ DOMAIN journal' = DOMAIN journal
  BY <1>1 DEF Published, vars
<1>6. Carried(s)'
  <2> DEFINE o == Classify(k)
  <2>1. session'[s] = [step |-> "RECONCILING", attempt |-> k, outcome |-> o]
    BY <1>4
  <2>2. o \in {"INDETERMINATE", "EFFECT_CONFIRMED"} /\ (o = "EFFECT_CONFIRMED" => Landed(k)')
    BY <1>1, <1>2, <1>5 DEF Landed
  <2> HIDE DEF o
  <2>3. /\ session'[s].step = "RECONCILING" /\ session'[s].attempt = k
        /\ session'[s].outcome = o
    BY <2>1
  <2> QED BY <1>1, <1>3, <1>5, <2>2, <2>3 DEF Carried, Landed
<1> QED BY <1>1, <1>6, ReadingStep DEF Kept
---------------------------------------------------------------------------
(* Steps that write *)

(* A request that was sent is one more that may reach the branch.          *)
LEMMA SendKeeps ==
  ASSUME Settled, NEW s \in Session, NEW c \in Candidate, SendUpdate(s, c)
  PROVE  Kept /\ Published' = Published
<1>1. PICK k : k = session[s].attempt
  OBVIOUS
<1>2. PICK e : e = [attempt |-> k, state |-> "SENT"]
  OBVIOUS
<1>3. PICK r : r = [step |-> "SENT", attempt |-> k, commit |-> c]
  OBVIOUS
<1>4. /\ update' = Insert(update, c, e) /\ c \notin DOMAIN update
      /\ Continue(s, r) /\ UNCHANGED <<vars, promotion, recorded, head>>
      /\ session[s].step = "CALLED"
  BY <1>1, <1>2, <1>3 DEF SendUpdate, Working
<1>5. k \in DOMAIN promotion /\ k \in DOMAIN journal
  BY <1>1, <1>4 DEF Settled, Sessions, Carried
<1>6. UNCHANGED <<lease, work, journal>>
  BY <1>4 DEF vars
<1>7. session'[s] = r
  BY <1>4, SessionMoves DEF Settled
<1>8. /\ DOMAIN update' = DOMAIN update \cup {c} /\ update'[c] = e
      /\ \A d \in DOMAIN update : update'[d] = update[d]
      /\ update' = [d \in DOMAIN update' |-> update'[d]]
  BY <1>4 DEF Insert
<1>9. Published' = Published
  BY <1>2, <1>4, <1>8 DEF Published
<1>10. Grows
  BY <1>4, <1>6, <1>8, <1>9 DEF Grows, EffectConfirmed
<1>11. Carried(s)'
  BY <1>3, <1>4, <1>5, <1>6, <1>7, <1>8 DEF Carried
<1>12. Sessions'
  BY <1>4, <1>10, <1>11, SessionsMove DEF Settled
<1>13. Requests'
  <2> DEFINE A == [attempt : DOMAIN promotion, state : {"SENT", "APPLIED", "REJECTED"}]
  <2>1. update \in [DOMAIN update -> A] /\ DOMAIN update \subseteq Candidate
    BY DEF Settled, Requests
  <2>2. e \in A
    BY <1>2, <1>5
  <2>3. update' \in [DOMAIN update' -> A]
    <3> HIDE DEF A
    <3> QED BY <1>8, <2>1, <2>2
  <2> QED BY <1>4, <1>8, <1>9, <2>1, <2>3 DEF Settled, Requests
<1>14. Results'
  BY <1>4, <1>6, <1>8, <1>9 DEF Settled, Results, Named, Landed, EffectConfirmed
<1>15. Promotions'
  BY <1>4, <1>6 DEF Settled, Promotions, EffectConfirmed, NoEffect, Completed
<1> QED BY <1>9, <1>12, <1>13, <1>14, <1>15 DEF Kept

(* A result is recorded once, and before any effect of it is confirmed.    *)
LEMMA RecordKeeps ==
  ASSUME Settled, NEW s \in Session, RecordReturned(s)
  PROVE  Kept
<1>1. PICK k : k = session[s].attempt
  OBVIOUS
<1>2. PICK r : r = session[s].result
  OBVIOUS
<1>3. /\ RecordResult(k, StoredResult(r)) /\ recorded' = Insert(recorded, k, r)
      /\ Continue(s, Idle) /\ UNCHANGED <<promotion, head, update>>
      /\ session[s].step = "RETURNED"
  BY <1>1, <1>2 DEF RecordReturned, Working, Finish, github
<1>4. k \in DOMAIN promotion /\ k \in DOMAIN journal /\ Named(r)
  BY <1>1, <1>2, <1>3 DEF Settled, Sessions, Carried
<1>5. PICK stored \in Result : stored = StoredResult(r)
  BY DEF StoredResult, Result
<1>6. Carried(s)'
  BY <1>3, FinishedCarries DEF Settled, Finish
<1>7. /\ journal[k].result = "NONE" /\ UNCHANGED <<lease, work>>
      /\ journal' = Recorded(k, stored)
  BY <1>3, <1>5 DEF RecordResult
<1>8. /\ DOMAIN journal' = DOMAIN journal
      /\ journal'[k].result = stored
      /\ \A j \in DOMAIN journal :
           /\ journal'[j].verdicts = journal[j].verdicts
           /\ journal'[j].outcomes = journal[j].outcomes
           /\ j # k => journal'[j].result = journal[j].result
  BY <1>4, <1>7, JournalWrites DEF Settled, Inv
<1>9. k \notin DOMAIN recorded
  BY <1>7 DEF Settled, Results
<1>10. /\ DOMAIN recorded' = DOMAIN recorded \cup {k} /\ recorded'[k] = r
       /\ \A j \in DOMAIN recorded : recorded'[j] = recorded[j]
  BY <1>3, <1>9 DEF Insert
<1>11. Published' = Published
  BY <1>3 DEF Published
<1>12. Grows
  BY <1>3, <1>8, <1>10, <1>11 DEF Settled, Grows, EffectConfirmed, Results, Promotions
<1>13. Sessions'
  BY <1>3, <1>6, <1>12, SessionsMove DEF Settled
<1>14. Requests'
  BY <1>3, <1>11 DEF Settled, Requests
<1>15. Promotions'
  BY <1>3, <1>7, <1>8, <1>10 DEF Settled, Promotions, EffectConfirmed, NoEffect, Completed
<1>16. Results'
  <2>1. DOMAIN recorded' \subseteq DOMAIN promotion'
    BY <1>3, <1>4, <1>10 DEF Settled, Results
  <2>2. journal'[k].result # "NONE" /\ Named(recorded[k])'
    BY <1>3, <1>4, <1>5, <1>8, <1>10, <1>11 DEF Named, Result
  <2>3. ~EffectConfirmed(k)'
    BY <1>4, <1>8, <1>9 DEF Settled, Promotions, EffectConfirmed
  <2>4. ASSUME NEW j \in DOMAIN recorded, j # k
        PROVE  /\ journal'[j].result # "NONE" /\ Named(recorded[j])'
               /\ EffectConfirmed(j)' => Landed(j)'
    <3>1. j \in DOMAIN journal
      BY DEF Settled, Results, Promotions
    <3>2. recorded'[j] = recorded[j] /\ update' = update
      BY <1>3, <1>10
    <3> QED BY <1>8, <1>11, <2>4, <3>1, <3>2
            DEF Settled, Results, Named, Landed, EffectConfirmed
  <2> QED BY <1>10, <2>1, <2>2, <2>3, <2>4 DEF Results
<1> QED BY <1>13, <1>14, <1>15, <1>16 DEF Kept

(* Promotions share the one lease, so there is at most one.                *)
LEMMA OnePromotion ==
  ASSUME Settled, NEW j \in DOMAIN promotion, NEW k \in DOMAIN promotion
  PROVE  j = k
<1>1. j \in DOMAIN journal /\ k \in DOMAIN journal /\ j[2] = k[2]
  BY DEF Settled, Promotions
<1> QED BY <1>1 DEF Settled, Inv, FencesIdentifyAttempts

(* A confirmed effect is that of a commit found on the branch.             *)
LEMMA ConcludeKeeps ==
  ASSUME Settled, NEW s \in Session, ConcludeReconciliation(s)
  PROVE  Kept
<1>1. PICK k : k = session[s].attempt
  OBVIOUS
<1>2. PICK o : o = session[s].outcome
  OBVIOUS
<1>3. /\ ReconcileAdmitted(k, promotion[k].gen, FenceOf(k), o, TRUE)
      /\ Continue(s, Idle) /\ UNCHANGED <<promotion, recorded, head, update>>
      /\ session[s].step = "RECONCILING"
  BY <1>1, <1>2 DEF ConcludeReconciliation, Working, Finish, github
<1>4. /\ k \in DOMAIN promotion /\ k \in DOMAIN journal /\ k \in DOMAIN recorded
      /\ o \in {"INDETERMINATE", "EFFECT_CONFIRMED"}
      /\ o = "EFFECT_CONFIRMED" => Landed(k)
  BY <1>1, <1>2, <1>3 DEF Settled, Sessions, Carried
<1>5. /\ UNCHANGED <<lease, work>> /\ journal' = Reconciled(k, o)
      /\ Latest(journal[k].outcomes) \in {"NONE", "INDETERMINATE"}
  BY <1>3, <1>4 DEF ReconcileAdmitted
<1>6. o \in Outcome
  BY <1>4 DEF Outcome
<1>7. /\ DOMAIN journal' = DOMAIN journal
      /\ Latest(journal'[k].outcomes) = o
      /\ journal'[k].verdicts = journal[k].verdicts
      /\ journal'[k].result = journal[k].result
      /\ \A j \in DOMAIN journal : j # k => journal'[j] = journal[j]
  <2>1. /\ DOMAIN journal' = DOMAIN journal
        /\ journal'[k].outcomes = Append(journal[k].outcomes, o)
        /\ journal'[k].verdicts = journal[k].verdicts
        /\ journal'[k].result = journal[k].result
        /\ \A j \in DOMAIN journal : j # k => journal'[j] = journal[j]
    BY <1>4, <1>5, <1>6, JournalWrites DEF Settled, Inv
  <2> QED BY <1>4, <1>6, <2>1, OutcomeAppend DEF Settled, Inv
<1>8. Published' = Published
  BY <1>3 DEF Published
<1>9. ~EffectConfirmed(k) /\ \A j \in DOMAIN journal : EffectConfirmed(j) => EffectConfirmed(j)'
  BY <1>5, <1>7 DEF EffectConfirmed
<1>10. DOMAIN recorded \subseteq DOMAIN journal
  BY DEF Settled, Results, Promotions
<1>11. Grows
  BY <1>3, <1>7, <1>8, <1>9, <1>10 DEF Grows
<1>12. Sessions'
  BY <1>3, <1>11, FinishedCarries, SessionsMove DEF Settled, Finish
<1>13. Requests'
  BY <1>3, <1>8 DEF Settled, Requests
<1>14. Results'
  <2>1. ASSUME NEW j \in DOMAIN recorded
        PROVE  /\ journal'[j].result # "NONE" /\ Named(recorded[j])'
               /\ EffectConfirmed(j)' => Landed(j)'
    <3>1. journal[j].result # "NONE" /\ Named(recorded[j]) /\ (EffectConfirmed(j) => Landed(j))
      BY DEF Settled, Results
    <3>2. journal'[j].result = journal[j].result
      BY <1>7, <1>10
    <3>3. EffectConfirmed(j)' => EffectConfirmed(j) \/ (j = k /\ o = "EFFECT_CONFIRMED")
      BY <1>7, <1>10 DEF EffectConfirmed
    <3>4. Named(recorded[j])' /\ (Landed(j) => Landed(j)')
      BY <1>3, <1>8, <3>1 DEF Named, Landed
    <3> QED BY <1>4, <3>1, <3>2, <3>3, <3>4
  <2> QED BY <1>3, <2>1 DEF Settled, Results
<1>15. Promotions'
  <2>1. ASSUME NEW j \in DOMAIN promotion
        PROVE  /\ EffectConfirmed(j) => EffectConfirmed(j)'
               /\ EffectConfirmed(j)' => j \in DOMAIN recorded
               /\ ~NoEffect(j)'
               /\ journal'[j].verdicts = journal[j].verdicts
    <3>1. j = k
      BY <1>4, OnePromotion
    <3> QED BY <1>4, <1>7, <1>9, <3>1 DEF NoEffect
  <2> QED BY <1>3, <1>5, <1>7, <2>1 DEF Settled, Promotions, Completed
<1> QED BY <1>12, <1>13, <1>14, <1>15 DEF Kept

(* Claimed work has no promoted attempt, and the claim that is held is of  *)
(* the lease's token.                                                      *)
LEMMA CommitKeeps ==
  ASSUME Settled, NEW s \in Session, NEW at \in Readings, CommitPromotion(s, at)
  PROVE  Kept
<1>1. PICK k : k = session[s].attempt
  OBVIOUS
<1>2. PICK row : row = [until |-> session[s].until, gen |-> work[k[1]].gen + 1]
  OBVIOUS
<1>3. /\ ClaimHeld(k, at) /\ promotion' = Insert(promotion, k, row)
      /\ work' = Moved(k[1], "RUNNING")
      /\ Continue(s, Idle) /\ UNCHANGED <<lease, journal, recorded, head, update>>
      /\ session[s].step = "PROMOTING"
  BY <1>1, <1>2 DEF CommitPromotion, Working, Finish, github
<1>4. k \in DOMAIN journal
  BY <1>1, <1>3 DEF Settled, Sessions, Carried
<1>5. k[1] \in Lineage /\ FenceOf(k) \in Fence /\ FenceOf(k).token = k[2]
  BY <1>4, FenceType DEF Settled, Inv, FenceOf
<1>6. /\ work[k[1]].status = "CLAIMED" /\ Current(FenceOf(k))
      /\ journal[k].verdicts = <<>> /\ journal[k].outcomes = <<>>
  BY <1>3 DEF ClaimHeld, ActiveLease
<1>7. lease.token = k[2]
  BY <1>5, <1>6, CurrentMeans
<1>8. DOMAIN promotion = {}
  <2> SUFFICES ASSUME NEW j \in DOMAIN promotion PROVE FALSE
    OBVIOUS
  <2>1. j \in DOMAIN journal /\ work[j[1]].status \in {"RUNNING", "VERIFYING", "COMPLETE"}
    BY DEF Settled, Promotions
  <2>2. j[1] = k[1]
    BY <1>5, <2>1, FenceType, PromotionAssumption DEF Settled, Inv
  <2> QED BY <1>6, <2>1, <2>2
<1>9. DOMAIN promotion' = {k}
  BY <1>3, <1>8 DEF Insert
<1>10. work'[k[1]].status = "RUNNING"
  <2>1. work'[k[1]] = [status |-> "RUNNING", gen |-> work[k[1]].gen + 1]
    BY <1>3, <1>5, MovedType DEF Settled, Inv, Status, LeaseBound
  <2> QED BY <2>1
<1>11. Published' = Published
  BY <1>3 DEF Published
<1>12. Grows
  BY <1>3, <1>8, <1>11 DEF Grows, EffectConfirmed
<1>13. Sessions'
  BY <1>3, <1>12, FinishedCarries, SessionsMove DEF Settled, Finish
<1>14. DOMAIN recorded = {} /\ DOMAIN update = {}
  <2>1. DOMAIN recorded = {}
    BY <1>8 DEF Settled, Results
  <2>2. \A c \in DOMAIN update : update[c].attempt \in DOMAIN promotion
    BY DEF Settled, Requests
  <2> QED BY <1>8, <2>1, <2>2
<1>15. Requests'
  <2>1. update = [c \in DOMAIN update |-> update[c]]
    BY DEF Settled, Requests
  <2> QED BY <1>3, <1>11, <1>14, <2>1 DEF Settled, Requests
<1>16. Results'
  BY <1>3, <1>14 DEF Results
<1>17. Promotions'
  <2>1. ~NoEffect(k)' /\ ~EffectConfirmed(k)' /\ journal'[k].verdicts = <<>>
    BY <1>3, <1>6 DEF NoEffect, EffectConfirmed, Latest
  <2> QED BY <1>3, <1>4, <1>7, <1>9, <1>10, <2>1 DEF Promotions
<1> QED BY <1>13, <1>15, <1>16, <1>17 DEF Kept

(* Work is verified, then completed, on a confirmed effect.                *)
LEMMA EnterKeeps ==
  ASSUME Settled, NEW s \in Session, NEW at \in Readings, EnterVerifying(s, at)
  PROVE  Kept
<1>1. PICK k : k = session[s].attempt
  OBVIOUS
<1>2. PICK r : r = [step |-> "VERIFYING", attempt |-> k]
  OBVIOUS
<1>3. /\ \/ BeginVerification(k, promotion[k].gen, FenceOf(k), at)
         \/ UNCHANGED vars
      /\ Continue(s, r) /\ UNCHANGED <<promotion, recorded, head, update>>
      /\ session[s].step = "FINALIZING"
  BY <1>1, <1>2 DEF EnterVerifying, Advance, Working, github
<1>4. /\ k \in DOMAIN promotion /\ k \in DOMAIN journal /\ k \in DOMAIN recorded
      /\ EffectConfirmed(k)
  BY <1>1, <1>3 DEF Settled, Sessions, Carried
<1>5. UNCHANGED <<lease, journal>> /\ (work' = work \/ work' = Moved(k[1], "VERIFYING"))
  BY <1>3 DEF BeginVerification, vars
<1>6. work'[k[1]].status \in {work[k[1]].status, "VERIFYING"}
  <2>1. CASE work' = work
    BY <2>1
  <2>2. CASE work' = Moved(k[1], "VERIFYING")
    <3>1. k[1] \in Lineage
      BY <1>4, FenceType DEF Settled, Inv
    <3>2. work'[k[1]] = [status |-> "VERIFYING", gen |-> work[k[1]].gen + 1]
      BY <2>2, <3>1, MovedType DEF Settled, Inv, Status, LeaseBound
    <3> QED BY <3>2
  <2> QED BY <1>5, <2>1, <2>2
<1>7. Published' = Published
  BY <1>3 DEF Published
<1>8. Grows
  BY <1>3, <1>5, <1>7 DEF Grows, EffectConfirmed
<1>9. session'[s] = r
  BY <1>3, SessionMoves DEF Settled
<1>10. Carried(s)'
  BY <1>2, <1>3, <1>4, <1>5, <1>9 DEF Carried, EffectConfirmed
<1>11. Sessions'
  BY <1>3, <1>8, <1>10, SessionsMove DEF Settled
<1>12. Requests'
  BY <1>3, <1>7 DEF Settled, Requests
<1>13. Results'
  BY <1>3, <1>5, <1>7 DEF Settled, Results, Named, Landed, EffectConfirmed
<1>14. Promotions'
  <2>1. Completed(k[1]) => Completed(k[1])'
    <3>1. CASE work' = work
      BY <3>1 DEF Completed
    <3>2. CASE BeginVerification(k, promotion[k].gen, FenceOf(k), at)
      BY <3>2 DEF BeginVerification, Completed
    <3> QED BY <1>3, <3>1, <3>2 DEF vars
  <2>2. \A j \in DOMAIN promotion : j = k
    BY <1>4, OnePromotion
  <2>3. EffectConfirmed(k)' /\ (NoEffect(k)' => NoEffect(k))
    BY <1>4, <1>5 DEF EffectConfirmed, NoEffect
  <2> QED BY <1>3, <1>4, <1>5, <1>6, <2>1, <2>2, <2>3 DEF Settled, Promotions
<1> QED BY <1>11, <1>12, <1>13, <1>14 DEF Kept

LEMMA CompleteKeeps ==
  ASSUME Settled, NEW s \in Session, NEW at \in Readings, CompleteEffect(s, at)
  PROVE  Kept
<1>1. PICK k : k = session[s].attempt
  OBVIOUS
<1>2. /\ FinalizeTerminalVerification(k, promotion[k].gen + 1, FenceOf(k), "COMPLETE", at)
      /\ Continue(s, Idle) /\ UNCHANGED <<promotion, recorded, head, update>>
      /\ session[s].step = "VERIFIED"
  BY <1>1 DEF CompleteEffect, Working, Finish, github
<1>3. /\ k \in DOMAIN promotion /\ k \in DOMAIN journal /\ k \in DOMAIN recorded
      /\ EffectConfirmed(k)
  BY <1>1, <1>2 DEF Settled, Sessions, Carried
<1>4. k[1] \in Lineage
  BY <1>3, FenceType DEF Settled, Inv
<1>5. /\ lease' = FinalizedLease("COMPLETE") /\ work' = Moved(k[1], "COMPLETE")
      /\ journal' = Verified(k, "COMPLETE")
  BY <1>2 DEF FinalizeTerminalVerification
<1>6. lease'.token = lease.token
  BY <1>5, FinalizedWrites DEF Settled, Inv, Terminal
<1>7. Completed(k[1])'
  <2>1. work'[k[1]] = [status |-> "COMPLETE", gen |-> work[k[1]].gen + 1]
    BY <1>4, <1>5, MovedType DEF Settled, Inv, Status, Terminal
  <2> QED BY <2>1 DEF Completed
<1>8. /\ DOMAIN journal' = DOMAIN journal
      /\ \A j \in DOMAIN journal : /\ journal'[j].result = journal[j].result
                                   /\ journal'[j].outcomes = journal[j].outcomes
  BY <1>3, <1>5, JournalWrites DEF Settled, Inv, Terminal
<1>9. Published' = Published
  BY <1>2 DEF Published
<1>10. DOMAIN recorded \subseteq DOMAIN journal
  BY DEF Settled, Results, Promotions
<1>11. Grows
  BY <1>2, <1>8, <1>9, <1>10 DEF Grows, EffectConfirmed
<1>12. Sessions'
  BY <1>2, <1>11, FinishedCarries, SessionsMove DEF Settled, Finish
<1>13. Requests'
  BY <1>2, <1>9 DEF Settled, Requests
<1>14. Results'
  BY <1>2, <1>8, <1>9, <1>10 DEF Settled, Results, Named, Landed, EffectConfirmed
<1>15. Promotions'
  <2>1. \A j \in DOMAIN promotion : j = k
    BY <1>3, OnePromotion
  <2>2. EffectConfirmed(k)' /\ ~NoEffect(k)'
    BY <1>3, <1>8 DEF EffectConfirmed, NoEffect
  <2> QED BY <1>2, <1>3, <1>6, <1>7, <1>8, <2>1, <2>2 DEF Settled, Promotions, Completed
<1> QED BY <1>12, <1>13, <1>14, <1>15 DEF Kept

(* Promoted work is neither rooted nor claimed again.                      *)
LEMMA ClaimKeeps ==
  ASSUME Settled, ClaimStep
  PROVE  Kept
<1>1. UNCHANGED <<promotion, recorded, session, head, update>>
  BY DEF ClaimStep, gate, github
<1>2. CASE Tick
  <2>1. UNCHANGED <<lease, work, journal>>
    BY <1>2 DEF Tick
  <2>2. Published' = Published
    BY <1>1 DEF Published
  <2>3. Grows
    BY <1>1, <2>1, <2>2 DEF Grows, EffectConfirmed
  <2>4. Sessions'
    BY <1>1, <2>3, SessionsStay DEF Settled
  <2>5. Requests' /\ Results' /\ Promotions'
    BY <1>1, <2>1, <2>2 DEF Settled, Requests, Results, Promotions, Named, Landed,
                            EffectConfirmed, NoEffect, Completed
  <2> QED BY <2>4, <2>5 DEF Kept
<1>3. ASSUME NEW l \in Lineage, InitializeRoot(l) \/ Admission(l)
      PROVE  Kept
  <2>1. work[l].status \notin {"RUNNING", "VERIFYING", "COMPLETE"}
    <3>1. CASE InitializeRoot(l)
      BY <3>1 DEF InitializeRoot, Settled, Inv, Rooted
    <3>2. CASE Admission(l)
      <4>1. \/ work[l].status \in Status /\ "CLAIMED" \in AllowedTransitions[work[l].status]
            \/ work[l].status = "CLAIMED"
        BY <3>2 DEF Admission, RecoverClaimOnlyRoot, ResumePendingRoot, RefenceClaimedRoot, Admit
      <4> QED BY <4>1 DEF AllowedTransitions, Status, LeaseBound, Terminal, Failing
    <3> QED BY <1>3, <3>1, <3>2
  <2>2. DOMAIN promotion = {}
    <3> SUFFICES ASSUME NEW j \in DOMAIN promotion PROVE FALSE
      OBVIOUS
    <3>1. j \in DOMAIN journal /\ work[j[1]].status \in {"RUNNING", "VERIFYING", "COMPLETE"}
      BY DEF Settled, Promotions
    <3>2. j[1] = l
      BY <3>1, FenceType, PromotionAssumption DEF Settled, Inv
    <3> QED BY <2>1, <3>1, <3>2
  <2>3. DOMAIN recorded = {} /\ DOMAIN journal \subseteq DOMAIN journal'
    <3>1. DOMAIN recorded = {}
      BY <2>2 DEF Settled, Results
    <3>2. OpenNext
      BY <1>3 DEF Next, OpenNext
    <3>3. JournalMoves
      BY <3>2, StepFootprint DEF Settled, Inv, Footprint
    <3> QED BY <3>1, <3>3 DEF JournalMoves
  <2>4. Published' = Published
    BY <1>1 DEF Published
  <2>5. Grows
    BY <1>1, <2>3, <2>4 DEF Grows
  <2>6. Sessions'
    BY <1>1, <2>5, SessionsStay DEF Settled
  <2>7. Requests' /\ Results' /\ Promotions'
    BY <1>1, <2>2, <2>3, <2>4 DEF Settled, Requests, Results, Promotions
  <2> QED BY <2>6, <2>7 DEF Kept
<1> QED BY <1>2, <1>3 DEF ClaimStep
---------------------------------------------------------------------------
(* GitHub *)

LEMMA RequestWrites ==
  ASSUME Requests, NEW c \in DOMAIN update, NEW v \in {"APPLIED", "REJECTED"},
         update' = [update EXCEPT ![c].state = v]
  PROVE  /\ DOMAIN update' = DOMAIN update
         /\ update'[c].state = v
         /\ \A d \in DOMAIN update : d # c => update'[d] = update[d]
         /\ update' \in [DOMAIN update ->
                          [attempt : DOMAIN promotion, state : {"SENT", "APPLIED", "REJECTED"}]]
<1> DEFINE A == [attempt : DOMAIN promotion, state : {"SENT", "APPLIED", "REJECTED"}]
<1>1. update \in [DOMAIN update -> A]
  BY DEF Requests
<1>2. ASSUME NEW a \in A
      PROVE  [a EXCEPT !.state = v] \in A /\ [a EXCEPT !.state = v].state = v
  OBVIOUS
<1>3. update' = [d \in DOMAIN update |-> IF d = c THEN [update[c] EXCEPT !.state = v]
                                         ELSE update[d]]
  OBVIOUS
<1> HIDE DEF A
<1>4. update[c] \in A /\ [update[c] EXCEPT !.state = v] \in A
      /\ [update[c] EXCEPT !.state = v].state = v
  BY <1>1, <1>2
<1>5. update' \in [DOMAIN update -> A]
  BY <1>1, <1>3, <1>4
<1> QED BY <1>3, <1>4, <1>5 DEF A

(* What GitHub published stays published, and a candidate is published     *)
(* only on a branch that is at BASE.                                       *)
LEMMA GitHubMoves ==
  ASSUME Requests, GitHubStep
  PROVE  /\ Requests'
         /\ UNCHANGED <<vars, promotion, recorded, session>> /\ DOMAIN update' = DOMAIN update
         /\ \/ Published' = Published
            \/ \E c \in DOMAIN update :
                 /\ head = "BASE" /\ head' = c /\ resets' = resets
                 /\ c \notin Published /\ Published' = Published \cup {c}
<1>1. UNCHANGED <<vars, promotion, recorded, session>>
  BY DEF GitHubStep, ApplyUpdate, ForeignPush, ForeignReset, gate
<1>2. ASSUME NEW c \in DOMAIN update, ApplyUpdate(c), head = "BASE"
      PROVE  /\ Requests' /\ DOMAIN update' = DOMAIN update
             /\ head' = c /\ resets' = resets
             /\ c \notin Published /\ Published' = Published \cup {c}
  <2>1. /\ update[c].state = "SENT" /\ update' = [update EXCEPT ![c].state = "APPLIED"]
        /\ head' = c /\ resets' = resets
    BY <1>2 DEF ApplyUpdate
  <2>2. /\ DOMAIN update' = DOMAIN update /\ update'[c].state = "APPLIED"
        /\ \A d \in DOMAIN update : d # c => update'[d] = update[d]
        /\ update' \in [DOMAIN update ->
                         [attempt : DOMAIN promotion, state : {"SENT", "APPLIED", "REJECTED"}]]
    BY <2>1, RequestWrites
  <2>3. c \notin Published /\ Published' = Published \cup {c}
    BY <2>1, <2>2 DEF Published
  <2>4. Requests'
    BY <1>1, <2>1, <2>2, <2>3 DEF Requests
  <2> QED BY <2>1, <2>2, <2>3, <2>4
<1>3. ASSUME NEW c \in DOMAIN update, ApplyUpdate(c), head # "BASE"
      PROVE  Requests' /\ DOMAIN update' = DOMAIN update /\ Published' = Published
  <2>1. /\ update[c].state = "SENT" /\ update' = [update EXCEPT ![c].state = "REJECTED"]
        /\ head' = head
    BY <1>3 DEF ApplyUpdate
  <2>2. /\ DOMAIN update' = DOMAIN update /\ update'[c].state = "REJECTED"
        /\ \A d \in DOMAIN update : d # c => update'[d] = update[d]
        /\ update' \in [DOMAIN update ->
                         [attempt : DOMAIN promotion, state : {"SENT", "APPLIED", "REJECTED"}]]
    BY <2>1, RequestWrites
  <2>3. Published' = Published
    BY <2>1, <2>2 DEF Published
  <2>4. Requests'
    BY <1>1, <2>1, <2>2, <2>3 DEF Requests
  <2> QED BY <2>2, <2>3, <2>4
<1>4. ASSUME ForeignPush \/ ForeignReset
      PROVE  Requests' /\ DOMAIN update' = DOMAIN update /\ Published' = Published
  <2>1. update' = update /\ head' \in {"BASE", "FOREIGN"}
    BY <1>4 DEF ForeignPush, ForeignReset
  <2>2. Published' = Published
    BY <2>1 DEF Published
  <2> QED BY <1>1, <2>1, <2>2 DEF Requests
<1> QED BY <1>1, <1>2, <1>3, <1>4 DEF GitHubStep

LEMMA GitHubKeeps ==
  ASSUME Settled, GitHubStep
  PROVE  Kept
<1>1. /\ Requests' /\ UNCHANGED <<vars, promotion, recorded, session>>
      /\ DOMAIN update' = DOMAIN update /\ Published \subseteq Published'
  BY GitHubMoves DEF Settled
<1>2. UNCHANGED <<lease, work, journal>>
  BY <1>1 DEF vars
<1>3. Grows
  BY <1>1, <1>2 DEF Grows, EffectConfirmed
<1>4. Sessions'
  BY <1>1, <1>3, SessionsStay DEF Settled
<1>5. Results' /\ Promotions'
  BY <1>1, <1>2 DEF Settled, Results, Promotions, Named, Landed, EffectConfirmed, NoEffect,
                    Completed
<1> QED BY <1>1, <1>4, <1>5 DEF Kept

---------------------------------------------------------------------------
(* The invariant *)

(* Nothing is promoted, recorded or sent at first. *)
LEMMA InitSettled == PromotionInit => Settled
<1> SUFFICES ASSUME PromotionInit PROVE Settled
  OBVIOUS
<1>1. Inv
  BY InitInv DEF PromotionInit
<1>2. Sessions
  <2>1. session = [s \in Session |-> Idle] /\ Idle.step = "IDLE"
    BY DEF PromotionInit, Idle
  <2> QED BY <2>1 DEF Sessions, Carried
<1>3. /\ DOMAIN promotion = {} /\ DOMAIN recorded = {} /\ DOMAIN update = {}
      /\ update = [c \in DOMAIN update |-> update[c]] /\ head = "BASE"
  BY DEF PromotionInit
<1>4. Requests /\ Results /\ Promotions
  BY <1>3 DEF Requests, Results, Promotions
<1> QED BY <1>1, <1>2, <1>4 DEF Settled

LEMMA StutterKeeps ==
  ASSUME Settled, UNCHANGED promotionVars
  PROVE  Kept
<1>1. UNCHANGED <<vars, promotion, recorded, session, head, update>>
  BY DEF promotionVars, gate, github
<1>2. Grows /\ Requests' /\ Results' /\ Promotions'
  BY <1>1, ReadingKeeps DEF Settled
<1>3. Sessions'
  BY <1>1, <1>2, SessionsStay DEF Settled
<1> QED BY <1>2, <1>3 DEF Kept

(* Every step of a session is one of the above. *)
LEMMA SessionKeeps ==
  ASSUME Settled, NEW s \in Session, SessionStep(s)
  PROVE  Kept /\ UNCHANGED <<head, resets>> /\ Published' = Published
<1>1. CASE \E c \in Candidate : SendUpdate(s, c)
  <2>1. PICK c \in Candidate : SendUpdate(s, c)
    BY <1>1
  <2> QED BY <2>1, SendKeeps DEF SendUpdate
<1>2. ASSUME Kept, UNCHANGED github
      PROVE  Kept /\ UNCHANGED <<head, resets>> /\ Published' = Published
  BY <1>2 DEF github, Published
<1>3. CASE \/ EndSession(s) \/ VerifyEffect(s)
           \/ \E at \in Readings :
                \/ CallBackend(s, at)
                \/ \E k \in DOMAIN journal :
                     \/ CheckPromotion(s, k, at) \/ CheckEffect(s, k, at)
                     \/ \E until \in Deadline : CheckClaim(s, k, until, at)
  BY <1>2, <1>3, CheckingSteps
<1>4. CASE RefuseHead(s) \/ FailBeforeUpdate(s) \/ ReadReply(s) \/ LoseReply(s)
           \/ GarbleReply(s) \/ ReadBack(s)
  BY <1>2, <1>4, BackendSteps
     DEF RefuseHead, FailBeforeUpdate, ReadReply, LoseReply, GarbleReply, ReadBack
<1>5. CASE RecordReturned(s) \/ ConcludeReconciliation(s)
  BY <1>2, <1>5, RecordKeeps, ConcludeKeeps DEF RecordReturned, ConcludeReconciliation
<1>6. CASE \E k \in DOMAIN recorded : ObserveWrite(s, k)
  BY <1>2, <1>6, ObserveKeeps DEF ObserveWrite
<1>7. CASE \E at \in Readings :
             CommitPromotion(s, at) \/ EnterVerifying(s, at) \/ CompleteEffect(s, at)
  BY <1>2, <1>7, CommitKeeps, EnterKeeps, CompleteKeeps
     DEF CommitPromotion, EnterVerifying, CompleteEffect
<1> QED BY <1>1, <1>3, <1>4, <1>5, <1>6, <1>7 DEF SessionStep

LEMMA NextSettled ==
  ASSUME Settled, [PromotionNext]_promotionVars
  PROVE  Settled'
<1>1. Inv'
  BY StepIsJournaled, JournaledIsOpen, NextInv DEF Settled
<1>2. Kept
  BY StutterKeeps, ClaimKeeps, GitHubKeeps, SessionKeeps DEF PromotionNext
<1> QED BY <1>1, <1>2 DEF Settled, Kept

(* Tables, branch, requests and sessions agree, whatever the commands and  *)
(* GitHub do in between.                                                   *)
THEOREM PromotionSettled == PromotionSpec => []Settled
  BY InitSettled, NextSettled, PTL DEF PromotionSpec

---------------------------------------------------------------------------
(* The properties *)

(* The commands call the store as journaled callers do, so what is proved  *)
(* of those holds of promotion too.                                        *)
THEOREM PromotionIsJournaled == PromotionSpec => Spec
<1>1. PromotionInit => Init
  BY DEF PromotionInit
<1> QED BY <1>1, StepIsJournaled, PromotionSettled, PTL DEF PromotionSpec, Spec

(* A promoted attempt is the newest of its lineage and holds the lease's   *)
(* token for good: no later fence meets its writes.                        *)
THEOREM PromotedFenceStays == PromotionSpec => []PromotedFenceIsLast
<1>1. Settled => PromotedFenceIsLast
  <2> SUFFICES ASSUME Settled, NEW k \in DOMAIN promotion
               PROVE  Newest(k) /\ lease.token = k[2]
    BY DEF PromotedFenceIsLast
  <2>1. lease.token = k[2] /\ lease.token \in Nat
    BY DEF Settled, Promotions, Inv, TypeOK, LeaseRow
  <2>2. \A j \in DOMAIN journal : j[2] \in 1 .. lease.token
    BY DEF Settled, Inv, FencesIdentifyAttempts
  <2> QED BY <2>1, <2>2 DEF Newest, AttemptsOf
<1> QED BY <1>1, PromotionSettled, PTL

(* Whatever the journal reports as written was published on the branch.    *)
THEOREM ReportedWritesAreReal == PromotionSpec => []ReportedWritesLanded
<1>1. Settled => ReportedWritesLanded
  <2> SUFFICES ASSUME Settled, NEW k \in DOMAIN recorded,
                      \/ recorded[k].classification = "SUCCEEDED"
                      \/ Latest(journal[k].outcomes) = "EFFECT_CONFIRMED"
                      \/ work[k[1]].status \in {"VERIFYING", "COMPLETE"}
               PROVE  recorded[k].outputs # {} /\ recorded[k].outputs \subseteq Published
    BY DEF ReportedWritesLanded
  <2>1. Named(recorded[k]) /\ (EffectConfirmed(k) => Landed(k)) /\ k \in DOMAIN promotion
    BY DEF Settled, Results
  <2>2. work[k[1]].status # "RUNNING" => EffectConfirmed(k)
    BY <2>1 DEF Settled, Promotions
  <2> QED BY <2>1, <2>2 DEF Named, EffectConfirmed, Landed
<1> QED BY <1>1, PromotionSettled, PTL

(* A write that was sent is never written off, and recovery finds its      *)
(* attempt until the work is COMPLETE.                                     *)
THEOREM SentWritesStayVisible == PromotionSpec => []SentWritesAreVisible
<1>1. Settled => SentWritesAreVisible
  <2> SUFFICES ASSUME Settled, NEW c \in DOMAIN update
               PROVE  LET k == update[c].attempt IN
                      ~NoEffect(k) /\ (k \in Unresolved \/ Completed(k[1]))
    BY DEF SentWritesAreVisible
  <2>1. PICK k : k = update[c].attempt
    OBVIOUS
  <2>2. k \in DOMAIN promotion
    BY <2>1 DEF Settled, Requests
  <2>3. ~NoEffect(k) /\ k \in DOMAIN journal /\ (journal[k].verdicts = <<>> \/ Completed(k[1]))
    BY <2>2 DEF Settled, Promotions
  <2>4. journal[k].verdicts = <<>> => Phase(k) # "RESOLVED"
    BY <2>3 DEF Phase, NoEffect
  <2> QED BY <2>1, <2>3, <2>4 DEF Unresolved
<1> QED BY <1>1, PromotionSettled, PTL

---------------------------------------------------------------------------
(* Counting the writes *)

(* Each write that landed moved the branch off BASE, where only a reset    *)
(* brings it back.                                                         *)
Counted ==
  /\ IsFiniteSet(Published)
  /\ resets \in Nat
  /\ Cardinality(Published) <= resets + (IF head = "BASE" THEN 0 ELSE 1)

LEMMA NextCounted ==
  ASSUME Settled, Counted, [PromotionNext]_promotionVars
  PROVE  Counted'
<1>1. Cardinality(Published) \in Nat
  BY FS_CardinalityType DEF Counted
<1>2. ASSUME UNCHANGED <<head, resets>>, Published' = Published
      PROVE  Counted'
  BY <1>2 DEF Counted
<1>3. CASE UNCHANGED promotionVars \/ ClaimStep
  BY <1>2, <1>3 DEF promotionVars, ClaimStep, github, Published
<1>4. CASE \E s \in Session : SessionStep(s)
  BY <1>2, <1>4, SessionKeeps
<1>5. CASE GitHubStep
  <2>1. ASSUME NEW c \in DOMAIN update, head = "BASE", head' = c, resets' = resets,
               c \notin Published, Published' = Published \cup {c}
        PROVE  Counted'
    <3>1. c # "BASE"
      BY PromotionAssumption DEF Settled, Requests
    <3>2. IsFiniteSet(Published') /\ Cardinality(Published') = Cardinality(Published) + 1
      BY <2>1, FS_AddElement DEF Counted
    <3> QED BY <1>1, <2>1, <3>1, <3>2 DEF Counted
  <2>2. ASSUME Published' = Published, ForeignPush \/ ForeignReset
        PROVE  Counted'
    BY <1>1, <2>2 DEF Counted, ForeignPush, ForeignReset
  <2>3. ASSUME NEW c \in DOMAIN update, ApplyUpdate(c), Published' = Published
        PROVE  Counted'
    BY <1>1, <2>3 DEF Counted, ApplyUpdate
  <2> QED BY <1>5, <2>1, <2>2, <2>3, GitHubMoves DEF Settled, GitHubStep
<1> QED BY <1>3, <1>4, <1>5 DEF PromotionNext

(* One promotion writes at most once, and once more only for each time     *)
(* somebody put the branch back.                                           *)
THEOREM WritesAreNotRepeated == PromotionSpec => []NoWriteIsRepeated
<1>1. PromotionInit => Counted
  BY FS_EmptySet DEF PromotionInit, Counted, Published
<1>2. PromotionSpec => []Counted
  BY <1>1, NextCounted, PromotionSettled, PTL DEF PromotionSpec
<1>3. Counted => NoWriteIsRepeated
  BY FS_CardinalityType DEF Counted, NoWriteIsRepeated
<1> QED BY <1>2, <1>3, PTL
=============================================================================
