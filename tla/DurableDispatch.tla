-------------------------- MODULE DurableDispatch --------------------------
(***************************************************************************)
(* The durable execution store of Project Runner: the SQLite file shared   *)
(* by runner/durable_dispatch.py, runner/recursive_state.py and            *)
(* runner/persistent_state.py, and every operation of those modules that   *)
(* moves one work unit through its life.                                   *)
(*                                                                         *)
(* One work fingerprint is modelled.  The `leases' table is keyed by       *)
(* fingerprint alone and every other table by (lineage, fingerprint), so   *)
(* two fingerprints share nothing, while the lineages of one fingerprint   *)
(* share its lease: that sharing is what the model keeps.                  *)
(*                                                                         *)
(* Each public operation is one BEGIN IMMEDIATE transaction: it either     *)
(* commits all its writes or raises and rolls back.  A call that raises,   *)
(* and the replay of a call already applied, change nothing and are        *)
(* stuttering steps.  A process has no state of its own here, so a crash   *)
(* or a restart between two transactions is any interleaving of actions.   *)
(***************************************************************************)
EXTENDS Integers, FiniteSets, SequencesExt

CONSTANTS
  Lineage,        \* lineage ids under which the fingerprint was rooted
  Holder,         \* lease holders (worker processes)
  NoHolder,       \* SQL NULL in leases.holder
  ClaimOnly,      \* TRUE: PORTFOLIO_BOUND_CLAIM work, execution_authority=false
  InitialBudget,  \* the root BudgetEnvelope: active, retries, jobs
  Ttl,            \* lease time-to-live
  MaxLag,         \* how long before the transaction a caller read its clock
  MaxTime,        \* bound: the clock stops there
  MaxToken,       \* bound: no fencing token above it is issued
  MaxGeneration,  \* bound: compare_and_swap_status stops at this generation
  MaxNotes        \* bound: inconclusive verifications (reconciliations) per attempt

ASSUME ParameterAssumption ==
  /\ NoHolder \notin Holder
  /\ ClaimOnly \in BOOLEAN
  /\ InitialBudget \in [active : Nat, retries : Nat, jobs : Nat]
  /\ Ttl \in Nat \ {0}
  /\ MaxLag \in Nat

VARIABLES
  now,      \* real time
  lease,    \* the row of `leases'; token 0 stands for no row
  work,     \* recursive_work_state, per lineage; ABSENT stands for no row
  budget,   \* lineage_budgets, per lineage; generation 0 stands for no row
  journal   \* execution_attempts with its verifications and reconciliations

vars == <<now, lease, work, budget, journal>>

---------------------------------------------------------------------------
(* The lifecycle of a work unit *)

Terminal == {"COMPLETE", "FAILED_DETERMINISTIC", "SUPERSEDED"}

LeaseBound ==
  {"CLAIMED", "RUNNING", "VERIFYING", "FAILED_RETRYABLE", "OUTCOME_UNKNOWN"}

Status == {"PENDING"} \cup LeaseBound \cup Terminal

Failing ==
  {"FAILED_RETRYABLE", "FAILED_DETERMINISTIC", "OUTCOME_UNKNOWN", "SUPERSEDED"}

AllowedTransitions ==
  [s \in Status |->
     CASE s = "PENDING"          -> {"CLAIMED", "RUNNING"}
       [] s = "CLAIMED"          -> {"RUNNING"} \cup Failing
       [] s = "RUNNING"          -> {"VERIFYING"} \cup Failing
       [] s = "VERIFYING"        -> {"COMPLETE"} \cup Failing
       [] s = "FAILED_RETRYABLE" -> {"CLAIMED", "RUNNING"}
       [] s = "OUTCOME_UNKNOWN"  -> {"CLAIMED", "RUNNING", "VERIFYING"}
       [] OTHER                  -> {}]

Outcome == {"INDETERMINATE", "NO_EFFECT_CONFIRMED", "EFFECT_CONFIRMED"}

(* A recorded backend result.  The store tells apart only the failed       *)
(* OUTCOME_UNKNOWN from the others, for which CONCLUSIVE stands.           *)
Result == {"CONCLUSIVE", "OUTCOME_UNKNOWN"}

(* ORDER BY sequence DESC LIMIT 1 *)
Latest(s) == IF s = <<>> THEN "NONE" ELSE Last(s)

---------------------------------------------------------------------------
(* Rows *)

LeaseRow == [holder : Holder \cup {NoHolder}, token : Nat, expires : Nat,
             completed : BOOLEAN]

WorkRow == [status : Status \cup {"ABSENT"}, gen : Nat]

BudgetRow == [active : Nat, retries : Nat, jobs : Nat, gen : Nat]

Attempt == [holder : Holder, budgetGen : Nat, workGen : Nat,
            result : Result \cup {"NONE"},
            verdicts : Seq({"OUTCOME_UNKNOWN"} \cup Terminal),
            outcomes : Seq(Outcome)]

(* What a caller keeps of a Lease object: expires_at is never read back. *)
Fence == [holder : Holder, token : Nat]

FenceOf(k) == [holder |-> journal[k].holder, token |-> k[2]]

AttemptsOf(l) == {k \in DOMAIN journal : k[1] = l}

(* ORDER BY fencing_token DESC LIMIT 1 *)
Newest(k) == \A j \in AttemptsOf(k[1]) : j[2] <= k[2]

NewAttempt(h, bg, wg) ==
  [holder |-> h, budgetGen |-> bg, workGen |-> wg, result |-> "NONE",
   verdicts |-> <<>>, outcomes |-> <<>>]

(* Mutant of Insert: the attempt row is not written. *)
InsertLost(f, k, e) == f

Insert(f, k, e) == [j \in DOMAIN f \cup {k} |-> IF j = k THEN e ELSE f[j]]

(* Notes added to attempt k: its result, a verification, a reconciliation. *)
Recorded(k, r) == [journal EXCEPT ![k].result = r]
Verified(k, s) == [journal EXCEPT ![k].verdicts = Append(@, s)]
Reconciled(k, o) == [journal EXCEPT ![k].outcomes = Append(@, o)]

(* A clock value a caller may pass in: read at most MaxLag ago. *)
Readings == {t \in 0 .. now : now <= t + MaxLag}

---------------------------------------------------------------------------
(* Lease predicates shared by the operations *)

(* Mutant of Current: a worker recognised by its name alone. *)
CurrentByHolder(f) == lease.holder = f.holder /\ ~lease.completed

Current(f) ==
  /\ lease.holder = f.holder
  /\ lease.token = f.token
  /\ ~lease.completed

(* Mutant of ActiveLease: expiry is not checked. *)
ActiveLeaseEvenExpired(f, at) == Current(f)

(* _validate_active_lease_state *)
ActiveLease(f, at) == Current(f) /\ at < lease.expires

(* Mutants of Claimable: completion forgotten; expiry one tick early. *)
ClaimableOnceCompleted(at) == lease.holder = NoHolder \/ lease.expires <= at

ClaimableEarly(at) ==
  /\ ~lease.completed
  /\ lease.holder = NoHolder \/ lease.expires <= at + 1

(* The lease may be taken: never completed, and free or expired. *)
Claimable(at) ==
  /\ ~lease.completed
  /\ lease.holder = NoHolder \/ lease.expires <= at

(* Mutant of NextToken: a released lease is granted again under its token. *)
NextTokenReused ==
  IF lease.token > 0 /\ lease.holder = NoHolder THEN lease.token
  ELSE lease.token + 1

NextToken == lease.token + 1

(* Mutant of GrantedTo: the row keeps its old token. *)
GrantedSameToken(h, at) ==
  [holder |-> h, token |-> IF lease.token = 0 THEN 1 ELSE lease.token,
   expires |-> at + Ttl, completed |-> FALSE]

GrantedTo(h, at) ==
  [holder |-> h, token |-> NextToken, expires |-> at + Ttl, completed |-> FALSE]

(* Mutant of Released: the holder is left in the row. *)
ReleasedKeepingHolder == [lease EXCEPT !.expires = 0]

Released == [lease EXCEPT !.holder = NoHolder, !.expires = 0]

Extended(at) == [lease EXCEPT !.expires = at + Ttl]

LeaseCompleted == [lease EXCEPT !.completed = TRUE]

(* Mutant of FinalizedLease: every terminal status releases. *)
FinalizedByRelease(s) == Released

(* What finalization leaves of the lease. *)
FinalizedLease(s) ==
  IF s = "COMPLETE" THEN LeaseCompleted ELSE Released

Moved(l, s) == [work EXCEPT ![l] = [status |-> s, gen |-> @.gen + 1]]

---------------------------------------------------------------------------
Init ==
  /\ now = 0
  /\ lease = [holder |-> NoHolder, token |-> 0, expires |-> 0, completed |-> FALSE]
  /\ work = [l \in Lineage |-> [status |-> "ABSENT", gen |-> 0]]
  /\ budget = [l \in Lineage |->
                 [active |-> 0, retries |-> 0, jobs |-> 0, gen |-> 0]]
  /\ journal = [k \in {} |-> NewAttempt(NoHolder, 0, 0)]

Tick ==
  /\ now < MaxTime
  /\ now' = now + 1
  /\ UNCHANGED <<lease, work, budget, journal>>

RootBudget ==
  [active |-> InitialBudget.active, retries |-> InitialBudget.retries,
   jobs |-> InitialBudget.jobs, gen |-> 1]

(* SqliteDispatchAdmissionStore.initialize_root *)
InitializeRoot(l) ==
  /\ work[l].gen = 0
  /\ budget[l].gen = 0
  /\ budget' = [budget EXCEPT ![l] = RootBudget]
  /\ work' = [work EXCEPT ![l] = [status |-> "PENDING", gen |-> 1]]
  /\ UNCHANGED <<now, lease, journal>>

(* SqliteBudgetStore.put_initial, root scope *)
PutInitialBudget(l) ==
  /\ budget[l].gen = 0
  /\ budget' = [budget EXCEPT ![l] = RootBudget]
  /\ UNCHANGED <<now, lease, work, journal>>

(* SqliteRecursiveWorkStore.put_initial, root work, with the status that   *)
(* the caller's WorkUnit has                                               *)
PutInitialWork(l, s) ==
  /\ work[l].gen = 0
  /\ work' = [work EXCEPT ![l] = [status |-> s, gen |-> 1]]
  /\ UNCHANGED <<now, lease, budget, journal>>

(* Mutant of RetryConsumed: retrying an unknown outcome is free. *)
RetryConsumedByFailure(l) == IF work[l].status = "FAILED_RETRYABLE" THEN 1 ELSE 0

RetryConsumed(l) ==
  IF work[l].status \in {"FAILED_RETRYABLE", "OUTCOME_UNKNOWN"} THEN 1 ELSE 0

(* Mutant of Affordable: the retry quota is not checked. *)
AffordableWithoutRetries(l) == budget[l].active > 0 /\ budget[l].jobs > 0

Affordable(l) ==
  /\ budget[l].active > 0
  /\ budget[l].jobs > 0
  /\ RetryConsumed(l) <= budget[l].retries

(* Mutant of Charged: the active slot is not taken. *)
ChargedJobOnly(l) ==
  [budget EXCEPT ![l] =
     [@ EXCEPT !.jobs = @ - 1, !.retries = @ - RetryConsumed(l), !.gen = @ + 1]]

Charged(l) ==
  [budget EXCEPT ![l] =
     [active |-> @.active - 1, retries |-> @.retries - RetryConsumed(l),
      jobs |-> @.jobs - 1, gen |-> @.gen + 1]]

(* SqliteDispatchAdmissionStore.admit, called with the generations bg, wg *)
Admit(l, bg, wg, h, at) ==
  /\ work[l].status \in Status
  /\ work[l].gen = wg
  /\ "CLAIMED" \in AllowedTransitions[work[l].status]
  /\ budget[l].gen = bg
  /\ Affordable(l)
  /\ Claimable(at)
  /\ lease.token < MaxToken
  /\ lease' = GrantedTo(h, at)
  /\ journal' = Insert(journal, <<l, NextToken>>,
                       NewAttempt(h, bg + 1, wg + 1))
  /\ budget' = Charged(l)
  /\ work' = Moved(l, "CLAIMED")
  /\ UNCHANGED now

(* recover_claim_only_root on PENDING work.  Its own transaction only      *)
(* reads: it wants the initial budget, no attempt and no lease, commits,   *)
(* and passes the generations it read, both 1, to admit.  What it read may *)
(* be old by then, so the step is the one that admit allows.               *)
ResumePendingRoot(l, h, at) ==
  /\ work[l].status = "PENDING"
  /\ Admit(l, 1, 1, h, at)

(* recover_claim_only_root on CLAIMED work whose lease is free or expired; *)
(* with a live lease of the same holder it only returns that lease.        *)
RefenceClaimedRoot(l, h, at) ==
  /\ work[l].status = "CLAIMED"
  /\ budget[l] = [active |-> InitialBudget.active - 1,
                  retries |-> InitialBudget.retries,
                  jobs |-> InitialBudget.jobs - 1, gen |-> 2]
  /\ \E k \in AttemptsOf(l) :
     /\ Newest(k)
     /\ k[2] = lease.token
     /\ journal[k].budgetGen = budget[l].gen
     /\ journal[k].workGen = work[l].gen
     /\ lease.holder \in {NoHolder, journal[k].holder}
     /\ journal[k].result = "NONE"
     /\ journal[k].verdicts = <<>>
     /\ journal[k].outcomes = <<>>
     /\ Claimable(at)
     /\ lease.token < MaxToken
     /\ journal' =
          Insert(Reconciled(k, "NO_EFFECT_CONFIRMED"),
                 <<l, NextToken>>,
                 NewAttempt(h, budget[l].gen, work[l].gen + 1))
  /\ lease' = GrantedTo(h, at)
  /\ work' = Moved(l, "CLAIMED")
  /\ UNCHANGED <<now, budget>>

(* SqliteDispatchAdmissionStore.recover_claim_only_root *)
RecoverClaimOnlyRoot(l, h, at) ==
  /\ ClaimOnly
  /\ ResumePendingRoot(l, h, at) \/ RefenceClaimedRoot(l, h, at)

---------------------------------------------------------------------------
(* The execution journal.  k is an attempt <<lineage, token>>, g the work  *)
(* generation the caller read, f the fence it presents, at its clock.      *)

(* Mutant of HasResult: verification does not wait for the result. *)
HasResultUnchecked(k) == TRUE

HasResult(k) == journal[k].result # "NONE"

(* Mutant of RecordResult: a second result replaces the first. *)
RecordResultOverwriting(k, r) ==
  /\ Latest(journal[k].outcomes) # "NO_EFFECT_CONFIRMED"
  /\ journal' = Recorded(k, r)
  /\ UNCHANGED <<now, lease, work, budget>>

(* SqliteDispatchAdmissionStore.record_result: no fence, no status check *)
RecordResult(k, r) ==
  /\ Latest(journal[k].outcomes) # "NO_EFFECT_CONFIRMED"
  /\ journal[k].result = "NONE"
  /\ journal' = Recorded(k, r)
  /\ UNCHANGED <<now, lease, work, budget>>

(* No verification of k yet, or only inconclusive ones. *)
Unverified(k) == Latest(journal[k].verdicts) \in {"NONE", "OUTCOME_UNKNOWN"}

(* SqliteDispatchAdmissionStore.record_verification: OUTCOME_UNKNOWN only *)
RecordVerification(k) ==
  /\ HasResult(k)
  /\ Unverified(k)
  /\ Len(journal[k].verdicts) < MaxNotes
  /\ journal' = Verified(k, "OUTCOME_UNKNOWN")
  /\ UNCHANGED <<now, lease, work, budget>>

(* SqliteDispatchAdmissionStore.begin_verification *)
BeginVerification(k, g, f, at) ==
  /\ f.token = k[2]
  /\ HasResult(k)
  /\ ActiveLease(f, at)
  /\ work[k[1]].gen = g
  /\ work[k[1]].status = "RUNNING"
  /\ work' = Moved(k[1], "VERIFYING")
  /\ UNCHANGED <<now, lease, budget, journal>>

(* SqliteDispatchAdmissionStore.finalize_terminal_verification *)
FinalizeTerminalVerification(k, g, f, s, at) ==
  /\ f.token = k[2]
  /\ HasResult(k)
  /\ work[k[1]].status \in Status \ Terminal
  /\ work[k[1]].gen = g
  /\ s \in AllowedTransitions[work[k[1]].status]
  /\ ActiveLease(f, at)
  /\ Unverified(k)
  /\ lease' = FinalizedLease(s)
  /\ work' = Moved(k[1], s)
  /\ journal' = Verified(k, s)
  /\ UNCHANGED <<now, budget>>

(* A result forbids reconciliation, unless the caller allows a recorded    *)
(* OUTCOME_UNKNOWN and that is what was recorded.                          *)
Reconcilable(k, allow) ==
  journal[k].result \in IF allow THEN {"NONE", "OUTCOME_UNKNOWN"} ELSE {"NONE"}

(* SqliteDispatchAdmissionStore.reconcile_admitted: the fence must be      *)
(* current, its expiry is not looked at.                                   *)
ReconcileAdmitted(k, g, f, o, allow) ==
  /\ f.token = k[2]
  /\ Reconcilable(k, allow)
  /\ Latest(journal[k].outcomes) \in {"NONE", "INDETERMINATE"}
  /\ work[k[1]].gen = g
  /\ work[k[1]].status \in {"CLAIMED", "RUNNING"}
  /\ Current(f)
  /\ o = "INDETERMINATE" => Len(journal[k].outcomes) < MaxNotes
  /\ journal' = Reconciled(k, o)
  /\ IF o = "NO_EFFECT_CONFIRMED"
       THEN /\ lease' = Released
            /\ work' = Moved(k[1], "FAILED_RETRYABLE")
       ELSE UNCHANGED <<lease, work>>
  /\ UNCHANGED <<now, budget>>

---------------------------------------------------------------------------
(* The work store (recursive_state.py): the fence is checked against the   *)
(* fingerprint's lease, not against the lineage it was granted to.         *)

(* SqliteRecursiveWorkStore.compare_and_swap_status *)
CompareAndSwapStatus(l, g, s, f, at) ==
  /\ work[l].status \in Status \ Terminal
  /\ work[l].gen = g
  /\ s \in AllowedTransitions[work[l].status] \cap LeaseBound
  /\ ActiveLease(f, at)
  /\ g < MaxGeneration
  /\ work' = Moved(l, s)
  /\ UNCHANGED <<now, lease, budget, journal>>

(* SqliteRecursiveWorkStore.finalize_terminal_status *)
FinalizeTerminalStatus(l, g, s, f, at) ==
  /\ work[l].status \in Status \ Terminal
  /\ work[l].gen = g
  /\ s \in AllowedTransitions[work[l].status] \cap Terminal
  /\ ActiveLease(f, at)
  /\ lease' = FinalizedLease(s)
  /\ work' = Moved(l, s)
  /\ UNCHANGED <<now, budget, journal>>

---------------------------------------------------------------------------
(* The lease store (persistent_state.py) *)

(* SqliteLeaseStore.claim *)
ClaimLease(h, at) ==
  /\ Claimable(at)
  /\ lease.token < MaxToken
  /\ lease' = GrantedTo(h, at)
  /\ UNCHANGED <<now, work, budget, journal>>

(* SqliteLeaseStore.heartbeat *)
Heartbeat(f, at) ==
  /\ ActiveLease(f, at)
  /\ lease' = Extended(at)
  /\ UNCHANGED <<now, work, budget, journal>>

(* SqliteLeaseStore.release *)
ReleaseLease(f, at) ==
  /\ ActiveLease(f, at)
  /\ lease' = Released
  /\ UNCHANGED <<now, work, budget, journal>>

(* SqliteLeaseStore.complete *)
CompleteLease(f, at) ==
  /\ ActiveLease(f, at)
  /\ lease' = LeaseCompleted
  /\ UNCHANGED <<now, work, budget, journal>>
---------------------------------------------------------------------------
(* The journaled callers: every process learnt its fence from the attempt  *)
(* it presents, by admission or from a recovery snapshot, and names that   *)
(* attempt's lineage.  run_durable_github_read_inspection, the promotion   *)
(* path, the claim bridge and recovery.py call the store in this way.  The *)
(* generations are any that the caller may have read, old ones included.   *)

Generations(l) == 0 .. work[l].gen

Admission(l) ==
  \E h \in Holder, at \in Readings :
    \/ \E wg \in Generations(l), bg \in 0 .. budget[l].gen : Admit(l, bg, wg, h, at)
    \/ RecoverClaimOnlyRoot(l, h, at)

Observation(k) ==
  \/ \E r \in Result : RecordResult(k, r)
  \/ RecordVerification(k)

Lifecycle(k) ==
  \E g \in Generations(k[1]), at \in Readings :
    \/ BeginVerification(k, g, FenceOf(k), at)
    \/ \E s \in Terminal : FinalizeTerminalVerification(k, g, FenceOf(k), s, at)
    \/ \E s \in LeaseBound : CompareAndSwapStatus(k[1], g, s, FenceOf(k), at)

Reconciliation(k) ==
  \E g \in Generations(k[1]), o \in Outcome, allow \in BOOLEAN :
    ReconcileAdmitted(k, g, FenceOf(k), o, allow)

Renewal(k) == \E at \in Readings : Heartbeat(FenceOf(k), at)

Next ==
  \/ Tick
  \/ \E l \in Lineage : InitializeRoot(l) \/ Admission(l)
  \/ \E k \in DOMAIN journal :
       Observation(k) \/ Lifecycle(k) \/ Reconciliation(k) \/ Renewal(k)

Spec == Init /\ [][Next]_vars

---------------------------------------------------------------------------
(* The open interface: besides the above, callers of the lease store that  *)
(* hold a fence no admission granted, and callers that present a fence for *)
(* any lineage, as the stores themselves allow.                            *)

IssuedFences ==
  {FenceOf(k) : k \in DOMAIN journal} \cup
  (IF lease.holder = NoHolder THEN {}
   ELSE {[holder |-> lease.holder, token |-> lease.token]})

LeaseStoreStep ==
  \E at \in Readings :
    \/ \E h \in Holder : ClaimLease(h, at)
    \/ \E f \in IssuedFences :
         Heartbeat(f, at) \/ ReleaseLease(f, at) \/ CompleteLease(f, at)

WorkStoreStep(l) ==
  \E f \in IssuedFences, g \in Generations(l), at \in Readings :
    \/ \E s \in LeaseBound : CompareAndSwapStatus(l, g, s, f, at)
    \/ \E s \in Terminal : FinalizeTerminalStatus(l, g, s, f, at)

OpenNext ==
  \/ Next
  \/ LeaseStoreStep
  \/ \E l \in Lineage :
       \/ PutInitialBudget(l)
       \/ \E s \in Status : PutInitialWork(l, s)
       \/ WorkStoreStep(l)

OpenSpec == Init /\ [][OpenNext]_vars

---------------------------------------------------------------------------
(* What recovery reads *)

(* SqliteDispatchAdmissionStore.unresolved_attempts: the phase of k *)
Phase(k) ==
  LET a == journal[k] IN
  CASE a.result = "NONE" -> IF Latest(a.outcomes) = "NO_EFFECT_CONFIRMED"
                              THEN "RESOLVED"
                            ELSE IF Latest(a.outcomes) = "EFFECT_CONFIRMED"
                              THEN "EFFECT_CONFIRMED"
                            ELSE "ADMITTED"
    [] a.result # "NONE" /\ a.verdicts = <<>> -> "RESULT_RECORDED"
    [] a.result # "NONE" /\ Latest(a.verdicts) = "OUTCOME_UNKNOWN" -> "OUTCOME_UNKNOWN"
    [] OTHER -> "RESOLVED"

(* Mutant of Unresolved: a confirmed effect counts as settled. *)
UnresolvedWithoutConfirmed ==
  {k \in DOMAIN journal : Phase(k) \notin {"RESOLVED", "EFFECT_CONFIRMED"}}

Unresolved == {k \in DOMAIN journal : Phase(k) # "RESOLVED"}

(* load_recovery_snapshots: fence_current and fence_live *)
FenceCurrent(k) == Current(FenceOf(k))
FenceLive(k, at) == FenceCurrent(k) /\ at < lease.expires

---------------------------------------------------------------------------
(* Properties *)

(* Every table holds well-formed rows. *)
TypeOK ==
  /\ now \in Nat
  /\ lease \in LeaseRow
  /\ work \in [Lineage -> WorkRow]
  /\ budget \in [Lineage -> BudgetRow]
  /\ DOMAIN journal \subseteq Lineage \X Nat
  /\ journal \in [DOMAIN journal -> Attempt]

Completed(l) == work[l].status = "COMPLETE"
Decided(k) == Latest(journal[k].verdicts) \in Terminal
NoEffect(k) == Latest(journal[k].outcomes) = "NO_EFFECT_CONFIRMED"

(* A fencing token names one attempt, whatever the lineages that share the *)
(* lease: admit and recover_claim_only_root never issue a token twice.     *)
FencesIdentifyAttempts ==
  \A k \in DOMAIN journal :
    /\ k[2] \in 1 .. lease.token
    /\ \A j \in DOMAIN journal : j[2] = k[2] => j = k

(* A held lease was granted by an admission that the journal knows: a      *)
(* crash between any two transactions leaves no owner without an attempt,  *)
(* so restart always finds who owned the fence.                            *)
HeldLeaseHasAttempt ==
  lease.holder # NoHolder =>
    \E k \in DOMAIN journal : FenceOf(k) = [holder |-> lease.holder, token |-> lease.token]

(* Recovery overlooks nothing: work that some attempt may still be acting  *)
(* on has its newest attempt among unresolved_attempts.                    *)
OpenWorkIsVisible ==
  \A l \in Lineage :
    work[l].status \in LeaseBound \ {"FAILED_RETRYABLE"} =>
      \E k \in AttemptsOf(l) : Newest(k) /\ k \in Unresolved

(* Terminal work, the terminal verification of its newest attempt and that *)
(* attempt's recorded result appear together or not at all.                *)
TerminalWorkIsEvidenced ==
  \A l \in Lineage :
    work[l].status \in Terminal =>
      \E k \in AttemptsOf(l) :
        /\ Newest(k)
        /\ journal[k].result # "NONE"
        /\ Latest(journal[k].verdicts) = work[l].status

(* An attempt decides its work only if no newer attempt of that lineage    *)
(* exists, now or later, and the decision is the work's status for good.   *)
VerdictDecides ==
  \A k \in DOMAIN journal :
    Decided(k) =>
      /\ work[k[1]].status = Latest(journal[k].verdicts)
      /\ Newest(k)

(* The lineages of one fingerprint share its completion: at most one is    *)
(* COMPLETE, and exactly when the lease says completed.                    *)
OneCompletion ==
  /\ lease.completed <=> \E l \in Lineage : Completed(l)
  /\ \A l, m \in Lineage : Completed(l) /\ Completed(m) => l = m

(* A fence reconciled as NO_EFFECT_CONFIRMED is dead: it is never again    *)
(* the current fence, its attempt is never decided, and no conclusive      *)
(* result is recorded for it.                                              *)
NoEffectIsFinal ==
  \A k \in DOMAIN journal :
    NoEffect(k) =>
      /\ ~FenceCurrent(k)
      /\ ~Decided(k)
      /\ journal[k].result # "CONCLUSIVE"

(* Quota is conserved: every backend job and active slot taken from the    *)
(* root budget is an admitted attempt of the lineage (re-fencing claim-    *)
(* only work admits under the same budget generation and takes nothing),   *)
(* and no admission is free.                                               *)
QuotaIsConserved ==
  \A l \in Lineage :
    LET admissions == Cardinality({journal[k].budgetGen : k \in AttemptsOf(l)}) IN
    budget[l].gen > 0 =>
      /\ budget[l].gen = 1 + admissions
      /\ budget[l].jobs = InitialBudget.jobs - admissions
      /\ budget[l].active = InitialBudget.active - admissions

(* Redispatch is paid for: after the first admission each further one took *)
(* a retry.                                                                *)
RetriesArePaid ==
  \A l \in Lineage :
    LET admissions == Cardinality({journal[k].budgetGen : k \in AttemptsOf(l)}) IN
    admissions > 0 => budget[l].retries = InitialBudget.retries - (admissions - 1)

(* A lease that no clock can see as expired is not taken from its holder,  *)
(* a new holder always comes with a higher token, and a completed lease    *)
(* stays completed.                                                        *)
LiveFenceIsNotStolen ==
  [][/\ lease.holder # NoHolder /\ now < lease.expires => lease'.token = lease.token
     /\ lease'.holder \notin {lease.holder, NoHolder} => lease'.token > lease.token
     /\ lease.completed => lease' = lease]_vars

(* Once no clock reading sees the newest fence as live, work moves only by *)
(* a new admission or re-fence, or because reconciliation freed it: a      *)
(* stale worker changes nothing.                                           *)
DeadFenceIsInert ==
  [][lease.expires + MaxLag <= now =>
       \A l \in Lineage : work'[l] # work[l] =>
         \/ work'[l].status = "PENDING"
         \/ work'[l].status = "CLAIMED" /\ lease'.token > lease.token
         \/ work'[l].status = "FAILED_RETRYABLE" /\ lease'.holder = NoHolder]_vars

(* A lineage's work never moves on the fence of another lineage, although  *)
(* they share the lease row.                                               *)
WorkMovesUnderOwnFence ==
  [][\A l \in Lineage :
       work[l].gen > 0 /\ work'[l] # work[l] =>
         <<l, lease'.token>> \in DOMAIN journal']_vars

(* The journal only grows: attempts keep their admission, a recorded       *)
(* result is never replaced, and nothing follows a terminal verification   *)
(* or a conclusive reconciliation.                                         *)
HistoryIsAppendOnly ==
  [][\A k \in DOMAIN journal :
       LET a == journal[k] b == journal'[k] IN
       /\ k \in DOMAIN journal'
       /\ a.result # "NONE" => b.result = a.result
       /\ IsPrefix(a.verdicts, b.verdicts)
       /\ Decided(k) => b.verdicts = a.verdicts
       /\ IsPrefix(a.outcomes, b.outcomes)
       /\ Latest(a.outcomes) \in {"NO_EFFECT_CONFIRMED", "EFFECT_CONFIRMED"} =>
            b.outcomes = a.outcomes]_vars

(* The store implements the log of fenced attempts. *)
Attempts ==
  INSTANCE FencedAttempts WITH
    granted <- [t \in 1 .. lease.token |-> CHOOSE l \in Lineage : <<l, t>> \in DOMAIN journal],
    decided <- [l \in Lineage |->
                  IF work[l].status \in Terminal THEN work[l].status ELSE "OPEN"]

ImplementsFencedAttempts == Attempts!Spec

---------------------------------------------------------------------------
(* A claim of the code's documentation that it does not keep *)

(* durable_dispatch.py, reconcile_admitted: "INDETERMINATE and             *)
(* EFFECT_CONFIRMED remain non-retryable": an attempt whose effect is      *)
(* confirmed is not followed by another admission of the same work.        *)
ConfirmedEffectIsNotRetried ==
  \A k \in DOMAIN journal :
    Latest(journal[k].outcomes) = "EFFECT_CONFIRMED" => Newest(k)
=============================================================================
