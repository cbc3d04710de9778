----------------------- MODULE DurableDispatchSafety -----------------------
(***************************************************************************)
(* The safety invariants of the durable store, proved for the open         *)
(* interface and so for the journaled callers.  The argument: every step   *)
(* leaves one of a few footprints on the lease, on the work rows and on    *)
(* the journal (LeaseMoves, WorkMoves, JournalMoves), and the inductive    *)
(* invariant Inv is preserved by any step with those footprints.           *)
(***************************************************************************)
EXTENDS DurableDispatchProofs

---------------------------------------------------------------------------
(* The inductive invariant *)

(* A row of recursive_work_state exists from generation 1 on. *)
Rooted == \A l \in Lineage : work[l].gen = 0 <=> work[l].status = "ABSENT"

(* NoEffectIsFinal strengthened: the fence of a NO_EFFECT_CONFIRMED        *)
(* attempt is behind the lease's token, or the lease has no holder and     *)
(* the next grant will leave it behind.                                    *)
DeadFences ==
  \A k \in DOMAIN journal :
    NoEffect(k) =>
      /\ k[2] < lease.token \/ lease.holder = NoHolder
      /\ ~Decided(k)
      /\ journal[k].result # "CONCLUSIVE"

Inv ==
  /\ TypeOK
  /\ Rooted
  /\ FencesIdentifyAttempts
  /\ VerdictDecides
  /\ DeadFences

---------------------------------------------------------------------------
(* Footprints *)

(* The lease moves one token at a time, never away from a live holder, and *)
(* never again once completed.                                             *)
LeaseMoves ==
  /\ lease'.token \in {lease.token, lease.token + 1}
  /\ lease.holder # NoHolder /\ now < lease.expires => lease'.token = lease.token
  /\ lease'.holder \notin {lease.holder, NoHolder} => lease'.token > lease.token
  /\ lease.completed => lease' = lease

(* One row of work moves at a time, never out of a terminal status, and,   *)
(* once it exists, to COMPLETE only together with the lease.               *)
WorkMoves ==
  \A l \in Lineage : work'[l] # work[l] =>
    /\ work[l].status \notin Terminal
    /\ work'[l].status \in Status
    /\ work'[l].gen > 0
    /\ work[l].gen > 0 /\ work'[l].status = "COMPLETE" =>
         ~lease.completed /\ lease'.completed
    /\ \A m \in Lineage : m # l => work'[m] = work[m]

(* k is the attempt of an admission made in this step. *)
Admitted(k) ==
  /\ k \in Lineage \X Nat
  /\ k[2] = lease.token + 1
  /\ lease'.token = lease.token + 1
  /\ work[k[1]].status \in Status \ Terminal
  /\ journal'[k].result = "NONE"
  /\ journal'[k].verdicts = <<>>
  /\ journal'[k].outcomes = <<>>

(* What a step may do to a row of the journal. *)
Noted(k) ==
  /\ journal'[k].verdicts # journal[k].verdicts =>
       /\ ~Decided(k)
       /\ journal'[k].outcomes = journal[k].outcomes
       /\ journal'[k].result = journal[k].result
       /\ \/ Latest(journal'[k].verdicts) = "OUTCOME_UNKNOWN"
          \/ /\ k[2] = lease.token
             /\ lease.holder # NoHolder
             /\ lease'.token = lease.token
             /\ work[k[1]].status \in Status \ Terminal
             /\ work'[k[1]].status = Latest(journal'[k].verdicts)
  /\ journal'[k].outcomes # journal[k].outcomes =>
       /\ ~NoEffect(k)
       /\ journal'[k].verdicts = journal[k].verdicts
       /\ Latest(journal'[k].outcomes) = "NO_EFFECT_CONFIRMED" =>
            /\ k[2] < lease'.token \/ lease'.holder = NoHolder
            /\ work[k[1]].status \in Status \ Terminal
            /\ journal'[k].result # "CONCLUSIVE"
  /\ journal'[k].result # journal[k].result =>
       /\ ~NoEffect(k)
       /\ journal'[k].outcomes = journal[k].outcomes
       /\ journal'[k].verdicts = journal[k].verdicts

JournalMoves ==
  /\ DOMAIN journal \subseteq DOMAIN journal'
  /\ \A k \in DOMAIN journal' \ DOMAIN journal : Admitted(k)
  /\ \A j, k \in DOMAIN journal' \ DOMAIN journal : j = k
  /\ \A k \in DOMAIN journal : Noted(k)

Footprint == LeaseMoves /\ WorkMoves /\ JournalMoves

---------------------------------------------------------------------------
(* Every step leaves a footprint *)

LEMMA JournalStays ==
  ASSUME journal' = journal
  PROVE  JournalMoves
  BY DEF JournalMoves, Noted

LEMMA TransitionType ==
  ASSUME NEW s \in Status, NEW t \in AllowedTransitions[s]
  PROVE  s \notin Terminal /\ t \in Status
  BY DEF AllowedTransitions, Status, LeaseBound, Terminal, Failing

(* A fence that is current is the newest token, of a held lease that is    *)
(* not completed.                                                          *)
LEMMA CurrentMeans ==
  ASSUME NEW f \in Fence, Current(f)
  PROVE  f.token = lease.token /\ lease.holder # NoHolder /\ ~lease.completed
  BY ParameterAssumption DEF Current, Fence

(* A lease that may be taken is not live at any clock up to now.           *)
LEMMA ClaimableMeans ==
  ASSUME TypeOK, NEW at \in Readings, Claimable(at)
  PROVE  /\ ~lease.completed
         /\ lease.holder = NoHolder \/ lease.expires <= now
  BY DEF TypeOK, LeaseRow, Readings, Claimable

LEMMA GrantMoves ==
  ASSUME TypeOK, NEW h \in Holder, NEW at \in Readings, Claimable(at),
         lease' = GrantedTo(h, at)
  PROVE  LeaseMoves /\ lease'.token = lease.token + 1
<1>1. lease'.token = lease.token + 1 /\ lease.token \in Nat
  BY LeaseWrites DEF TypeOK, LeaseRow
<1>2. now \in Nat /\ lease.expires \in Nat
  BY DEF TypeOK, LeaseRow
<1> QED BY <1>1, <1>2, ClaimableMeans DEF LeaseMoves

(* Releasing, extending, completing or finalizing a current lease.         *)
LEMMA KeepMoves ==
  ASSUME TypeOK, lease'.token = lease.token, lease'.holder \in {lease.holder, NoHolder},
         ~lease.completed \/ lease' = lease
  PROVE  LeaseMoves
  BY DEF LeaseMoves, TypeOK, LeaseRow

LEMMA OneWorkMoves ==
  ASSUME TypeOK, NEW l \in Lineage, NEW s \in Status, work' = Moved(l, s),
         work[l].status \notin Terminal,
         s = "COMPLETE" => ~lease.completed /\ lease'.completed
  PROVE  WorkMoves
<1>1. work[l].gen + 1 > 0
  BY DEF TypeOK, WorkRow
<1>2. work'[l] = [status |-> s, gen |-> work[l].gen + 1]
  BY MovedType
<1>3. work'[l].status = s /\ work'[l].gen > 0
  BY <1>1, <1>2
<1>4. \A m \in Lineage : m # l => work'[m] = work[m]
  BY MovedType
<1> QED BY <1>3, <1>4 DEF WorkMoves

LEMMA WorkStays ==
  ASSUME work' = work
  PROVE  WorkMoves
  BY DEF WorkMoves

(* The journal after an admission into a journal whose rows are f.         *)
LEMMA InsertMoves ==
  ASSUME TypeOK, FencesIdentifyAttempts, NEW l \in Lineage, NEW e \in Attempt,
         NEW f \in [DOMAIN journal -> Attempt],
         journal' = Insert(f, <<l, NextToken>>, e)
  PROVE  /\ DOMAIN journal' = DOMAIN journal \cup {<<l, NextToken>>}
         /\ <<l, NextToken>> \notin DOMAIN journal
         /\ journal'[<<l, NextToken>>] = e
         /\ \A j \in DOMAIN journal : journal'[j] = f[j]
<1> DEFINE key == <<l, NextToken>>
<1>1. key \in Lineage \X Nat /\ key[2] = lease.token + 1 /\ lease.token \in Nat
  BY DEF NextToken, TypeOK, LeaseRow
<1>2. key \notin DOMAIN journal
  BY <1>1 DEF FencesIdentifyAttempts
<1>3. f \in [DOMAIN f -> Attempt] /\ DOMAIN f \subseteq Lineage \X Nat /\ DOMAIN f = DOMAIN journal
  BY DEF TypeOK
<1> HIDE DEF key
<1>4. /\ DOMAIN Insert(f, key, e) = DOMAIN f \cup {key}
      /\ Insert(f, key, e)[key] = e
      /\ \A j \in DOMAIN f : j # key => Insert(f, key, e)[j] = f[j]
  BY <1>1, <1>3, InsertType
<1> QED BY <1>2, <1>3, <1>4 DEF key

(* Appending a note to a list of notes changes its last element.           *)
LEMMA VerdictAppend ==
  ASSUME TypeOK, NEW k \in DOMAIN journal, NEW s \in {"OUTCOME_UNKNOWN"} \cup Terminal
  PROVE  Latest(Append(journal[k].verdicts, s)) = s
  BY LatestAppend DEF TypeOK, Attempt

LEMMA OutcomeAppend ==
  ASSUME TypeOK, NEW k \in DOMAIN journal, NEW o \in Outcome
  PROVE  Latest(Append(journal[k].outcomes, o)) = o
  BY LatestAppend DEF TypeOK, Attempt

(* An attempt is not yet decided while its verifications are inconclusive. *)
LEMMA UnverifiedMeans ==
  ASSUME NEW k, Unverified(k)
  PROVE  ~Decided(k)
  BY DEF Unverified, Decided, Terminal

(* The footprint of an admission into the rows f, which at most note       *)
(* NO_EFFECT_CONFIRMED on the attempt that held the lease's token.         *)
LEMMA AdmittedMoves ==
  ASSUME TypeOK, FencesIdentifyAttempts,
         NEW l \in Lineage, NEW h \in Holder, NEW bg \in Nat, NEW wg \in Nat,
         NEW f \in [DOMAIN journal -> Attempt],
         journal' = Insert(f, <<l, NextToken>>, NewAttempt(h, bg, wg)),
         lease'.token = lease.token + 1,
         work[l].status \in Status \ Terminal,
         \A j \in DOMAIN journal : journal'[j] = f[j] => Noted(j)
  PROVE  JournalMoves
<1> DEFINE key == <<l, NextToken>>
           e == NewAttempt(h, bg, wg)
<1>1. e \in Attempt /\ e.result = "NONE" /\ e.verdicts = <<>> /\ e.outcomes = <<>>
  BY NewAttemptType DEF NewAttempt
<1>2. key \in Lineage \X Nat /\ key[1] = l /\ key[2] = lease.token + 1
  BY DEF NextToken, TypeOK, LeaseRow
<1>3. /\ DOMAIN journal' = DOMAIN journal \cup {key}
      /\ journal'[key] = e
      /\ \A j \in DOMAIN journal : journal'[j] = f[j]
  BY <1>1, InsertMoves
<1> HIDE DEF key, e
<1>4. Admitted(key)
  BY <1>1, <1>2, <1>3 DEF Admitted
<1> QED BY <1>3, <1>4 DEF JournalMoves

(* Every operation of the store leaves one of the footprints. *)
LEMMA StepFootprint ==
  ASSUME TypeOK, Rooted, FencesIdentifyAttempts, OpenNext
  PROVE  Footprint
<1>1. CASE Tick
  <2>1. LeaseMoves
    BY <1>1, KeepMoves DEF Tick
  <2> QED BY <1>1, <2>1, WorkStays, JournalStays DEF Tick, Footprint
<1>2. ASSUME NEW l \in Lineage, NEW s \in Status,
             InitializeRoot(l) \/ PutInitialBudget(l) \/ PutInitialWork(l, s)
      PROVE  Footprint
  <2>1. LeaseMoves /\ JournalMoves
    BY <1>2, KeepMoves, JournalStays DEF InitializeRoot, PutInitialBudget, PutInitialWork
  <2>2. ASSUME NEW t \in Status,
               work[l].gen = 0, work' = [work EXCEPT ![l] = [status |-> t, gen |-> 1]]
        PROVE  WorkMoves
    <3>1. work[l].status \notin Terminal
      BY <2>2 DEF Rooted, Terminal
    <3>2. work'[l].status = t /\ work'[l].gen = 1
          /\ \A m \in Lineage : m # l => work'[m] = work[m]
      BY <2>2 DEF TypeOK
    <3> QED BY <2>2, <3>1, <3>2 DEF WorkMoves
  <2>3. "PENDING" \in Status
    BY DEF Status
  <2> QED BY <1>2, <2>1, <2>2, <2>3, WorkStays
      DEF InitializeRoot, PutInitialBudget, PutInitialWork, Footprint
<1>3. ASSUME NEW l \in Lineage, NEW bg \in Nat, NEW wg \in Nat, NEW h \in Holder,
             NEW at \in Readings, Admit(l, bg, wg, h, at)
      PROVE  Footprint
  <2>1. LeaseMoves /\ lease'.token = lease.token + 1
    BY <1>3, GrantMoves DEF Admit
  <2>2. work[l].status \in Status \ Terminal
    BY <1>3, TransitionType DEF Admit
  <2>3. WorkMoves
    BY <1>3, <2>2, OneWorkMoves DEF Admit, Status, LeaseBound
  <2>4. journal' = Insert(journal, <<l, NextToken>>, NewAttempt(h, bg + 1, wg + 1))
    BY <1>3 DEF Admit
  <2>5. \A j \in DOMAIN journal : journal'[j] = journal[j] => Noted(j)
    BY DEF Noted
  <2>6. journal \in [DOMAIN journal -> Attempt] /\ bg + 1 \in Nat /\ wg + 1 \in Nat
    BY DEF TypeOK
  <2>7. JournalMoves
    BY ONLY TypeOK, FencesIdentifyAttempts, <2>1, <2>2, <2>4, <2>5, <2>6, AdmittedMoves
  <2> QED BY <2>1, <2>3, <2>7 DEF Footprint
<1>4. ASSUME NEW l \in Lineage, NEW h \in Holder, NEW at \in Readings,
             RefenceClaimedRoot(l, h, at)
      PROVE  Footprint
  <2> DEFINE fresh == NewAttempt(h, budget[l].gen, work[l].gen + 1)
  <2>1. PICK k \in DOMAIN journal :
          /\ k[1] = l /\ k[2] = lease.token
          /\ journal[k].result = "NONE" /\ journal[k].outcomes = <<>>
          /\ Claimable(at)
          /\ journal' = Insert(Reconciled(k, "NO_EFFECT_CONFIRMED"), <<l, NextToken>>, fresh)
    BY <1>4 DEF RefenceClaimedRoot, AttemptsOf
  <2>2. LeaseMoves /\ lease'.token = lease.token + 1
    BY <1>4, <2>1, GrantMoves DEF RefenceClaimedRoot
  <2>3. work[l].status \in Status \ Terminal
    BY <1>4 DEF RefenceClaimedRoot, Status, LeaseBound, Terminal
  <2>4. WorkMoves
    BY <1>4, <2>3, OneWorkMoves DEF RefenceClaimedRoot
  <2>5. budget[l].gen \in Nat /\ work[l].gen + 1 \in Nat /\ lease.token \in Nat
    BY DEF TypeOK, BudgetRow, WorkRow, LeaseRow
  <2> DEFINE noted == Reconciled(k, "NO_EFFECT_CONFIRMED")
  <2>6. /\ noted \in [DOMAIN journal -> Attempt]
        /\ noted[k].result = "NONE"
        /\ noted[k].verdicts = journal[k].verdicts
        /\ \A j \in DOMAIN journal : j # k => noted[j] = journal[j]
    BY <2>1, JournalWrites DEF Outcome
  <2>7. \A j \in DOMAIN journal : journal'[j] = noted[j] => Noted(j)
    <3>1. ~NoEffect(k)
      BY <2>1 DEF NoEffect, Latest
    <3> HIDE DEF noted
    <3> QED BY <3>1, <2>1, <2>2, <2>3, <2>5, <2>6 DEF Noted
  <2>8. JournalMoves
    <3> HIDE DEF noted
    <3>1. journal' = Insert(noted, <<l, NextToken>>, NewAttempt(h, budget[l].gen, work[l].gen + 1))
      BY <2>1 DEF noted
    <3> QED BY ONLY TypeOK, FencesIdentifyAttempts, <3>1, <2>2, <2>3, <2>5, <2>6, <2>7, AdmittedMoves
  <2> QED BY <2>2, <2>4, <2>8 DEF Footprint
<1>5. ASSUME NEW k \in DOMAIN journal, NEW r \in Result, RecordResult(k, r)
      PROVE  Footprint
  <2>1. LeaseMoves /\ WorkMoves
    BY <1>5, KeepMoves, WorkStays DEF RecordResult
  <2>2. ~NoEffect(k) /\ journal' = Recorded(k, r)
    BY <1>5 DEF RecordResult, NoEffect
  <2>3. /\ DOMAIN journal' = DOMAIN journal
        /\ journal'[k].verdicts = journal[k].verdicts
        /\ journal'[k].outcomes = journal[k].outcomes
        /\ \A j \in DOMAIN journal : j # k => journal'[j] = journal[j]
    BY <2>2, JournalWrites
  <2>4. JournalMoves
    BY <2>2, <2>3 DEF JournalMoves, Noted
  <2> QED BY <2>1, <2>4 DEF Footprint
<1>6. ASSUME NEW k \in DOMAIN journal, RecordVerification(k)
      PROVE  Footprint
  <2>1. LeaseMoves /\ WorkMoves
    BY <1>6, KeepMoves, WorkStays DEF RecordVerification
  <2>2. ~Decided(k) /\ journal' = Verified(k, "OUTCOME_UNKNOWN")
    BY <1>6, UnverifiedMeans DEF RecordVerification
  <2>3. /\ DOMAIN journal' = DOMAIN journal
        /\ journal'[k].verdicts = Append(journal[k].verdicts, "OUTCOME_UNKNOWN")
        /\ journal'[k].outcomes = journal[k].outcomes
        /\ journal'[k].result = journal[k].result
        /\ \A j \in DOMAIN journal : j # k => journal'[j] = journal[j]
    BY <2>2, JournalWrites
  <2>4. Latest(journal'[k].verdicts) = "OUTCOME_UNKNOWN"
    BY <2>3, VerdictAppend
  <2>5. JournalMoves
    BY <2>2, <2>3, <2>4 DEF JournalMoves, Noted
  <2> QED BY <2>1, <2>5 DEF Footprint
<1>7. ASSUME NEW k \in DOMAIN journal, NEW g \in Nat, NEW f \in Fence, NEW at \in Readings,
             BeginVerification(k, g, f, at)
      PROVE  Footprint
  <2>1. LeaseMoves /\ JournalMoves
    BY <1>7, KeepMoves, JournalStays DEF BeginVerification
  <2>2. k[1] \in Lineage /\ "VERIFYING" \in Status /\ work[k[1]].status \notin Terminal
    BY <1>7, FenceType DEF BeginVerification, Status, LeaseBound, Terminal
  <2>3. work' = Moved(k[1], "VERIFYING")
    BY <1>7 DEF BeginVerification
  <2>4. WorkMoves
    BY <2>2, <2>3, OneWorkMoves
  <2> QED BY <2>1, <2>4 DEF Footprint
<1>8. ASSUME NEW k \in DOMAIN journal, NEW g \in Nat, NEW f \in Fence, NEW s \in Terminal,
             NEW at \in Readings, FinalizeTerminalVerification(k, g, f, s, at)
      PROVE  Footprint
  <2> DEFINE l == k[1]
  <2>1. /\ Current(f) /\ f.token = k[2] /\ lease' = FinalizedLease(s)
        /\ work' = Moved(l, s) /\ journal' = Verified(k, s)
        /\ work[l].status \in Status \ Terminal /\ ~Decided(k)
    BY <1>8, UnverifiedMeans DEF FinalizeTerminalVerification, ActiveLease
  <2>2. lease.token = k[2] /\ lease.holder # NoHolder /\ ~lease.completed
    BY <2>1, CurrentMeans
  <2>3. LeaseMoves /\ lease'.token = lease.token
    BY <2>1, <2>2, FinalizedWrites, KeepMoves
  <2>4. l \in Lineage /\ s \in Status
    BY FenceType DEF Status
  <2>5. s = "COMPLETE" => lease'.completed
    BY <2>1, FinalizedWrites
  <2>6. WorkMoves
    BY <2>1, <2>2, <2>4, <2>5, OneWorkMoves
  <2>7. work'[l].status = s
    <3>1. work'[l] = [status |-> s, gen |-> work[l].gen + 1]
      BY <2>1, <2>4, MovedType
    <3> QED BY <3>1
  <2>8. /\ DOMAIN journal' = DOMAIN journal
        /\ journal'[k].verdicts = Append(journal[k].verdicts, s)
        /\ journal'[k].outcomes = journal[k].outcomes
        /\ journal'[k].result = journal[k].result
        /\ \A j \in DOMAIN journal : j # k => journal'[j] = journal[j]
    <3>1. s \in {"OUTCOME_UNKNOWN"} \cup Terminal /\ journal' = Verified(k, s)
      BY <2>1
    <3> QED BY <3>1, JournalWrites
  <2>9. Latest(journal'[k].verdicts) = s
    BY <2>8, VerdictAppend
  <2>10. JournalMoves
    BY <2>1, <2>2, <2>3, <2>7, <2>8, <2>9 DEF JournalMoves, Noted
  <2> QED BY <2>3, <2>6, <2>10 DEF Footprint
<1>9. ASSUME NEW k \in DOMAIN journal, NEW g \in Nat, NEW f \in Fence, NEW o \in Outcome,
             NEW allow \in BOOLEAN, ReconcileAdmitted(k, g, f, o, allow)
      PROVE  Footprint
  <2> DEFINE l == k[1]
  <2>1. /\ Current(f) /\ journal' = Reconciled(k, o)
        /\ work[l].status \in Status \ Terminal
        /\ journal[k].result # "CONCLUSIVE" /\ ~NoEffect(k)
    BY <1>9 DEF ReconcileAdmitted, Reconcilable, NoEffect, Status, LeaseBound, Terminal
  <2>2. ~lease.completed
    BY <2>1, CurrentMeans
  <2>3. LeaseMoves /\ (o = "NO_EFFECT_CONFIRMED" => lease'.holder = NoHolder)
    BY <1>9, <2>2, LeaseWrites, KeepMoves DEF ReconcileAdmitted
  <2>4. l \in Lineage /\ "FAILED_RETRYABLE" \in Status
    BY FenceType DEF Status, LeaseBound
  <2>5. WorkMoves
    <3>1. CASE o = "NO_EFFECT_CONFIRMED"
      <4>1. work' = Moved(l, "FAILED_RETRYABLE")
        BY <1>9, <3>1 DEF ReconcileAdmitted
      <4> QED BY <4>1, <2>1, <2>4, OneWorkMoves
    <3>2. CASE o # "NO_EFFECT_CONFIRMED"
      BY <1>9, <3>2, WorkStays DEF ReconcileAdmitted
    <3> QED BY <3>1, <3>2
  <2>6. /\ DOMAIN journal' = DOMAIN journal
        /\ journal'[k].outcomes = Append(journal[k].outcomes, o)
        /\ journal'[k].verdicts = journal[k].verdicts
        /\ journal'[k].result = journal[k].result
        /\ \A j \in DOMAIN journal : j # k => journal'[j] = journal[j]
    BY <2>1, JournalWrites
  <2>7. Latest(journal'[k].outcomes) = o
    BY <2>6, OutcomeAppend
  <2>8. JournalMoves
    BY <2>1, <2>3, <2>6, <2>7 DEF JournalMoves, Noted
  <2> QED BY <2>3, <2>5, <2>8 DEF Footprint
<1>10. ASSUME NEW l \in Lineage, NEW g \in Nat, NEW s \in LeaseBound, NEW f \in Fence,
              NEW at \in Readings, CompareAndSwapStatus(l, g, s, f, at)
       PROVE  Footprint
  <2>1. LeaseMoves /\ JournalMoves
    BY <1>10, KeepMoves, JournalStays DEF CompareAndSwapStatus
  <2>2. s \in Status /\ s # "COMPLETE" /\ work[l].status \notin Terminal
    BY <1>10 DEF CompareAndSwapStatus, Status, LeaseBound
  <2>3. WorkMoves
    BY <1>10, <2>2, OneWorkMoves DEF CompareAndSwapStatus
  <2> QED BY <2>1, <2>3 DEF Footprint
<1>11. ASSUME NEW l \in Lineage, NEW g \in Nat, NEW s \in Terminal, NEW f \in Fence,
              NEW at \in Readings, FinalizeTerminalStatus(l, g, s, f, at)
       PROVE  Footprint
  <2>1. /\ Current(f) /\ lease' = FinalizedLease(s) /\ work' = Moved(l, s)
        /\ work[l].status \notin Terminal /\ journal' = journal
    BY <1>11 DEF FinalizeTerminalStatus, ActiveLease
  <2>2. ~lease.completed
    BY <2>1, CurrentMeans
  <2>3. LeaseMoves
    BY <2>1, <2>2, FinalizedWrites, KeepMoves
  <2>4. s \in Status /\ (s = "COMPLETE" => lease'.completed)
    BY <2>1, FinalizedWrites DEF Status
  <2>5. WorkMoves
    BY <2>1, <2>2, <2>4, OneWorkMoves
  <2> QED BY <2>1, <2>3, <2>5, JournalStays DEF Footprint
<1>12. ASSUME NEW h \in Holder, NEW at \in Readings, ClaimLease(h, at)
       PROVE  Footprint
  BY <1>12, GrantMoves, WorkStays, JournalStays DEF ClaimLease, Footprint
<1>13. ASSUME NEW f \in Fence, NEW at \in Readings,
              Heartbeat(f, at) \/ ReleaseLease(f, at) \/ CompleteLease(f, at)
       PROVE  Footprint
  <2>1. Current(f) /\ work' = work /\ journal' = journal
    BY <1>13 DEF Heartbeat, ReleaseLease, CompleteLease, ActiveLease
  <2>2. ~lease.completed
    BY <2>1, CurrentMeans
  <2>3. lease'.token = lease.token /\ lease'.holder \in {lease.holder, NoHolder}
    BY <1>13, LeaseWrites DEF Heartbeat, ReleaseLease, CompleteLease
  <2> QED BY <2>1, <2>2, <2>3, KeepMoves, WorkStays, JournalStays DEF Footprint
<1>14. "PENDING" \in Status
  BY DEF Status
<1> QED BY OpenNextCases, <1>1, <1>2, <1>3, <1>4, <1>5, <1>6, <1>7, <1>8, <1>9, <1>10,
           <1>11, <1>12, <1>13, <1>14

---------------------------------------------------------------------------
(* Footprints preserve the inductive invariant *)

(* The tables are empty at first. *)
LEMMA InitInv == Init => Inv
<1> SUFFICES ASSUME Init PROVE Inv
  OBVIOUS
<1>1. TypeOK /\ DOMAIN journal = {}
  BY InitTypeOK DEF Init
<1>2. \A l \in Lineage : work[l].gen = 0 /\ work[l].status = "ABSENT"
  BY DEF Init
<1>3. FencesIdentifyAttempts /\ VerdictDecides /\ DeadFences
  BY <1>1 DEF FencesIdentifyAttempts, VerdictDecides, DeadFences
<1>4. Rooted
  BY <1>2 DEF Rooted
<1> QED BY <1>1, <1>3, <1>4 DEF Inv

LEMMA KeepsRooted ==
  ASSUME TypeOK, Rooted, WorkMoves
  PROVE  Rooted'
<1> SUFFICES ASSUME NEW l \in Lineage
             PROVE  work'[l].gen = 0 <=> work'[l].status = "ABSENT"
  BY DEF Rooted
<1>1. CASE work'[l] = work[l]
  BY <1>1 DEF Rooted
<1>2. CASE work'[l] # work[l]
  <2>1. work'[l].status \in Status /\ work'[l].gen > 0
    BY <1>2 DEF WorkMoves
  <2>2. "ABSENT" \notin Status
    BY DEF Status, LeaseBound, Terminal
  <2> QED BY <2>1, <2>2
<1> QED BY <1>1, <1>2

(* Tokens of old attempts stay within the lease's, and the one new attempt *)
(* gets the next token.                                                    *)
LEMMA KeepsFences ==
  ASSUME TypeOK, FencesIdentifyAttempts, LeaseMoves, JournalMoves
  PROVE  FencesIdentifyAttempts'
<1>1. lease.token \in Nat /\ lease'.token \in {lease.token, lease.token + 1}
  BY DEF TypeOK, LeaseRow, LeaseMoves
<1>2. \A k \in DOMAIN journal : k[2] \in 1 .. lease.token
  BY DEF FencesIdentifyAttempts
<1>3. \A k \in DOMAIN journal' \ DOMAIN journal :
        k[2] = lease.token + 1 /\ lease'.token = lease.token + 1
  BY DEF JournalMoves, Admitted
<1>4. \A k \in DOMAIN journal' : k[2] \in 1 .. lease'.token
  BY <1>1, <1>2, <1>3
<1>5. ASSUME NEW j \in DOMAIN journal', NEW k \in DOMAIN journal', j[2] = k[2]
      PROVE  j = k
  <2>1. CASE j \in DOMAIN journal /\ k \in DOMAIN journal
    BY <1>5, <2>1 DEF FencesIdentifyAttempts
  <2>2. CASE j \notin DOMAIN journal /\ k \notin DOMAIN journal
    BY <2>2 DEF JournalMoves
  <2>3. CASE j \in DOMAIN journal /\ k \notin DOMAIN journal
    BY <1>1, <1>2, <1>3, <1>5, <2>3
  <2>4. CASE j \notin DOMAIN journal /\ k \in DOMAIN journal
    BY <1>1, <1>2, <1>3, <1>5, <2>4
  <2> QED BY <2>1, <2>2, <2>3, <2>4
<1> QED BY <1>4, <1>5 DEF FencesIdentifyAttempts

(* A verdict is reached by the newest attempt, on work that was open; from *)
(* then on no attempt of the lineage is admitted and its work stays.       *)
LEMMA KeepsVerdicts ==
  ASSUME TypeOK, TypeOK', FencesIdentifyAttempts, FencesIdentifyAttempts',
         VerdictDecides, Footprint
  PROVE  VerdictDecides'
<1> USE DEF Footprint
<1> SUFFICES ASSUME NEW k \in DOMAIN journal', Decided(k)'
             PROVE  /\ work'[k[1]].status = Latest(journal'[k].verdicts)
                    /\ Newest(k)'
  BY DEF VerdictDecides
<1>1. k[1] \in Lineage /\ k[2] \in Nat
  BY DEF TypeOK
<1>2. k \in DOMAIN journal
  <2>1. "NONE" \notin Terminal
    BY DEF Terminal
  <2> QED BY <2>1 DEF JournalMoves, Admitted, Decided, Latest
<1>3. Noted(k)
  BY <1>2 DEF JournalMoves
<1>4. CASE journal'[k].verdicts = journal[k].verdicts
  <2>1. Decided(k)
    BY <1>4 DEF Decided
  <2>2. work[k[1]].status = Latest(journal[k].verdicts) /\ Newest(k)
    BY <1>2, <2>1 DEF VerdictDecides
  <2>3. work[k[1]].status \in Terminal
    BY <2>1, <2>2 DEF Decided
  <2>4. work'[k[1]] = work[k[1]]
    BY <1>1, <2>3 DEF WorkMoves
  <2>5. \A j \in DOMAIN journal' \ DOMAIN journal : j[1] # k[1]
    BY <2>3 DEF JournalMoves, Admitted
  <2>6. Newest(k)'
    BY <2>2, <2>5 DEF Newest, AttemptsOf
  <2> QED BY <1>4, <2>2, <2>4, <2>6
<1>5. CASE journal'[k].verdicts # journal[k].verdicts
  <2>1. /\ k[2] = lease.token
        /\ lease'.token = lease.token
        /\ work'[k[1]].status = Latest(journal'[k].verdicts)
    <3>1. "OUTCOME_UNKNOWN" \notin Terminal
      BY DEF Terminal
    <3> QED BY <1>3, <1>5, <3>1 DEF Noted, Decided
  <2>2. \A j \in DOMAIN journal' : j[2] \in 1 .. lease'.token
    BY DEF FencesIdentifyAttempts
  <2>3. Newest(k)'
    BY <1>1, <2>1, <2>2 DEF Newest, AttemptsOf
  <2> QED BY <2>1, <2>3
<1> QED BY <1>4, <1>5

(* A NO_EFFECT_CONFIRMED fence stays behind, and only a current fence      *)
(* decides.                                                                *)
LEMMA KeepsDeadFences ==
  ASSUME TypeOK, TypeOK', FencesIdentifyAttempts, VerdictDecides, DeadFences, Footprint
  PROVE  DeadFences'
<1> USE DEF Footprint
<1> SUFFICES ASSUME NEW k \in DOMAIN journal', NoEffect(k)'
             PROVE  /\ k[2] < lease'.token \/ lease'.holder = NoHolder
                    /\ ~Decided(k)'
                    /\ journal'[k].result # "CONCLUSIVE"
  BY DEF DeadFences
<1>1. k \in DOMAIN journal
  BY DEF JournalMoves, Admitted, NoEffect, Latest
<1>2. k[1] \in Lineage /\ k[2] \in Nat /\ lease.token \in Nat /\ k[2] <= lease.token
  BY <1>1 DEF TypeOK, LeaseRow, FencesIdentifyAttempts
<1>3. Noted(k)
  BY <1>1 DEF JournalMoves
<1>4. CASE journal'[k].outcomes = journal[k].outcomes
  <2>1. NoEffect(k)
    BY <1>4 DEF NoEffect
  <2>2. /\ k[2] < lease.token \/ lease.holder = NoHolder
        /\ ~Decided(k)
        /\ journal[k].result # "CONCLUSIVE"
    BY <1>1, <2>1 DEF DeadFences
  <2>3. k[2] < lease'.token \/ lease'.holder = NoHolder
    BY <1>2, <2>2 DEF LeaseMoves
  <2>4. journal'[k].result = journal[k].result
    BY <1>3, <2>1 DEF Noted
  <2>5. ~Decided(k)'
    <3>1. CASE journal'[k].verdicts = journal[k].verdicts
      BY <2>2, <3>1 DEF Decided
    <3>2. CASE journal'[k].verdicts # journal[k].verdicts
      <4>1. Latest(journal'[k].verdicts) = "OUTCOME_UNKNOWN"
        BY <1>2, <1>3, <2>2, <3>2 DEF Noted
      <4> QED BY <4>1 DEF Decided, Terminal
    <3> QED BY <3>1, <3>2
  <2> QED BY <2>2, <2>3, <2>4, <2>5
<1>5. CASE journal'[k].outcomes # journal[k].outcomes
  <2>1. /\ k[2] < lease'.token \/ lease'.holder = NoHolder
        /\ work[k[1]].status \in Status \ Terminal
        /\ journal'[k].result # "CONCLUSIVE"
        /\ journal'[k].verdicts = journal[k].verdicts
    BY <1>3, <1>5 DEF Noted, NoEffect
  <2>2. ~Decided(k)
    BY <1>1, <2>1 DEF VerdictDecides, Decided
  <2>3. ~Decided(k)'
    BY <2>1, <2>2 DEF Decided
  <2> QED BY <2>1, <2>3
<1> QED BY <1>4, <1>5

(* Every step of the open interface preserves the inductive invariant.     *)
LEMMA NextInv ==
  ASSUME Inv, [OpenNext]_vars
  PROVE  Inv'
<1> USE DEF Inv
<1>1. TypeOK'
  BY NextTypeOK
<1>2. CASE UNCHANGED vars
  BY <1>2 DEF vars, TypeOK, Rooted, FencesIdentifyAttempts, VerdictDecides,
              DeadFences, Decided, NoEffect, Newest, AttemptsOf
<1>3. CASE OpenNext
  <2>1. Footprint
    BY <1>3, StepFootprint
  <2>2. LeaseMoves /\ WorkMoves /\ JournalMoves
    BY <2>1 DEF Footprint
  <2>3. Rooted' /\ FencesIdentifyAttempts'
    BY <2>2, KeepsRooted, KeepsFences
  <2>4. VerdictDecides' /\ DeadFences'
    BY <1>1, <2>1, <2>3, KeepsVerdicts, KeepsDeadFences
  <2> QED BY <1>1, <2>3, <2>4
<1> QED BY <1>2, <1>3

(* The inductive invariant of the store holds under any caller.            *)
THEOREM OpenInvariant == OpenSpec => []Inv
  BY InitInv, NextInv, PTL DEF OpenSpec

---------------------------------------------------------------------------
(* The properties *)

(* A fencing token names one attempt, whatever processes call the stores.  *)
THEOREM FencesIdentify == OpenSpec => []FencesIdentifyAttempts
<1>1. Inv => FencesIdentifyAttempts
  BY DEF Inv
<1> QED BY <1>1, OpenInvariant, PTL

(* Only the newest attempt of a lineage decides its work, for good.        *)
THEOREM VerdictsDecide == OpenSpec => []VerdictDecides
<1>1. Inv => VerdictDecides
  BY DEF Inv
<1> QED BY <1>1, OpenInvariant, PTL

(* NO_EFFECT_CONFIRMED is final: its fence is never current again.         *)
THEOREM NoEffectStays == OpenSpec => []NoEffectIsFinal
<1>1. Inv => NoEffectIsFinal
  <2> SUFFICES ASSUME Inv, NEW k \in DOMAIN journal, NoEffect(k)
               PROVE  ~FenceCurrent(k) /\ ~Decided(k) /\ journal[k].result # "CONCLUSIVE"
    BY DEF NoEffectIsFinal
  <2>1. /\ k[2] < lease.token \/ lease.holder = NoHolder
        /\ ~Decided(k) /\ journal[k].result # "CONCLUSIVE"
    BY DEF Inv, DeadFences
  <2>2. FenceOf(k) \in Fence /\ FenceOf(k).token = k[2] /\ k[2] \in Nat
    BY FenceType DEF Inv, FenceOf
  <2>3. ~FenceCurrent(k)
    BY <2>1, <2>2, CurrentMeans DEF FenceCurrent
  <2> QED BY <2>1, <2>3
<1> QED BY <1>1, OpenInvariant, PTL

(* No call takes a live lease from its holder, and none reopens a          *)
(* completed one.                                                          *)
THEOREM LiveFenceStays == OpenSpec => LiveFenceIsNotStolen
<1>1. ASSUME Inv, [OpenNext]_vars
      PROVE  [/\ lease.holder # NoHolder /\ now < lease.expires => lease'.token = lease.token
              /\ lease'.holder \notin {lease.holder, NoHolder} => lease'.token > lease.token
              /\ lease.completed => lease' = lease]_vars
  <2>1. CASE UNCHANGED vars
    BY <2>1
  <2>2. CASE OpenNext
    <3>1. LeaseMoves
      BY <1>1, <2>2, StepFootprint DEF Inv, Footprint
    <3> QED BY <3>1 DEF LeaseMoves
  <2> QED BY <1>1, <2>1, <2>2
<1> QED BY <1>1, OpenInvariant, PTL DEF OpenSpec, LiveFenceIsNotStolen

(* The journaled callers run within the open interface, so all of the      *)
(* above holds of them.                                                    *)
THEOREM JournaledCallers == Spec => OpenSpec
  BY JournaledIsOpen, PTL DEF Spec, OpenSpec
=============================================================================
