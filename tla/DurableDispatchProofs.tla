----------------------- MODULE DurableDispatchProofs -----------------------
(***************************************************************************)
(* Proofs about the durable store, for every set of lineages and holders,  *)
(* every budget, ttl and clock lag, and every value of the bounds.         *)
(***************************************************************************)
EXTENDS DurableDispatch, TLAPS

(* The last element of a sequence belongs to the set of its elements. *)
LEMMA LatestType ==
  ASSUME NEW S, NEW s \in Seq(S)
  PROVE  Latest(s) \in S \cup {"NONE"}
  BY DEF Latest, Last

(* The last element after Append is the appended one. *)
LEMMA LatestAppend ==
  ASSUME NEW S, NEW s \in Seq(S), NEW e \in S
  PROVE  Append(s, e) \in Seq(S) /\ Latest(Append(s, e)) = e
  BY DEF Latest, Last

(* Init establishes the type invariant. *)
LEMMA InitTypeOK == Init => TypeOK
  BY ParameterAssumption DEF Init, TypeOK, LeaseRow, WorkRow, BudgetRow

(* Fences presented in a step are well formed. *)
LEMMA FenceType ==
  ASSUME TypeOK
  PROVE  /\ \A k \in DOMAIN journal : FenceOf(k) \in Fence /\ k[1] \in Lineage /\ k[2] \in Nat
         /\ \A f \in IssuedFences : f \in Fence
         /\ \A at \in Readings : at \in Nat
<1>1. \A k \in DOMAIN journal : FenceOf(k) \in Fence /\ k[1] \in Lineage /\ k[2] \in Nat
  BY DEF TypeOK, FenceOf, Fence, Attempt
<1>2. lease.holder # NoHolder => [holder |-> lease.holder, token |-> lease.token] \in Fence
  BY DEF TypeOK, LeaseRow, Fence
<1>3. \A at \in Readings : at \in Nat
  BY DEF TypeOK, Readings
<1> QED BY <1>1, <1>2, <1>3 DEF IssuedFences

(* Every step of the open interface, and so of the journaled callers, is   *)
(* one of the operations of the store with well-formed arguments.          *)
LEMMA OpenNextCases ==
  ASSUME TypeOK, OpenNext
  PROVE  \/ Tick
         \/ \E l \in Lineage :
              InitializeRoot(l) \/ PutInitialBudget(l)
         \/ \E l \in Lineage, s \in Status : PutInitialWork(l, s)
         \/ \E l \in Lineage, bg \in Nat, wg \in Nat, h \in Holder, at \in Readings :
              Admit(l, bg, wg, h, at)
         \/ \E l \in Lineage, h \in Holder, at \in Readings : RefenceClaimedRoot(l, h, at)
         \/ \E k \in DOMAIN journal, r \in Result : RecordResult(k, r)
         \/ \E k \in DOMAIN journal : RecordVerification(k)
         \/ \E k \in DOMAIN journal, g \in Nat, f \in Fence, at \in Readings :
              BeginVerification(k, g, f, at)
         \/ \E k \in DOMAIN journal, g \in Nat, f \in Fence, s \in Terminal, at \in Readings :
              FinalizeTerminalVerification(k, g, f, s, at)
         \/ \E k \in DOMAIN journal, g \in Nat, f \in Fence, o \in Outcome, allow \in BOOLEAN :
              ReconcileAdmitted(k, g, f, o, allow)
         \/ \E l \in Lineage, g \in Nat, s \in LeaseBound, f \in Fence, at \in Readings :
              CompareAndSwapStatus(l, g, s, f, at)
         \/ \E l \in Lineage, g \in Nat, s \in Terminal, f \in Fence, at \in Readings :
              FinalizeTerminalStatus(l, g, s, f, at)
         \/ \E h \in Holder, at \in Readings : ClaimLease(h, at)
         \/ \E f \in Fence, at \in Readings :
              Heartbeat(f, at) \/ ReleaseLease(f, at) \/ CompleteLease(f, at)
<1> USE FenceType
<1>1. \A l \in Lineage : Generations(l) \subseteq Nat /\ 0 .. budget[l].gen \subseteq Nat
  BY DEF Generations, TypeOK, WorkRow, BudgetRow
<1>2. CASE Tick
  BY <1>2
<1>3. ASSUME NEW l \in Lineage,
             \/ InitializeRoot(l) \/ PutInitialBudget(l)
             \/ \E s \in Status : PutInitialWork(l, s)
      PROVE  \/ \E m \in Lineage : InitializeRoot(m) \/ PutInitialBudget(m)
             \/ \E m \in Lineage, s \in Status : PutInitialWork(m, s)
  BY <1>3
<1>4. ASSUME NEW l \in Lineage, Admission(l)
      PROVE  \/ \E m \in Lineage, bg \in Nat, wg \in Nat, h \in Holder, at \in Readings :
                  Admit(m, bg, wg, h, at)
             \/ \E m \in Lineage, h \in Holder, at \in Readings : RefenceClaimedRoot(m, h, at)
  BY <1>1, <1>4 DEF Admission, RecoverClaimOnlyRoot, ResumePendingRoot
<1>5. ASSUME NEW k \in DOMAIN journal, Observation(k)
      PROVE  \/ \E j \in DOMAIN journal, r \in Result : RecordResult(j, r)
             \/ \E j \in DOMAIN journal : RecordVerification(j)
  BY <1>5 DEF Observation
<1>6. ASSUME NEW k \in DOMAIN journal, Lifecycle(k)
      PROVE  \/ \E j \in DOMAIN journal, g \in Nat, f \in Fence, at \in Readings :
                  BeginVerification(j, g, f, at)
             \/ \E j \in DOMAIN journal, g \in Nat, f \in Fence, s \in Terminal, at \in Readings :
                  FinalizeTerminalVerification(j, g, f, s, at)
             \/ \E l \in Lineage, g \in Nat, s \in LeaseBound, f \in Fence, at \in Readings :
                  CompareAndSwapStatus(l, g, s, f, at)
  BY <1>1, <1>6 DEF Lifecycle
<1>7. ASSUME NEW k \in DOMAIN journal, Reconciliation(k)
      PROVE  \E j \in DOMAIN journal, g \in Nat, f \in Fence, o \in Outcome, allow \in BOOLEAN :
               ReconcileAdmitted(j, g, f, o, allow)
  BY <1>1, <1>7 DEF Reconciliation
<1>8. ASSUME NEW k \in DOMAIN journal, Renewal(k)
      PROVE  \E f \in Fence, at \in Readings : Heartbeat(f, at)
  BY <1>8 DEF Renewal
<1>9. ASSUME LeaseStoreStep
      PROVE  \/ \E h \in Holder, at \in Readings : ClaimLease(h, at)
             \/ \E f \in Fence, at \in Readings :
                  Heartbeat(f, at) \/ ReleaseLease(f, at) \/ CompleteLease(f, at)
  BY <1>9 DEF LeaseStoreStep
<1>10. ASSUME NEW l \in Lineage, WorkStoreStep(l)
       PROVE  \/ \E m \in Lineage, g \in Nat, s \in LeaseBound, f \in Fence, at \in Readings :
                   CompareAndSwapStatus(m, g, s, f, at)
              \/ \E m \in Lineage, g \in Nat, s \in Terminal, f \in Fence, at \in Readings :
                   FinalizeTerminalStatus(m, g, s, f, at)
  BY <1>1, <1>10 DEF WorkStoreStep
<1> HIDE FenceType
<1> QED BY <1>2, <1>3, <1>4, <1>5, <1>6, <1>7, <1>8, <1>9, <1>10 DEF OpenNext, Next

---------------------------------------------------------------------------
(* Type correctness *)

(* Inserting a row keeps the journal well formed. *)
LEMMA InsertType ==
  ASSUME NEW f, f \in [DOMAIN f -> Attempt], DOMAIN f \subseteq Lineage \X Nat,
         NEW k \in Lineage \X Nat, NEW e \in Attempt
  PROVE  /\ DOMAIN Insert(f, k, e) = DOMAIN f \cup {k}
         /\ DOMAIN Insert(f, k, e) \subseteq Lineage \X Nat
         /\ Insert(f, k, e) \in [DOMAIN Insert(f, k, e) -> Attempt]
         /\ Insert(f, k, e)[k] = e
         /\ \A j \in DOMAIN f : j # k => Insert(f, k, e)[j] = f[j]
<1>1. Insert(f, k, e) = [j \in DOMAIN f \cup {k} |-> IF j = k THEN e ELSE f[j]]
  BY DEF Insert
<1>2. \A j \in DOMAIN f : f[j] \in Attempt
  OBVIOUS
<1> QED BY <1>1, <1>2

(* Records with some columns replaced. *)
LEMMA LeaseWith ==
  ASSUME NEW a \in LeaseRow
  PROVE  /\ \A e \in Nat : LET b == [a EXCEPT !.expires = e] IN
              /\ b \in LeaseRow /\ b.expires = e /\ b.holder = a.holder
              /\ b.token = a.token /\ b.completed = a.completed
         /\ LET b == [a EXCEPT !.holder = NoHolder, !.expires = 0] IN
              /\ b \in LeaseRow /\ b.expires = 0 /\ b.holder = NoHolder
              /\ b.token = a.token /\ b.completed = a.completed
         /\ LET b == [a EXCEPT !.completed = TRUE] IN
              /\ b \in LeaseRow /\ b.expires = a.expires /\ b.holder = a.holder
              /\ b.token = a.token /\ b.completed = TRUE
<1>1. a = [holder |-> a.holder, token |-> a.token,
           expires |-> a.expires, completed |-> a.completed]
  BY DEF LeaseRow
<1> QED BY <1>1 DEF LeaseRow

LEMMA AttemptWithResult ==
  ASSUME NEW a \in Attempt, NEW r \in Result
  PROVE  LET b == [a EXCEPT !.result = r] IN
         /\ b \in Attempt /\ b.result = r
         /\ b.verdicts = a.verdicts /\ b.outcomes = a.outcomes
         /\ b.holder = a.holder /\ b.budgetGen = a.budgetGen /\ b.workGen = a.workGen
  BY DEF Attempt

LEMMA AttemptWithVerdicts ==
  ASSUME NEW a \in Attempt, NEW v \in Seq({"OUTCOME_UNKNOWN"} \cup Terminal)
  PROVE  LET b == [a EXCEPT !.verdicts = v] IN
         /\ b \in Attempt /\ b.verdicts = v
         /\ b.result = a.result /\ b.outcomes = a.outcomes
         /\ b.holder = a.holder /\ b.budgetGen = a.budgetGen /\ b.workGen = a.workGen
  BY DEF Attempt

LEMMA AttemptWithOutcomes ==
  ASSUME NEW a \in Attempt, NEW v \in Seq(Outcome)
  PROVE  LET b == [a EXCEPT !.outcomes = v] IN
         /\ b \in Attempt /\ b.outcomes = v
         /\ b.result = a.result /\ b.verdicts = a.verdicts
         /\ b.holder = a.holder /\ b.budgetGen = a.budgetGen /\ b.workGen = a.workGen
  BY DEF Attempt

(* What each operation that writes the lease row leaves in it. *)
LEMMA LeaseWrites ==
  ASSUME TypeOK
  PROVE  /\ \A h \in Holder, at \in Readings :
              /\ GrantedTo(h, at) \in LeaseRow
              /\ GrantedTo(h, at).holder = h
              /\ GrantedTo(h, at).token = lease.token + 1
              /\ GrantedTo(h, at).completed = FALSE
         /\ /\ Released \in LeaseRow
            /\ Released.holder = NoHolder
            /\ Released.token = lease.token
            /\ Released.completed = lease.completed
         /\ \A at \in Readings :
              /\ Extended(at) \in LeaseRow
              /\ Extended(at).holder = lease.holder
              /\ Extended(at).token = lease.token
              /\ Extended(at).completed = lease.completed
         /\ /\ LeaseCompleted \in LeaseRow
            /\ LeaseCompleted.holder = lease.holder
            /\ LeaseCompleted.token = lease.token
            /\ LeaseCompleted.completed = TRUE
<1>1. lease \in LeaseRow /\ lease.token \in Nat
  BY DEF TypeOK, LeaseRow
<1>2. \A at \in Readings : at + Ttl \in Nat
  BY FenceType, ParameterAssumption
<1>3. /\ Released \in LeaseRow
      /\ Released.holder = NoHolder
      /\ Released.token = lease.token
      /\ Released.completed = lease.completed
  BY <1>1, LeaseWith DEF Released
<1>4. /\ LeaseCompleted \in LeaseRow
      /\ LeaseCompleted.holder = lease.holder
      /\ LeaseCompleted.token = lease.token
      /\ LeaseCompleted.completed = TRUE
  BY <1>1, LeaseWith DEF LeaseCompleted
<1>5. \A at \in Readings :
        /\ Extended(at) \in LeaseRow
        /\ Extended(at).holder = lease.holder
        /\ Extended(at).token = lease.token
        /\ Extended(at).completed = lease.completed
  BY <1>1, <1>2, LeaseWith DEF Extended
<1>6. \A h \in Holder, at \in Readings :
        /\ GrantedTo(h, at) \in LeaseRow
        /\ GrantedTo(h, at).holder = h
        /\ GrantedTo(h, at).token = lease.token + 1
        /\ GrantedTo(h, at).completed = FALSE
  BY <1>1, <1>2 DEF LeaseRow, GrantedTo, NextToken
<1> QED BY <1>3, <1>4, <1>5, <1>6

LEMMA FinalizedWrites ==
  ASSUME TypeOK, NEW s \in Terminal
  PROVE  /\ FinalizedLease(s) \in LeaseRow
         /\ FinalizedLease(s).token = lease.token
         /\ s = "COMPLETE" => FinalizedLease(s).completed
         /\ s # "COMPLETE" => FinalizedLease(s).completed = lease.completed
         /\ FinalizedLease(s).holder \in {lease.holder, NoHolder}
  BY LeaseWrites DEF FinalizedLease

(* A note amends its own attempt, in the one column it is about. *)
LEMMA JournalWrites ==
  ASSUME TypeOK, NEW k \in DOMAIN journal
  PROVE  /\ \A r \in Result :
              /\ Recorded(k, r) \in [DOMAIN journal -> Attempt]
              /\ Recorded(k, r)[k].result = r
              /\ Recorded(k, r)[k].verdicts = journal[k].verdicts
              /\ Recorded(k, r)[k].outcomes = journal[k].outcomes
              /\ \A j \in DOMAIN journal : j # k => Recorded(k, r)[j] = journal[j]
         /\ \A s \in {"OUTCOME_UNKNOWN"} \cup Terminal :
              /\ Verified(k, s) \in [DOMAIN journal -> Attempt]
              /\ Verified(k, s)[k].result = journal[k].result
              /\ Verified(k, s)[k].verdicts = Append(journal[k].verdicts, s)
              /\ Verified(k, s)[k].outcomes = journal[k].outcomes
              /\ \A j \in DOMAIN journal : j # k => Verified(k, s)[j] = journal[j]
         /\ \A o \in Outcome :
              /\ Reconciled(k, o) \in [DOMAIN journal -> Attempt]
              /\ Reconciled(k, o)[k].result = journal[k].result
              /\ Reconciled(k, o)[k].verdicts = journal[k].verdicts
              /\ Reconciled(k, o)[k].outcomes = Append(journal[k].outcomes, o)
              /\ \A j \in DOMAIN journal : j # k => Reconciled(k, o)[j] = journal[j]
<1>1. journal[k] \in Attempt /\ journal \in [DOMAIN journal -> Attempt]
  BY DEF TypeOK
<1>2. \A e \in Attempt :
        /\ [journal EXCEPT ![k] = e] \in [DOMAIN journal -> Attempt]
        /\ [journal EXCEPT ![k] = e][k] = e
        /\ \A j \in DOMAIN journal : j # k => [journal EXCEPT ![k] = e][j] = journal[j]
  BY <1>1
<1>3. ASSUME NEW r \in Result
      PROVE  \E e \in Attempt :
               /\ Recorded(k, r) = [journal EXCEPT ![k] = e]
               /\ e.result = r
               /\ e.verdicts = journal[k].verdicts
               /\ e.outcomes = journal[k].outcomes
  <2> DEFINE e == [journal[k] EXCEPT !.result = r]
  <2>1. Recorded(k, r) = [journal EXCEPT ![k] = e]
    BY <1>1 DEF Recorded
  <2>2. /\ e \in Attempt /\ e.result = r
        /\ e.verdicts = journal[k].verdicts /\ e.outcomes = journal[k].outcomes
    BY <1>1, AttemptWithResult
  <2> HIDE DEF e
  <2> QED BY <2>1, <2>2
<1>4. ASSUME NEW s \in {"OUTCOME_UNKNOWN"} \cup Terminal
      PROVE  \E e \in Attempt :
               /\ Verified(k, s) = [journal EXCEPT ![k] = e]
               /\ e.result = journal[k].result
               /\ e.verdicts = Append(journal[k].verdicts, s)
               /\ e.outcomes = journal[k].outcomes
  <2> DEFINE v == Append(journal[k].verdicts, s)
             e == [journal[k] EXCEPT !.verdicts = v]
  <2>1. Verified(k, s) = [journal EXCEPT ![k] = e]
    BY <1>1 DEF Verified
  <2>2. v \in Seq({"OUTCOME_UNKNOWN"} \cup Terminal)
    BY <1>1 DEF Attempt
  <2>3. /\ e \in Attempt /\ e.result = journal[k].result
        /\ e.verdicts = v /\ e.outcomes = journal[k].outcomes
    BY <1>1, <2>2, AttemptWithVerdicts
  <2> HIDE DEF e
  <2> QED BY <2>1, <2>3
<1>5. ASSUME NEW o \in Outcome
      PROVE  \E e \in Attempt :
               /\ Reconciled(k, o) = [journal EXCEPT ![k] = e]
               /\ e.result = journal[k].result
               /\ e.verdicts = journal[k].verdicts
               /\ e.outcomes = Append(journal[k].outcomes, o)
  <2> DEFINE v == Append(journal[k].outcomes, o)
             e == [journal[k] EXCEPT !.outcomes = v]
  <2>1. Reconciled(k, o) = [journal EXCEPT ![k] = e]
    BY <1>1 DEF Reconciled
  <2>2. v \in Seq(Outcome)
    BY <1>1 DEF Attempt
  <2>3. /\ e \in Attempt /\ e.result = journal[k].result
        /\ e.verdicts = journal[k].verdicts /\ e.outcomes = v
    BY <1>1, <2>2, AttemptWithOutcomes
  <2> HIDE DEF e
  <2> QED BY <2>1, <2>3
<1> QED BY <1>2, <1>3, <1>4, <1>5

LEMMA MovedType ==
  ASSUME TypeOK, NEW l \in Lineage, NEW s \in Status
  PROVE  /\ Moved(l, s) \in [Lineage -> WorkRow]
         /\ Moved(l, s)[l] = [status |-> s, gen |-> work[l].gen + 1]
         /\ \A m \in Lineage : m # l => Moved(l, s)[m] = work[m]
  BY DEF TypeOK, WorkRow, Moved

LEMMA NewAttemptType ==
  ASSUME NEW h \in Holder, NEW bg \in Nat, NEW wg \in Nat
  PROVE  NewAttempt(h, bg, wg) \in Attempt
  BY DEF NewAttempt, Attempt

(* Every operation keeps every table well formed. *)
LEMMA NextTypeOK ==
  ASSUME TypeOK, [OpenNext]_vars
  PROVE  TypeOK'
<1>1. CASE UNCHANGED vars
  BY <1>1 DEF TypeOK, vars
<1>2. CASE Tick
  BY <1>2 DEF Tick, TypeOK
<1>3. ASSUME NEW l \in Lineage, NEW s \in Status,
             InitializeRoot(l) \/ PutInitialBudget(l) \/ PutInitialWork(l, s)
      PROVE  TypeOK'
  <2>1. RootBudget \in BudgetRow
    BY ParameterAssumption DEF RootBudget, BudgetRow
  <2> QED BY <1>3, <2>1
      DEF InitializeRoot, PutInitialBudget, PutInitialWork, TypeOK, WorkRow, Status
<1>4. ASSUME NEW l \in Lineage, NEW bg \in Nat, NEW wg \in Nat, NEW h \in Holder,
             NEW at \in Readings, Admit(l, bg, wg, h, at)
      PROVE  TypeOK'
  <2>1. journal' \in [DOMAIN journal' -> Attempt] /\ DOMAIN journal' \subseteq Lineage \X Nat
    <3> DEFINE key == <<l, NextToken>>
               fresh == NewAttempt(h, bg + 1, wg + 1)
    <3>1. fresh \in Attempt
      BY NewAttemptType
    <3>2. key \in Lineage \X Nat
      BY DEF TypeOK, LeaseRow, NextToken
    <3>3. journal' = Insert(journal, key, fresh)
      BY <1>4 DEF Admit
    <3>4. journal \in [DOMAIN journal -> Attempt] /\ DOMAIN journal \subseteq Lineage \X Nat
      BY DEF TypeOK
    <3> HIDE DEF key, fresh
    <3> QED BY ONLY <3>1, <3>2, <3>3, <3>4, InsertType
  <2>2. budget' \in [Lineage -> BudgetRow]
    BY <1>4 DEF Admit, Affordable, Charged, RetryConsumed, TypeOK, BudgetRow
  <2>3. work' \in [Lineage -> WorkRow] /\ lease' \in LeaseRow /\ now' \in Nat
    BY <1>4, LeaseWrites, MovedType DEF Admit, TypeOK, Status, LeaseBound
  <2> QED BY <2>1, <2>2, <2>3 DEF TypeOK
<1>5. ASSUME NEW l \in Lineage, NEW h \in Holder, NEW at \in Readings,
             RefenceClaimedRoot(l, h, at)
      PROVE  TypeOK'
  <2> DEFINE noted(k) == Reconciled(k, "NO_EFFECT_CONFIRMED")
             fresh == NewAttempt(h, budget[l].gen, work[l].gen + 1)
  <2>1. PICK k \in DOMAIN journal : journal' = Insert(noted(k), <<l, NextToken>>, fresh)
    BY <1>5 DEF RefenceClaimedRoot, AttemptsOf
  <2>2. noted(k) \in [DOMAIN journal -> Attempt]
    BY <2>1, JournalWrites DEF Outcome
  <2>3. fresh \in Attempt
    <3>1. budget[l].gen \in Nat /\ work[l].gen + 1 \in Nat
      BY DEF TypeOK, BudgetRow, WorkRow
    <3> QED BY <3>1, NewAttemptType
  <2>4. <<l, NextToken>> \in Lineage \X Nat
    BY DEF TypeOK, LeaseRow, NextToken
  <2>5. journal' \in [DOMAIN journal' -> Attempt] /\ DOMAIN journal' \subseteq Lineage \X Nat
    <3>1. /\ noted(k) \in [DOMAIN noted(k) -> Attempt]
          /\ DOMAIN noted(k) \subseteq Lineage \X Nat
      BY <2>2 DEF TypeOK
    <3> HIDE DEF noted, fresh
    <3> QED BY ONLY <3>1, <2>1, <2>3, <2>4, InsertType
  <2>6. work' \in [Lineage -> WorkRow] /\ lease' \in LeaseRow /\ now' \in Nat
    BY <1>5, LeaseWrites, MovedType DEF RefenceClaimedRoot, TypeOK, Status, LeaseBound
  <2> QED BY <1>5, <2>5, <2>6 DEF RefenceClaimedRoot, TypeOK
<1>6. ASSUME NEW k \in DOMAIN journal, NEW r \in Result, RecordResult(k, r)
      PROVE  TypeOK'
  BY <1>6, JournalWrites DEF RecordResult, TypeOK
<1>7. ASSUME NEW k \in DOMAIN journal, RecordVerification(k)
      PROVE  TypeOK'
  BY <1>7, JournalWrites DEF RecordVerification, TypeOK
<1>8. ASSUME NEW k \in DOMAIN journal, NEW g \in Nat, NEW f \in Fence, NEW at \in Readings,
             BeginVerification(k, g, f, at)
      PROVE  TypeOK'
  BY <1>8, FenceType, MovedType DEF BeginVerification, TypeOK, Status, LeaseBound
<1>9. ASSUME NEW k \in DOMAIN journal, NEW g \in Nat, NEW f \in Fence, NEW s \in Terminal,
             NEW at \in Readings, FinalizeTerminalVerification(k, g, f, s, at)
      PROVE  TypeOK'
  <2>1. work' \in [Lineage -> WorkRow] /\ lease' \in LeaseRow
    BY <1>9, FenceType, FinalizedWrites, MovedType DEF FinalizeTerminalVerification, Status
  <2> QED BY <1>9, <2>1, JournalWrites DEF FinalizeTerminalVerification, TypeOK
<1>10. ASSUME NEW k \in DOMAIN journal, NEW g \in Nat, NEW f \in Fence, NEW o \in Outcome,
              NEW allow \in BOOLEAN, ReconcileAdmitted(k, g, f, o, allow)
       PROVE  TypeOK'
  <2>1. work' \in [Lineage -> WorkRow] /\ lease' \in LeaseRow
    <3>1. CASE o = "NO_EFFECT_CONFIRMED"
      <4>1. lease' = Released /\ work' = Moved(k[1], "FAILED_RETRYABLE")
        BY <1>10, <3>1 DEF ReconcileAdmitted
      <4>2. k[1] \in Lineage /\ "FAILED_RETRYABLE" \in Status
        BY FenceType DEF Status, LeaseBound
      <4> QED BY <4>1, <4>2, LeaseWrites, MovedType
    <3>2. CASE o # "NO_EFFECT_CONFIRMED"
      BY <1>10, <3>2 DEF ReconcileAdmitted, TypeOK
    <3> QED BY <3>1, <3>2
  <2> QED BY <1>10, <2>1, JournalWrites DEF ReconcileAdmitted, TypeOK
<1>11. ASSUME NEW l \in Lineage, NEW g \in Nat, NEW s \in LeaseBound, NEW f \in Fence,
              NEW at \in Readings, CompareAndSwapStatus(l, g, s, f, at)
       PROVE  TypeOK'
  BY <1>11, MovedType DEF CompareAndSwapStatus, TypeOK, Status
<1>12. ASSUME NEW l \in Lineage, NEW g \in Nat, NEW s \in Terminal, NEW f \in Fence,
              NEW at \in Readings, FinalizeTerminalStatus(l, g, s, f, at)
       PROVE  TypeOK'
  BY <1>12, MovedType, FinalizedWrites DEF FinalizeTerminalStatus, TypeOK, Status
<1>13. ASSUME NEW h \in Holder, NEW at \in Readings, ClaimLease(h, at)
       PROVE  TypeOK'
  BY <1>13, LeaseWrites DEF ClaimLease, TypeOK
<1>14. ASSUME NEW f \in Fence, NEW at \in Readings,
              Heartbeat(f, at) \/ ReleaseLease(f, at) \/ CompleteLease(f, at)
       PROVE  TypeOK'
  BY <1>14, LeaseWrites DEF Heartbeat, ReleaseLease, CompleteLease, TypeOK
<1>15. "PENDING" \in Status
  BY DEF Status
<1> QED BY OpenNextCases, <1>1, <1>2, <1>3, <1>4, <1>5, <1>6, <1>7, <1>8, <1>9, <1>10,
           <1>11, <1>12, <1>13, <1>14, <1>15

(* Every table of the store is well formed in every behaviour of the open  *)
(* interface: no quota is ever charged below zero.                         *)
THEOREM OpenTypeCorrect == OpenSpec => []TypeOK
  BY InitTypeOK, NextTypeOK, PTL DEF OpenSpec

(* The journaled callers are a part of the open interface. *)
LEMMA JournaledIsOpen == [Next]_vars => [OpenNext]_vars
  BY DEF OpenNext

(* The same for the journaled callers. *)
THEOREM TypeCorrect == Spec => []TypeOK
  BY InitTypeOK, NextTypeOK, JournaledIsOpen, PTL DEF Spec
=============================================================================
