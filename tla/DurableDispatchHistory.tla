----------------------- MODULE DurableDispatchHistory -----------------------
(***************************************************************************)
(* What the durable store keeps of its history when its callers are the    *)
(* journaled ones (Spec): every token granted has an attempt, an attempt   *)
(* and its evidence stay, and the evidence explains the status of every    *)
(* work unit.  The invariants build on those of the open interface, and    *)
(* the steps are again described by the footprint they leave.              *)
(***************************************************************************)
EXTENDS DurableDispatchSafety, FiniteSetTheorems, SequenceTheorems

---------------------------------------------------------------------------
(* The inductive invariant of the journaled callers *)

(* No token was granted but to an attempt: the lease row never runs ahead  *)
(* of the journal.                                                         *)
EveryTokenIsAttempted ==
  \A t \in 1 .. lease.token : \E l \in Lineage : <<l, t>> \in DOMAIN journal

(* Work that left PENDING has a newest attempt. *)
MovedWorkHasNewest ==
  \A l \in Lineage :
    work[l].status \notin {"ABSENT", "PENDING"} => \E k \in AttemptsOf(l) : Newest(k)

(* A newest attempt that was reconciled as NO_EFFECT_CONFIRMED has freed   *)
(* its work, and nothing but a new admission moves it again.               *)
FreedWorkWaits ==
  \A k \in DOMAIN journal :
    NoEffect(k) /\ Newest(k) => work[k[1]].status = "FAILED_RETRYABLE"

HistoryInv ==
  /\ Inv
  /\ EveryTokenIsAttempted
  /\ HeldLeaseHasAttempt
  /\ MovedWorkHasNewest
  /\ FreedWorkWaits
  /\ TerminalWorkIsEvidenced
  /\ OneCompletion

---------------------------------------------------------------------------
(* The inductive invariant of the quota *)

(* The admissions of a lineage are numbered by the generations 2, 3, ...   *)
(* that they gave its budget, and each has taken one slot and one job.     *)
Spent(l) == {journal[k].budgetGen : k \in AttemptsOf(l)}

BudgetIsTheLedger ==
  \A l \in Lineage :
    /\ Spent(l) = 2 .. budget[l].gen
    /\ budget[l].gen = 0 => budget[l].active = 0
    /\ budget[l].gen > 0 =>
         /\ budget[l].active = InitialBudget.active - (budget[l].gen - 1)
         /\ budget[l].jobs = InitialBudget.jobs - (budget[l].gen - 1)

(* Work and budget are rooted together, work leaves PENDING with its first *)
(* admission, and every further one took a retry.                          *)
RetriesAreTheLedger ==
  \A l \in Lineage :
    /\ work[l].status = "ABSENT" <=> budget[l].gen = 0
    /\ work[l].status = "PENDING" <=> budget[l].gen = 1
    /\ budget[l].gen = 1 => budget[l].retries = InitialBudget.retries
    /\ budget[l].gen > 1 =>
         budget[l].retries = InitialBudget.retries - (budget[l].gen - 2)

---------------------------------------------------------------------------
(* Footprints of the journaled callers *)

(* An attempt keeps its admission, and its notes only grow. *)
Kept(k) ==
  LET a == journal[k] b == journal'[k] IN
  /\ k \in DOMAIN journal'
  /\ b.holder = a.holder
  /\ b.budgetGen = a.budgetGen
  /\ a.result # "NONE" => b.result = a.result
  /\ IsPrefix(a.verdicts, b.verdicts)
  /\ Decided(k) => b.verdicts = a.verdicts
  /\ IsPrefix(a.outcomes, b.outcomes)
  /\ Latest(a.outcomes) \in {"NO_EFFECT_CONFIRMED", "EFFECT_CONFIRMED"} =>
       b.outcomes = a.outcomes

HistoryGrows == \A k \in DOMAIN journal : Kept(k)

(* The step admits or re-fences lineage l. *)
Granted(l) ==
  /\ lease'.token = lease.token + 1
  /\ DOMAIN journal' = DOMAIN journal \cup {<<l, lease.token + 1>>}
  /\ journal'[<<l, lease.token + 1>>].holder = lease'.holder
  /\ work[l].status \in {"PENDING", "CLAIMED", "FAILED_RETRYABLE", "OUTCOME_UNKNOWN"}
  /\ work'[l].status = "CLAIMED"
  /\ \A m \in Lineage : m # l => work'[m] = work[m]
  /\ ~lease'.completed

NothingGranted ==
  /\ lease'.token = lease.token
  /\ lease'.holder \in {lease.holder, NoHolder}
  /\ DOMAIN journal' = DOMAIN journal

RootedNow(l) == work[l].gen = 0 /\ work'[l].status = "PENDING"

(* The recorded result and the terminal verification of attempt k. *)
Evidenced(k) == journal[k].result # "NONE" /\ Latest(journal[k].verdicts) = work[k[1]].status

(* The step moves the work of l on the fence of l's own newest attempt,    *)
(* which some clock still sees as live, or which is given up.              *)
Worked(l) ==
  /\ <<l, lease.token>> \in DOMAIN journal
  /\ lease.holder # NoHolder
  /\ ~lease.completed
  /\ work[l].status \in LeaseBound \cup {"PENDING"}
  /\ work'[l].status \in LeaseBound \cup Terminal
  /\ \/ now < lease.expires + MaxLag
     \/ work'[l].status = "FAILED_RETRYABLE" /\ lease'.holder = NoHolder
  /\ work'[l].status \in Terminal => Evidenced(<<l, lease.token>>)'

WorkExplained ==
  NothingGranted => \A l \in Lineage : work'[l] # work[l] => RootedNow(l) \/ Worked(l)

(* An attempt is found to have had no effect only together with its work:  *)
(* freed, or granted again in the same step.                               *)
FreedTogether ==
  \A k \in DOMAIN journal :
    NoEffect(k)' /\ ~NoEffect(k) =>
      work'[k[1]].status = "FAILED_RETRYABLE" \/ Granted(k[1])

CompletedTogether ==
  lease'.completed /\ ~lease.completed => \E l \in Lineage : Completed(l)'

JournaledFootprint ==
  /\ NothingGranted \/ \E l \in Lineage : Granted(l)
  /\ WorkExplained
  /\ HistoryGrows
  /\ FreedTogether
  /\ CompletedTogether

---------------------------------------------------------------------------
(* Every step of a journaled caller leaves a footprint *)

(* A step of a journaled caller is one of these operations, with the fence *)
(* of the attempt it names.                                                *)
LEMMA NextCases ==
  ASSUME TypeOK, Next
  PROVE  \/ Tick
         \/ \E l \in Lineage : InitializeRoot(l)
         \/ \E l \in Lineage, bg \in Nat, wg \in Nat, h \in Holder, at \in Readings :
              Admit(l, bg, wg, h, at)
         \/ \E l \in Lineage, h \in Holder, at \in Readings : RefenceClaimedRoot(l, h, at)
         \/ \E k \in DOMAIN journal, r \in Result : RecordResult(k, r)
         \/ \E k \in DOMAIN journal : RecordVerification(k)
         \/ \E k \in DOMAIN journal, g \in Nat, at \in Readings :
              BeginVerification(k, g, FenceOf(k), at)
         \/ \E k \in DOMAIN journal, g \in Nat, s \in Terminal, at \in Readings :
              FinalizeTerminalVerification(k, g, FenceOf(k), s, at)
         \/ \E k \in DOMAIN journal, g \in Nat, s \in LeaseBound, at \in Readings :
              CompareAndSwapStatus(k[1], g, s, FenceOf(k), at)
         \/ \E k \in DOMAIN journal, g \in Nat, o \in Outcome, allow \in BOOLEAN :
              ReconcileAdmitted(k, g, FenceOf(k), o, allow)
         \/ \E k \in DOMAIN journal, at \in Readings : Heartbeat(FenceOf(k), at)
<1>1. \A l \in Lineage : Generations(l) \subseteq Nat /\ 0 .. budget[l].gen \subseteq Nat
  BY DEF Generations, TypeOK, WorkRow, BudgetRow
<1>2. \A k \in DOMAIN journal : k[1] \in Lineage
  BY FenceType
<1>3. ASSUME NEW l \in Lineage, Admission(l)
      PROVE  \/ \E m \in Lineage, bg \in Nat, wg \in Nat, h \in Holder, at \in Readings :
                  Admit(m, bg, wg, h, at)
             \/ \E m \in Lineage, h \in Holder, at \in Readings : RefenceClaimedRoot(m, h, at)
  BY <1>1, <1>3 DEF Admission, RecoverClaimOnlyRoot, ResumePendingRoot
<1>4. ASSUME NEW k \in DOMAIN journal, Observation(k)
      PROVE  \/ \E j \in DOMAIN journal, r \in Result : RecordResult(j, r)
             \/ \E j \in DOMAIN journal : RecordVerification(j)
  BY <1>4 DEF Observation
<1>5. ASSUME NEW k \in DOMAIN journal, Lifecycle(k)
      PROVE  \/ \E j \in DOMAIN journal, g \in Nat, at \in Readings :
                  BeginVerification(j, g, FenceOf(j), at)
             \/ \E j \in DOMAIN journal, g \in Nat, s \in Terminal, at \in Readings :
                  FinalizeTerminalVerification(j, g, FenceOf(j), s, at)
             \/ \E j \in DOMAIN journal, g \in Nat, s \in LeaseBound, at \in Readings :
                  CompareAndSwapStatus(j[1], g, s, FenceOf(j), at)
  BY <1>1, <1>2, <1>5 DEF Lifecycle
<1>6. ASSUME NEW k \in DOMAIN journal, Reconciliation(k)
      PROVE  \E j \in DOMAIN journal, g \in Nat, o \in Outcome, allow \in BOOLEAN :
               ReconcileAdmitted(j, g, FenceOf(j), o, allow)
  BY <1>1, <1>2, <1>6 DEF Reconciliation
<1>7. ASSUME NEW k \in DOMAIN journal, Renewal(k)
      PROVE  \E j \in DOMAIN journal, at \in Readings : Heartbeat(FenceOf(j), at)
  BY <1>7 DEF Renewal
<1> QED BY <1>3, <1>4, <1>5, <1>6, <1>7 DEF Next

(* A note leaves the admission of every attempt as it was. *)
LEMMA NotesKeepAdmissions ==
  ASSUME TypeOK, NEW k \in DOMAIN journal
  PROVE  /\ \A r \in Result, j \in DOMAIN journal :
              /\ Recorded(k, r)[j].holder = journal[j].holder
              /\ Recorded(k, r)[j].budgetGen = journal[j].budgetGen
         /\ \A s \in {"OUTCOME_UNKNOWN"} \cup Terminal, j \in DOMAIN journal :
              /\ Verified(k, s)[j].holder = journal[j].holder
              /\ Verified(k, s)[j].budgetGen = journal[j].budgetGen
         /\ \A o \in Outcome, j \in DOMAIN journal :
              /\ Reconciled(k, o)[j].holder = journal[j].holder
              /\ Reconciled(k, o)[j].budgetGen = journal[j].budgetGen
<1>1. journal \in [DOMAIN journal -> Attempt] /\ journal[k] \in Attempt
  BY DEF TypeOK
<1>2. ASSUME NEW r \in Result, NEW j \in DOMAIN journal
      PROVE  /\ Recorded(k, r)[j].holder = journal[j].holder
             /\ Recorded(k, r)[j].budgetGen = journal[j].budgetGen
  <2>1. Recorded(k, r)[j] = IF j = k THEN [journal[k] EXCEPT !.result = r] ELSE journal[j]
    BY <1>1 DEF Recorded
  <2> QED BY <1>1, <2>1, AttemptWithResult
<1>3. ASSUME NEW s \in {"OUTCOME_UNKNOWN"} \cup Terminal, NEW j \in DOMAIN journal
      PROVE  /\ Verified(k, s)[j].holder = journal[j].holder
             /\ Verified(k, s)[j].budgetGen = journal[j].budgetGen
  <2> DEFINE v == Append(journal[k].verdicts, s)
  <2>1. Verified(k, s)[j] = IF j = k THEN [journal[k] EXCEPT !.verdicts = v] ELSE journal[j]
    BY <1>1 DEF Verified
  <2>2. v \in Seq({"OUTCOME_UNKNOWN"} \cup Terminal)
    BY <1>1 DEF Attempt
  <2> HIDE DEF v
  <2> QED BY <1>1, <2>1, <2>2, AttemptWithVerdicts
<1>4. ASSUME NEW o \in Outcome, NEW j \in DOMAIN journal
      PROVE  /\ Reconciled(k, o)[j].holder = journal[j].holder
             /\ Reconciled(k, o)[j].budgetGen = journal[j].budgetGen
  <2> DEFINE v == Append(journal[k].outcomes, o)
  <2>1. Reconciled(k, o)[j] = IF j = k THEN [journal[k] EXCEPT !.outcomes = v] ELSE journal[j]
    BY <1>1 DEF Reconciled
  <2>2. v \in Seq(Outcome)
    BY <1>1 DEF Attempt
  <2> HIDE DEF v
  <2> QED BY <1>1, <2>1, <2>2, AttemptWithOutcomes
<1> QED BY <1>2, <1>3, <1>4

(* A sequence is a prefix of itself and of what is appended to it. *)
LEMMA PrefixOfAppend ==
  ASSUME NEW S, NEW s \in Seq(S), NEW e \in S
  PROVE  IsPrefix(s, s) /\ IsPrefix(s, Append(s, e))
  BY DEF IsPrefix

LEMMA NotesArePrefixes ==
  ASSUME TypeOK, NEW k \in DOMAIN journal
  PROVE  /\ IsPrefix(journal[k].verdicts, journal[k].verdicts)
         /\ IsPrefix(journal[k].outcomes, journal[k].outcomes)
         /\ \A s \in {"OUTCOME_UNKNOWN"} \cup Terminal :
              IsPrefix(journal[k].verdicts, Append(journal[k].verdicts, s))
         /\ \A o \in Outcome : IsPrefix(journal[k].outcomes, Append(journal[k].outcomes, o))
<1>1. /\ journal[k].verdicts \in Seq({"OUTCOME_UNKNOWN"} \cup Terminal)
      /\ journal[k].outcomes \in Seq(Outcome)
  BY DEF TypeOK, Attempt
<1>2. "OUTCOME_UNKNOWN" \in {"OUTCOME_UNKNOWN"} \cup Terminal /\ "INDETERMINATE" \in Outcome
  BY DEF Outcome
<1> QED BY <1>1, <1>2, PrefixOfAppend

LEMMA UnnotedIsKept ==
  ASSUME TypeOK, NEW k \in DOMAIN journal, k \in DOMAIN journal', journal'[k] = journal[k]
  PROVE  Kept(k)
  BY NotesArePrefixes DEF Kept

(* A first result, a verification of an undecided attempt, or a            *)
(* reconciliation of an attempt that no conclusive one settled.            *)
LEMMA NotedIsKept ==
  ASSUME TypeOK, NEW k \in DOMAIN journal
  PROVE  /\ \A r \in Result :
              journal[k].result = "NONE" /\ journal' = Recorded(k, r) => Kept(k)
         /\ \A s \in {"OUTCOME_UNKNOWN"} \cup Terminal :
              ~Decided(k) /\ journal' = Verified(k, s) => Kept(k)
         /\ \A o \in Outcome :
              /\ Latest(journal[k].outcomes) \in {"NONE", "INDETERMINATE"}
              /\ k \in DOMAIN journal' /\ journal'[k] = Reconciled(k, o)[k]
              => Kept(k)
<1>1. ASSUME NEW r \in Result, journal[k].result = "NONE", journal' = Recorded(k, r)
      PROVE  Kept(k)
  <2>1. /\ k \in DOMAIN journal'
        /\ journal'[k].verdicts = journal[k].verdicts
        /\ journal'[k].outcomes = journal[k].outcomes
    BY <1>1, JournalWrites
  <2>2. journal'[k].holder = journal[k].holder /\ journal'[k].budgetGen = journal[k].budgetGen
    BY <1>1, NotesKeepAdmissions
  <2> QED BY <1>1, <2>1, <2>2, NotesArePrefixes DEF Kept
<1>2. ASSUME NEW s \in {"OUTCOME_UNKNOWN"} \cup Terminal, ~Decided(k), journal' = Verified(k, s)
      PROVE  Kept(k)
  <2>1. /\ k \in DOMAIN journal'
        /\ journal'[k].result = journal[k].result
        /\ journal'[k].verdicts = Append(journal[k].verdicts, s)
        /\ journal'[k].outcomes = journal[k].outcomes
    BY <1>2, JournalWrites
  <2>2. journal'[k].holder = journal[k].holder /\ journal'[k].budgetGen = journal[k].budgetGen
    BY <1>2, NotesKeepAdmissions
  <2>3. IsPrefix(journal[k].verdicts, journal'[k].verdicts)
    BY <2>1, NotesArePrefixes
  <2> QED BY <1>2, <2>1, <2>2, <2>3, NotesArePrefixes DEF Kept
<1>3. ASSUME NEW o \in Outcome, Latest(journal[k].outcomes) \in {"NONE", "INDETERMINATE"},
             k \in DOMAIN journal', journal'[k] = Reconciled(k, o)[k]
      PROVE  Kept(k)
  <2>1. /\ journal'[k].result = journal[k].result
        /\ journal'[k].verdicts = journal[k].verdicts
        /\ journal'[k].outcomes = Append(journal[k].outcomes, o)
    BY <1>3, JournalWrites
  <2>2. journal'[k].holder = journal[k].holder /\ journal'[k].budgetGen = journal[k].budgetGen
    BY <1>3, NotesKeepAdmissions
  <2>3. IsPrefix(journal[k].outcomes, journal'[k].outcomes)
    BY <2>1, NotesArePrefixes
  <2> QED BY <1>3, <2>1, <2>2, <2>3, NotesArePrefixes DEF Kept
<1> QED BY <1>1, <1>2, <1>3

(* The journal only grows, whoever calls the store. *)
LEMMA StepGrows ==
  ASSUME TypeOK, FencesIdentifyAttempts, OpenNext
  PROVE  HistoryGrows
<1>1. CASE journal' = journal
  BY <1>1, UnnotedIsKept DEF HistoryGrows
<1>2. ASSUME NEW l \in Lineage, NEW bg \in Nat, NEW wg \in Nat, NEW h \in Holder,
             NEW at \in Readings, Admit(l, bg, wg, h, at)
      PROVE  HistoryGrows
  <2>1. journal' = Insert(journal, <<l, NextToken>>, NewAttempt(h, bg + 1, wg + 1))
    BY <1>2 DEF Admit
  <2>2. journal \in [DOMAIN journal -> Attempt] /\ NewAttempt(h, bg + 1, wg + 1) \in Attempt
    <3>1. bg + 1 \in Nat /\ wg + 1 \in Nat
      OBVIOUS
    <3> QED BY <3>1, NewAttemptType DEF TypeOK
  <2>3. DOMAIN journal \subseteq DOMAIN journal' /\ \A j \in DOMAIN journal : journal'[j] = journal[j]
    BY <2>1, <2>2, InsertMoves
  <2> QED BY <2>3, UnnotedIsKept DEF HistoryGrows
<1>3. ASSUME NEW l \in Lineage, NEW h \in Holder, NEW at \in Readings,
             RefenceClaimedRoot(l, h, at)
      PROVE  HistoryGrows
  <2>1. PICK k \in DOMAIN journal :
          /\ journal[k].outcomes = <<>>
          /\ journal' = Insert(Reconciled(k, "NO_EFFECT_CONFIRMED"), <<l, NextToken>>,
                               NewAttempt(h, budget[l].gen, work[l].gen + 1))
    BY <1>3 DEF RefenceClaimedRoot, AttemptsOf
  <2> DEFINE noted == Reconciled(k, "NO_EFFECT_CONFIRMED")
  <2>2. /\ noted \in [DOMAIN journal -> Attempt]
        /\ \A j \in DOMAIN journal : j # k => noted[j] = journal[j]
    BY JournalWrites DEF Outcome
  <2>3. NewAttempt(h, budget[l].gen, work[l].gen + 1) \in Attempt
    <3>1. budget[l].gen \in Nat /\ work[l].gen + 1 \in Nat
      BY DEF TypeOK, BudgetRow, WorkRow
    <3> QED BY <3>1, NewAttemptType
  <2>4. DOMAIN journal \subseteq DOMAIN journal' /\ \A j \in DOMAIN journal : journal'[j] = noted[j]
    <3> HIDE DEF noted
    <3>1. journal' = Insert(noted, <<l, NextToken>>, NewAttempt(h, budget[l].gen, work[l].gen + 1))
      BY <2>1 DEF noted
    <3> QED BY <2>2, <2>3, <3>1, InsertMoves
  <2>5. Latest(journal[k].outcomes) = "NONE" /\ "NO_EFFECT_CONFIRMED" \in Outcome
    BY <2>1 DEF Latest, Outcome
  <2>6. Kept(k)
    BY <2>4, <2>5, NotedIsKept
  <2>7. \A j \in DOMAIN journal : j # k => Kept(j)
    BY <2>2, <2>4, UnnotedIsKept
  <2> QED BY <2>6, <2>7 DEF HistoryGrows
<1>4. ASSUME NEW k \in DOMAIN journal, NEW r \in Result, RecordResult(k, r)
      PROVE  HistoryGrows
  <2>1. journal[k].result = "NONE" /\ journal' = Recorded(k, r)
    BY <1>4 DEF RecordResult
  <2>2. DOMAIN journal' = DOMAIN journal /\ \A j \in DOMAIN journal : j # k => journal'[j] = journal[j]
    BY <2>1, JournalWrites
  <2> QED BY <2>1, <2>2, NotedIsKept, UnnotedIsKept DEF HistoryGrows
<1>5. ASSUME NEW k \in DOMAIN journal, NEW s \in {"OUTCOME_UNKNOWN"} \cup Terminal,
             Unverified(k), journal' = Verified(k, s)
      PROVE  HistoryGrows
  <2>1. DOMAIN journal' = DOMAIN journal /\ \A j \in DOMAIN journal : j # k => journal'[j] = journal[j]
    BY <1>5, JournalWrites
  <2>2. ~Decided(k)
    BY <1>5, UnverifiedMeans
  <2> QED BY <1>5, <2>1, <2>2, NotedIsKept, UnnotedIsKept DEF HistoryGrows
<1>6. ASSUME NEW k \in DOMAIN journal, NEW o \in Outcome,
             Latest(journal[k].outcomes) \in {"NONE", "INDETERMINATE"},
             journal' = Reconciled(k, o)
      PROVE  HistoryGrows
  <2>1. DOMAIN journal' = DOMAIN journal /\ \A j \in DOMAIN journal : j # k => journal'[j] = journal[j]
    BY <1>6, JournalWrites
  <2> QED BY <1>6, <2>1, NotedIsKept, UnnotedIsKept DEF HistoryGrows
<1>7. \/ journal' = journal
      \/ \E l \in Lineage, bg \in Nat, wg \in Nat, h \in Holder, at \in Readings :
           Admit(l, bg, wg, h, at)
      \/ \E l \in Lineage, h \in Holder, at \in Readings : RefenceClaimedRoot(l, h, at)
      \/ \E k \in DOMAIN journal, r \in Result : RecordResult(k, r)
      \/ \E k \in DOMAIN journal, s \in {"OUTCOME_UNKNOWN"} \cup Terminal :
           Unverified(k) /\ journal' = Verified(k, s)
      \/ \E k \in DOMAIN journal, o \in Outcome :
           /\ Latest(journal[k].outcomes) \in {"NONE", "INDETERMINATE"}
           /\ journal' = Reconciled(k, o)
  BY OpenNextCases
     DEF Tick, InitializeRoot, PutInitialBudget, PutInitialWork, RecordVerification,
         BeginVerification, FinalizeTerminalVerification, ReconcileAdmitted,
         CompareAndSwapStatus, FinalizeTerminalStatus, ClaimLease, Heartbeat,
         ReleaseLease, CompleteLease
<1> QED BY <1>1, <1>2, <1>3, <1>4, <1>5, <1>6, <1>7

LEMMA NewAttemptRow ==
  ASSUME NEW h \in Holder, NEW bg \in Nat, NEW wg \in Nat
  PROVE  /\ NewAttempt(h, bg, wg) \in Attempt
         /\ NewAttempt(h, bg, wg).holder = h
         /\ NewAttempt(h, bg, wg).budgetGen = bg
         /\ NewAttempt(h, bg, wg).outcomes = <<>>
  BY NewAttemptType DEF NewAttempt

(* An admission or re-fence grants its lineage. *)
LEMMA GrantedStep ==
  ASSUME TypeOK, FencesIdentifyAttempts, NEW l \in Lineage, NEW h \in Holder,
         NEW at \in Readings, NEW e \in Attempt, e.holder = h,
         NEW f \in [DOMAIN journal -> Attempt],
         journal' = Insert(f, <<l, NextToken>>, e),
         lease' = GrantedTo(h, at),
         work' = Moved(l, "CLAIMED"),
         work[l].status \in {"PENDING", "CLAIMED", "FAILED_RETRYABLE", "OUTCOME_UNKNOWN"}
  PROVE  Granted(l)
<1>1. /\ DOMAIN journal' = DOMAIN journal \cup {<<l, lease.token + 1>>}
      /\ journal'[<<l, lease.token + 1>>] = e
  BY InsertMoves DEF NextToken
<1>2. lease'.token = lease.token + 1 /\ lease'.holder = h /\ ~lease'.completed
  BY LeaseWrites
<1>3. "CLAIMED" \in Status
  BY DEF Status, LeaseBound
<1>4. work'[l] = [status |-> "CLAIMED", gen |-> work[l].gen + 1]
      /\ \A m \in Lineage : m # l => work'[m] = work[m]
  BY <1>3, MovedType
<1>5. work'[l].status = "CLAIMED"
  BY <1>4
<1> QED BY <1>1, <1>2, <1>4, <1>5 DEF Granted

(* The statuses from which the store lets work be claimed. *)
LEMMA ClaimedFrom ==
  ASSUME NEW s \in Status, "CLAIMED" \in AllowedTransitions[s]
  PROVE  s \in {"PENDING", "FAILED_RETRYABLE", "OUTCOME_UNKNOWN"}
  BY DEF AllowedTransitions, Status, LeaseBound, Terminal, Failing

(* A clock that still sees the lease as live is at most MaxLag behind.     *)
LEMMA ActiveMeans ==
  ASSUME TypeOK, NEW k \in DOMAIN journal, NEW at \in Readings, ActiveLease(FenceOf(k), at)
  PROVE  /\ k[2] = lease.token /\ lease.holder # NoHolder /\ ~lease.completed
         /\ now < lease.expires + MaxLag
         /\ k = <<k[1], lease.token>>
<1>1. FenceOf(k) \in Fence /\ FenceOf(k).token = k[2] /\ Current(FenceOf(k)) /\ at < lease.expires
  BY FenceType DEF FenceOf, ActiveLease
<1>2. k[2] = lease.token /\ lease.holder # NoHolder /\ ~lease.completed
  BY <1>1, CurrentMeans
<1>3. at \in Nat /\ now \in Nat /\ lease.expires \in Nat /\ MaxLag \in Nat /\ now <= at + MaxLag
  BY ParameterAssumption DEF Readings, TypeOK, LeaseRow
<1>4. now < lease.expires + MaxLag
  BY <1>1, <1>3
<1>5. k = <<k[1], k[2]>>
  BY DEF TypeOK
<1> QED BY <1>2, <1>4, <1>5

(* An operation on the work of l, presented with the fence of l's attempt  *)
(* k, that is not a terminal one.                                          *)
LEMMA WorkedStep ==
  ASSUME TypeOK, NEW k \in DOMAIN journal, NEW at \in Readings, NEW s \in LeaseBound \cup Terminal,
         ActiveLease(FenceOf(k), at), work' = Moved(k[1], s),
         work[k[1]].status \in LeaseBound \cup {"PENDING"},
         s \in Terminal => Evidenced(k)',
         lease'.token = lease.token, lease'.holder \in {lease.holder, NoHolder},
         DOMAIN journal' = DOMAIN journal
  PROVE  NothingGranted /\ WorkExplained
<1>1. /\ k = <<k[1], lease.token>> /\ lease.holder # NoHolder /\ ~lease.completed
      /\ now < lease.expires + MaxLag
  BY ActiveMeans
<1>2. k[1] \in Lineage /\ s \in Status
  BY FenceType DEF Status
<1>3. /\ work'[k[1]] = [status |-> s, gen |-> work[k[1]].gen + 1]
      /\ \A m \in Lineage : m # k[1] => work'[m] = work[m]
  BY <1>2, MovedType
<1>4. work'[k[1]].status = s
  BY <1>3
<1>5. s \in Terminal => Evidenced(<<k[1], lease.token>>)'
  <2>1. lease'.token = lease.token
    OBVIOUS
  <2>2. PICK j : j = k
    OBVIOUS
  <2>3. s \in Terminal => Evidenced(j)'
    BY <2>2 DEF Evidenced
  <2>4. j = <<j[1], lease'.token>>
    BY <1>1, <2>1, <2>2
  <2> QED BY <2>1, <2>2, <2>3, <2>4 DEF Evidenced
<1>6. Worked(k[1])
  BY <1>1, <1>4, <1>5 DEF Worked
<1> QED BY <1>3, <1>6 DEF WorkExplained, NothingGranted

(* A step that grants nothing, moves no work and completes nothing. *)
LEMMA IdleStep ==
  ASSUME TypeOK, work' = work, lease'.token = lease.token,
         lease'.holder \in {lease.holder, NoHolder}, lease'.completed = lease.completed,
         DOMAIN journal' = DOMAIN journal
  PROVE  NothingGranted /\ WorkExplained /\ CompletedTogether
  BY DEF NothingGranted, WorkExplained, CompletedTogether

LEMMA OutcomesStay ==
  ASSUME \A k \in DOMAIN journal : journal'[k].outcomes = journal[k].outcomes
  PROVE  FreedTogether
  BY DEF FreedTogether, NoEffect

(* Every operation of a journaled caller leaves one of the footprints. *)
LEMMA JournaledStep ==
  ASSUME TypeOK, Rooted, FencesIdentifyAttempts, Next
  PROVE  JournaledFootprint
<1> DEFINE Moves == /\ NothingGranted \/ \E l \in Lineage : Granted(l)
                    /\ WorkExplained
                    /\ FreedTogether
                    /\ CompletedTogether
<1>1. ASSUME Tick
      PROVE  Moves
  <2>1. NothingGranted /\ WorkExplained /\ CompletedTogether
    BY <1>1, IdleStep DEF Tick
  <2>2. FreedTogether
    BY <1>1, OutcomesStay DEF Tick
  <2> QED BY <2>1, <2>2
<1>2. ASSUME NEW l \in Lineage, InitializeRoot(l)
      PROVE  Moves
  <2>1. /\ work[l].gen = 0 /\ lease' = lease /\ journal' = journal
        /\ work' = [work EXCEPT ![l] = [status |-> "PENDING", gen |-> 1]]
    BY <1>2 DEF InitializeRoot
  <2>2. work'[l].status = "PENDING" /\ \A m \in Lineage : m # l => work'[m] = work[m]
    BY <2>1 DEF TypeOK
  <2>3. NothingGranted /\ WorkExplained /\ CompletedTogether
    BY <2>1, <2>2 DEF NothingGranted, WorkExplained, CompletedTogether, RootedNow
  <2>4. FreedTogether
    BY <2>1, OutcomesStay
  <2> QED BY <2>3, <2>4
<1>3. ASSUME NEW l \in Lineage, NEW bg \in Nat, NEW wg \in Nat, NEW h \in Holder,
             NEW at \in Readings, Admit(l, bg, wg, h, at)
      PROVE  Moves
  <2> DEFINE e == NewAttempt(h, bg + 1, wg + 1)
  <2>1. e \in Attempt /\ e.holder = h
    <3>1. bg + 1 \in Nat /\ wg + 1 \in Nat
      OBVIOUS
    <3> QED BY <3>1, NewAttemptRow
  <2>2. journal' = Insert(journal, <<l, NextToken>>, e) /\ journal \in [DOMAIN journal -> Attempt]
    BY <1>3 DEF Admit, TypeOK
  <2>3. /\ lease' = GrantedTo(h, at) /\ work' = Moved(l, "CLAIMED")
        /\ work[l].status \in {"PENDING", "FAILED_RETRYABLE", "OUTCOME_UNKNOWN"}
    BY <1>3, ClaimedFrom DEF Admit
  <2> HIDE DEF e
  <2>4. Granted(l)
    BY <2>1, <2>2, <2>3, GrantedStep
  <2>5. lease'.token # lease.token /\ ~lease'.completed
    BY <2>4 DEF Granted, TypeOK, LeaseRow
  <2>6. \A j \in DOMAIN journal : journal'[j] = journal[j]
    BY <2>1, <2>2, InsertMoves
  <2>7. FreedTogether
    BY <2>6, OutcomesStay
  <2> QED BY <2>4, <2>5, <2>7 DEF WorkExplained, NothingGranted, CompletedTogether
<1>4. ASSUME NEW l \in Lineage, NEW h \in Holder, NEW at \in Readings,
             RefenceClaimedRoot(l, h, at)
      PROVE  Moves
  <2> DEFINE e == NewAttempt(h, budget[l].gen, work[l].gen + 1)
  <2>1. PICK k \in DOMAIN journal :
          /\ k[1] = l
          /\ journal' = Insert(Reconciled(k, "NO_EFFECT_CONFIRMED"), <<l, NextToken>>, e)
    BY <1>4 DEF RefenceClaimedRoot, AttemptsOf
  <2> DEFINE noted == Reconciled(k, "NO_EFFECT_CONFIRMED")
  <2>2. /\ noted \in [DOMAIN journal -> Attempt]
        /\ \A j \in DOMAIN journal : j # k => noted[j] = journal[j]
    BY JournalWrites DEF Outcome
  <2>3. e \in Attempt /\ e.holder = h
    <3>1. budget[l].gen \in Nat /\ work[l].gen + 1 \in Nat
      BY DEF TypeOK, BudgetRow, WorkRow
    <3> QED BY <3>1, NewAttemptRow
  <2>4. /\ lease' = GrantedTo(h, at) /\ work' = Moved(l, "CLAIMED")
        /\ work[l].status = "CLAIMED"
    BY <1>4 DEF RefenceClaimedRoot
  <2>5. journal' = Insert(noted, <<l, NextToken>>, e)
    BY <2>1
  <2> HIDE DEF e, noted
  <2>6. Granted(l)
    BY <2>2, <2>3, <2>4, <2>5, GrantedStep
  <2>7. lease'.token # lease.token /\ ~lease'.completed
    BY <2>6 DEF Granted, TypeOK, LeaseRow
  <2>8. \A j \in DOMAIN journal : journal'[j] = noted[j]
    BY <2>2, <2>3, <2>5, InsertMoves
  <2>9. FreedTogether
    BY <2>1, <2>2, <2>6, <2>8 DEF FreedTogether, NoEffect
  <2> QED BY <2>6, <2>7, <2>9 DEF WorkExplained, NothingGranted, CompletedTogether
<1>5. ASSUME NEW k \in DOMAIN journal, NEW r \in Result, RecordResult(k, r)
      PROVE  Moves
  <2>1. /\ DOMAIN journal' = DOMAIN journal
        /\ \A j \in DOMAIN journal : journal'[j].outcomes = journal[j].outcomes
    BY <1>5, JournalWrites DEF RecordResult
  <2>2. NothingGranted /\ WorkExplained /\ CompletedTogether
    BY <1>5, <2>1, IdleStep DEF RecordResult
  <2> QED BY <2>1, <2>2, OutcomesStay
<1>6. ASSUME NEW k \in DOMAIN journal, RecordVerification(k)
      PROVE  Moves
  <2>1. /\ DOMAIN journal' = DOMAIN journal
        /\ \A j \in DOMAIN journal : journal'[j].outcomes = journal[j].outcomes
    BY <1>6, JournalWrites DEF RecordVerification
  <2>2. NothingGranted /\ WorkExplained /\ CompletedTogether
    BY <1>6, <2>1, IdleStep DEF RecordVerification
  <2> QED BY <2>1, <2>2, OutcomesStay
<1>7. ASSUME NEW k \in DOMAIN journal, NEW g \in Nat, NEW at \in Readings,
             BeginVerification(k, g, FenceOf(k), at)
      PROVE  Moves
  <2>1. /\ ActiveLease(FenceOf(k), at) /\ work' = Moved(k[1], "VERIFYING")
        /\ work[k[1]].status = "RUNNING" /\ lease' = lease /\ journal' = journal
    BY <1>7 DEF BeginVerification
  <2>2. "VERIFYING" \in LeaseBound /\ "RUNNING" \in LeaseBound /\ "VERIFYING" \notin Terminal
    BY DEF LeaseBound, Terminal
  <2>3. NothingGranted /\ WorkExplained
    BY <2>1, <2>2, WorkedStep
  <2> QED BY <2>1, <2>3, OutcomesStay DEF CompletedTogether
<1>8. ASSUME NEW k \in DOMAIN journal, NEW g \in Nat, NEW s \in Terminal, NEW at \in Readings,
             FinalizeTerminalVerification(k, g, FenceOf(k), s, at)
      PROVE  Moves
  <2>1. /\ ActiveLease(FenceOf(k), at) /\ work' = Moved(k[1], s)
        /\ work[k[1]].status \in Status \ Terminal /\ lease' = FinalizedLease(s)
        /\ journal' = Verified(k, s) /\ journal[k].result # "NONE"
    BY <1>8 DEF FinalizeTerminalVerification, HasResult
  <2>2. k[1] \in Lineage /\ s \in Status /\ s \in {"OUTCOME_UNKNOWN"} \cup Terminal
    BY FenceType DEF Status
  <2>3. /\ DOMAIN journal' = DOMAIN journal
        /\ \A j \in DOMAIN journal : journal'[j].outcomes = journal[j].outcomes
        /\ journal'[k].verdicts = Append(journal[k].verdicts, s)
        /\ journal'[k].result = journal[k].result
    BY <2>1, <2>2, JournalWrites
  <2>4. Latest(journal'[k].verdicts) = s
    BY <2>2, <2>3, VerdictAppend
  <2>5. work'[k[1]] = [status |-> s, gen |-> work[k[1]].gen + 1]
    BY <2>1, <2>2, MovedType
  <2>6. Evidenced(k)' /\ work'[k[1]].status = s
    BY <2>1, <2>3, <2>4, <2>5 DEF Evidenced
  <2>7. work[k[1]].status \in LeaseBound \cup {"PENDING"}
    BY <2>1 DEF Status
  <2>8. /\ lease'.token = lease.token /\ lease'.holder \in {lease.holder, NoHolder}
        /\ s # "COMPLETE" => lease'.completed = lease.completed
    BY <2>1, FinalizedWrites
  <2>9. NothingGranted /\ WorkExplained
    BY <2>1, <2>3, <2>6, <2>7, <2>8, WorkedStep
  <2>10. CompletedTogether
    BY <2>2, <2>6, <2>8 DEF CompletedTogether, Completed
  <2> QED BY <2>3, <2>9, <2>10, OutcomesStay
<1>9. ASSUME NEW k \in DOMAIN journal, NEW g \in Nat, NEW s \in LeaseBound, NEW at \in Readings,
             CompareAndSwapStatus(k[1], g, s, FenceOf(k), at)
      PROVE  Moves
  <2>1. /\ ActiveLease(FenceOf(k), at) /\ work' = Moved(k[1], s)
        /\ work[k[1]].status \in Status \ Terminal /\ lease' = lease /\ journal' = journal
    BY <1>9 DEF CompareAndSwapStatus
  <2>2. work[k[1]].status \in LeaseBound \cup {"PENDING"} /\ s \notin Terminal
    BY <2>1 DEF LeaseBound, Status, Terminal
  <2>3. NothingGranted /\ WorkExplained
    BY <2>1, <2>2, WorkedStep
  <2> QED BY <2>1, <2>3, OutcomesStay DEF CompletedTogether
<1>10. ASSUME NEW k \in DOMAIN journal, NEW g \in Nat, NEW o \in Outcome, NEW allow \in BOOLEAN,
              ReconcileAdmitted(k, g, FenceOf(k), o, allow)
       PROVE  Moves
  <2>1. /\ Current(FenceOf(k)) /\ journal' = Reconciled(k, o)
        /\ work[k[1]].status \in {"CLAIMED", "RUNNING"}
    BY <1>10 DEF ReconcileAdmitted
  <2>2. /\ DOMAIN journal' = DOMAIN journal
        /\ journal'[k].outcomes = Append(journal[k].outcomes, o)
        /\ \A j \in DOMAIN journal : j # k => journal'[j] = journal[j]
    BY <2>1, JournalWrites
  <2>3. CASE o = "NO_EFFECT_CONFIRMED"
    <3>1. lease' = Released /\ work' = Moved(k[1], "FAILED_RETRYABLE")
      BY <1>10, <2>3 DEF ReconcileAdmitted
    <3>2. k[1] \in Lineage /\ "FAILED_RETRYABLE" \in Status \ Terminal
      BY FenceType DEF Status, LeaseBound, Terminal
    <3>3. /\ lease'.token = lease.token /\ lease'.holder = NoHolder
          /\ lease'.completed = lease.completed
      BY <3>1, LeaseWrites
    <3>4. /\ work'[k[1]] = [status |-> "FAILED_RETRYABLE", gen |-> work[k[1]].gen + 1]
          /\ \A m \in Lineage : m # k[1] => work'[m] = work[m]
      BY <3>1, <3>2, MovedType
    <3>5. work'[k[1]].status = "FAILED_RETRYABLE"
      BY <3>4
    <3>6. k = <<k[1], lease.token>> /\ lease.holder # NoHolder /\ ~lease.completed
      <4>1. FenceOf(k) \in Fence /\ FenceOf(k).token = k[2] /\ k = <<k[1], k[2]>>
        BY FenceType DEF FenceOf, TypeOK
      <4> QED BY <2>1, <4>1, CurrentMeans
    <3>7. Worked(k[1])
      BY <2>1, <3>2, <3>3, <3>5, <3>6 DEF Worked, LeaseBound
    <3>8. NothingGranted /\ WorkExplained
      BY <2>2, <3>3, <3>4, <3>7 DEF NothingGranted, WorkExplained
    <3>9. FreedTogether
      BY <2>2, <3>5 DEF FreedTogether, NoEffect
    <3> QED BY <3>3, <3>8, <3>9 DEF CompletedTogether
  <2>4. CASE o # "NO_EFFECT_CONFIRMED"
    <3>1. lease' = lease /\ work' = work
      BY <1>10, <2>4 DEF ReconcileAdmitted
    <3>2. NothingGranted /\ WorkExplained /\ CompletedTogether
      BY <2>2, <3>1, IdleStep
    <3>3. Latest(journal'[k].outcomes) = o
      BY <2>2, OutcomeAppend
    <3>4. FreedTogether
      BY <2>2, <2>4, <3>3 DEF FreedTogether, NoEffect
    <3> QED BY <3>2, <3>4
  <2> QED BY <2>3, <2>4
<1>11. ASSUME NEW k \in DOMAIN journal, NEW at \in Readings, Heartbeat(FenceOf(k), at)
       PROVE  Moves
  <2>1. lease' = Extended(at) /\ work' = work /\ journal' = journal
    BY <1>11 DEF Heartbeat
  <2>2. /\ lease'.token = lease.token /\ lease'.holder = lease.holder
        /\ lease'.completed = lease.completed
    BY <2>1, LeaseWrites
  <2>3. NothingGranted /\ WorkExplained /\ CompletedTogether
    BY <2>1, <2>2, IdleStep
  <2> QED BY <2>1, <2>3, OutcomesStay
<1> HIDE DEF Moves
<1>12. Moves
  BY NextCases, <1>1, <1>2, <1>3, <1>4, <1>5, <1>6, <1>7, <1>8, <1>9, <1>10, <1>11
<1>13. HistoryGrows
  BY StepGrows DEF OpenNext
<1> QED BY <1>12, <1>13 DEF Moves, JournaledFootprint

---------------------------------------------------------------------------
(* Footprints preserve the history invariant *)

LEMMA KeepsTokens ==
  ASSUME TypeOK, EveryTokenIsAttempted, JournaledFootprint
  PROVE  EveryTokenIsAttempted'
<1>1. \A t \in 1 .. lease.token : \E l \in Lineage : <<l, t>> \in DOMAIN journal'
  BY DEF EveryTokenIsAttempted, JournaledFootprint, HistoryGrows, Kept
<1>2. CASE NothingGranted
  BY <1>1, <1>2 DEF EveryTokenIsAttempted, NothingGranted
<1>3. ASSUME NEW l \in Lineage, Granted(l)
      PROVE  EveryTokenIsAttempted'
  <2>1. lease'.token = lease.token + 1 /\ <<l, lease.token + 1>> \in DOMAIN journal'
    BY <1>3 DEF Granted
  <2>2. \A t \in 1 .. lease'.token : t \in 1 .. lease.token \/ t = lease.token + 1
    BY <2>1 DEF TypeOK, LeaseRow
  <2> QED BY <1>1, <2>1, <2>2 DEF EveryTokenIsAttempted
<1> QED BY <1>2, <1>3 DEF JournaledFootprint

LEMMA KeepsHolder ==
  ASSUME TypeOK, HeldLeaseHasAttempt, JournaledFootprint
  PROVE  HeldLeaseHasAttempt'
<1> SUFFICES ASSUME lease'.holder # NoHolder
             PROVE  \E k \in DOMAIN journal' :
                      journal'[k].holder = lease'.holder /\ k[2] = lease'.token
  BY DEF HeldLeaseHasAttempt, FenceOf
<1>1. CASE NothingGranted
  <2>1. lease'.holder = lease.holder /\ lease'.token = lease.token
    BY <1>1 DEF NothingGranted
  <2>2. PICK k \in DOMAIN journal : FenceOf(k) = [holder |-> lease.holder, token |-> lease.token]
    BY <2>1 DEF HeldLeaseHasAttempt
  <2>3. journal[k].holder = lease.holder /\ k[2] = lease.token
    BY <2>2 DEF FenceOf
  <2>4. Kept(k)
    BY DEF JournaledFootprint, HistoryGrows
  <2> QED BY <2>1, <2>3, <2>4 DEF Kept
<1>2. ASSUME NEW l \in Lineage, Granted(l)
      PROVE  \E k \in DOMAIN journal' :
               journal'[k].holder = lease'.holder /\ k[2] = lease'.token
  <2>1. <<l, lease.token + 1>> \in DOMAIN journal'
    BY <1>2 DEF Granted
  <2> QED BY <1>2, <2>1 DEF Granted
<1> QED BY <1>1, <1>2 DEF JournaledFootprint

(* The attempts of a lineage that is not granted stay the same. *)
LEMMA AttemptsStay ==
  ASSUME TypeOK, JournaledFootprint, NEW l \in Lineage, ~Granted(l)
  PROVE  DOMAIN journal \subseteq DOMAIN journal' /\ AttemptsOf(l)' = AttemptsOf(l)
<1>1. CASE NothingGranted
  BY <1>1 DEF NothingGranted, AttemptsOf
<1>2. ASSUME NEW m \in Lineage, Granted(m)
      PROVE  DOMAIN journal \subseteq DOMAIN journal' /\ AttemptsOf(l)' = AttemptsOf(l)
  <2>1. m # l
    BY <1>2
  <2>2. DOMAIN journal' = DOMAIN journal \cup {<<m, lease.token + 1>>}
    BY <1>2 DEF Granted
  <2> QED BY <2>1, <2>2 DEF AttemptsOf
<1> QED BY <1>1, <1>2 DEF JournaledFootprint

(* The newest token is the newest attempt of its lineage. *)
LEMMA LastTokenIsNewest ==
  ASSUME TypeOK, FencesIdentifyAttempts, NEW l \in Lineage, <<l, lease.token>> \in DOMAIN journal
  PROVE  <<l, lease.token>> \in AttemptsOf(l) /\ Newest(<<l, lease.token>>)
  BY DEF TypeOK, LeaseRow, FencesIdentifyAttempts, AttemptsOf, Newest

(* A granted lineage has its grant as its newest attempt. *)
LEMMA GrantIsNewest ==
  ASSUME TypeOK', FencesIdentifyAttempts', NEW l \in Lineage, Granted(l)
  PROVE  \E k \in AttemptsOf(l)' : k[2] = lease.token + 1 /\ Newest(k)'
<1>1. <<l, lease'.token>> \in DOMAIN journal' /\ lease'.token = lease.token + 1
  BY DEF Granted
<1>2. <<l, lease'.token>> \in AttemptsOf(l)'
  BY <1>1 DEF AttemptsOf
<1>3. \A j \in DOMAIN journal' : j[2] <= lease'.token
  BY DEF TypeOK, LeaseRow, FencesIdentifyAttempts
<1>4. PICK k : k = <<l, lease'.token>>
  OBVIOUS
<1>5. Newest(k)'
  BY <1>3, <1>4 DEF Newest, AttemptsOf
<1> QED BY <1>1, <1>2, <1>4, <1>5

LEMMA KeepsNewest ==
  ASSUME TypeOK, TypeOK', FencesIdentifyAttempts, FencesIdentifyAttempts',
         MovedWorkHasNewest, JournaledFootprint
  PROVE  MovedWorkHasNewest'
<1> SUFFICES ASSUME NEW l \in Lineage, work'[l].status \notin {"ABSENT", "PENDING"}
             PROVE  \E k \in AttemptsOf(l)' : Newest(k)'
  BY DEF MovedWorkHasNewest
<1>1. CASE Granted(l)
  BY <1>1, GrantIsNewest
<1>2. CASE ~Granted(l)
  <2>1. AttemptsOf(l)' = AttemptsOf(l)
    BY <1>2, AttemptsStay
  <2>2. \A k \in AttemptsOf(l) : k[1] = l
    BY DEF AttemptsOf
  <2>3. \A k \in AttemptsOf(l) : Newest(k) => Newest(k)'
    BY <2>1, <2>2 DEF Newest
  <2>4. CASE work'[l] = work[l]
    BY <2>1, <2>3, <2>4 DEF MovedWorkHasNewest
  <2>5. CASE work'[l] # work[l]
    <3>1. NothingGranted
      <4>1. ASSUME NEW m \in Lineage, Granted(m)
            PROVE  FALSE
        BY <1>2, <2>5, <4>1 DEF Granted
      <4> QED BY <4>1 DEF JournaledFootprint
    <3>2. Worked(l)
      BY <2>5, <3>1 DEF JournaledFootprint, WorkExplained, RootedNow
    <3> QED BY <2>1, <2>3, <3>2, LastTokenIsNewest DEF Worked
  <2> QED BY <2>4, <2>5
<1> QED BY <1>1, <1>2

(* Work moved in this step, of a lineage that was not granted, was moved   *)
(* on its own fence or is new.                                             *)
LEMMA MovedMeans ==
  ASSUME JournaledFootprint, NEW l \in Lineage, ~Granted(l), work'[l] # work[l]
  PROVE  NothingGranted /\ (RootedNow(l) \/ Worked(l))
<1>1. ASSUME NEW m \in Lineage, Granted(m)
      PROVE  FALSE
  BY <1>1 DEF Granted
<1> QED BY <1>1 DEF JournaledFootprint, WorkExplained

LEMMA KeepsFreed ==
  ASSUME Inv, Inv', FreedWorkWaits, Footprint, JournaledFootprint
  PROVE  FreedWorkWaits'
<1> SUFFICES ASSUME NEW k \in DOMAIN journal', NoEffect(k)', Newest(k)'
             PROVE  work'[k[1]].status = "FAILED_RETRYABLE"
  BY DEF FreedWorkWaits
<1>1. /\ TypeOK /\ TypeOK' /\ FencesIdentifyAttempts /\ FencesIdentifyAttempts'
      /\ DeadFences /\ Rooted
  BY DEF Inv
<1>2. k \in DOMAIN journal /\ k[1] \in Lineage /\ k[2] \in Nat
  <2>1. k \in DOMAIN journal
    BY DEF Footprint, JournalMoves, Admitted, NoEffect, Latest
  <2> QED BY <1>1, <2>1, FenceType
<1>3. ~Granted(k[1])
  <2>1. SUFFICES ASSUME Granted(k[1]) PROVE FALSE
    OBVIOUS
  <2>2. PICK j \in AttemptsOf(k[1])' : j[2] = lease.token + 1
    BY <1>1, <1>2, <2>1, GrantIsNewest
  <2>3. j[2] <= k[2]
    BY DEF Newest
  <2>4. k[2] <= lease.token /\ lease.token \in Nat
    BY <1>1, <1>2 DEF FencesIdentifyAttempts, TypeOK, LeaseRow
  <2> QED BY <1>2, <2>2, <2>3, <2>4
<1>4. AttemptsOf(k[1])' = AttemptsOf(k[1])
  BY <1>1, <1>2, <1>3, AttemptsStay
<1>5. Newest(k)
  BY <1>4 DEF Newest
<1>6. CASE ~NoEffect(k)
  BY <1>2, <1>3, <1>6 DEF JournaledFootprint, FreedTogether
<1>7. CASE NoEffect(k)
  <2>1. work[k[1]].status = "FAILED_RETRYABLE"
    BY <1>2, <1>5, <1>7 DEF FreedWorkWaits
  <2>2. CASE work'[k[1]] = work[k[1]]
    BY <2>1, <2>2
  <2>3. CASE work'[k[1]] # work[k[1]]
    <3>1. Worked(k[1])
      <4>1. ~RootedNow(k[1])
        BY <1>1, <1>2, <2>1 DEF RootedNow, Rooted
      <4> QED BY <1>2, <1>3, <2>3, <4>1, MovedMeans
    <3>2. <<k[1], lease.token>> \in AttemptsOf(k[1]) /\ lease.holder # NoHolder
      BY <1>1, <1>2, <3>1, LastTokenIsNewest DEF Worked
    <3>3. lease.token <= k[2]
      BY <1>5, <3>2 DEF Newest
    <3>4. k[2] < lease.token
      BY <1>1, <1>2, <1>7, <3>2 DEF DeadFences
    <3> QED BY <1>1, <1>2, <3>3, <3>4 DEF TypeOK, LeaseRow
  <2> QED BY <2>2, <2>3
<1> QED BY <1>6, <1>7

LEMMA KeepsEvidence ==
  ASSUME Inv, Inv', TerminalWorkIsEvidenced, Footprint, JournaledFootprint
  PROVE  TerminalWorkIsEvidenced'
<1> SUFFICES ASSUME NEW l \in Lineage, work'[l].status \in Terminal
             PROVE  \E k \in AttemptsOf(l)' :
                      /\ Newest(k)'
                      /\ journal'[k].result # "NONE"
                      /\ Latest(journal'[k].verdicts) = work'[l].status
  BY DEF TerminalWorkIsEvidenced
<1>1. TypeOK /\ TypeOK' /\ FencesIdentifyAttempts /\ FencesIdentifyAttempts' /\ Rooted
  BY DEF Inv
<1>2. ~Granted(l)
  BY DEF Granted, Terminal
<1>3. AttemptsOf(l)' = AttemptsOf(l)
  BY <1>1, <1>2, AttemptsStay
<1>4. \A k \in AttemptsOf(l) : Newest(k) => Newest(k)'
  <2>1. \A k \in AttemptsOf(l) : k[1] = l
    BY DEF AttemptsOf
  <2> QED BY <1>3, <2>1 DEF Newest
<1>5. CASE work'[l] = work[l]
  <2>1. PICK k \in AttemptsOf(l) :
          /\ Newest(k)
          /\ journal[k].result # "NONE"
          /\ Latest(journal[k].verdicts) = work[l].status
    BY <1>5 DEF TerminalWorkIsEvidenced
  <2>2. k \in DOMAIN journal /\ Decided(k)
    BY <1>5, <2>1 DEF AttemptsOf, Decided
  <2>3. journal'[k].result = journal[k].result /\ journal'[k].verdicts = journal[k].verdicts
    BY <2>1, <2>2 DEF JournaledFootprint, HistoryGrows, Kept
  <2> QED BY <1>3, <1>4, <1>5, <2>1, <2>3
<1>6. CASE work'[l] # work[l]
  <2>1. NothingGranted /\ (RootedNow(l) \/ Worked(l))
    BY <1>2, <1>6, MovedMeans
  <2>2. Worked(l)
    BY <2>1 DEF RootedNow, Terminal
  <2>3. <<l, lease.token>> \in AttemptsOf(l) /\ Newest(<<l, lease.token>>)
    BY <1>1, <2>2, LastTokenIsNewest DEF Worked
  <2>4. PICK k : k = <<l, lease.token>>
    OBVIOUS
  <2>5. lease'.token = lease.token
    BY <2>1 DEF NothingGranted
  <2>6. journal'[k].result # "NONE" /\ Latest(journal'[k].verdicts) = work'[l].status
    BY <2>2, <2>4, <2>5 DEF Worked, Evidenced
  <2> QED BY <1>3, <1>4, <2>3, <2>4, <2>6
<1> QED BY <1>5, <1>6

(* A journaled caller completes work only together with a lease that was   *)
(* not completed: it puts its work as PENDING.                             *)
LEMMA CompletingMeans ==
  ASSUME Inv, Footprint, JournaledFootprint, NEW l \in Lineage,
         Completed(l)', work'[l] # work[l]
  PROVE  ~lease.completed /\ lease'.completed
<1>1. ~Granted(l)
  BY DEF Granted, Completed
<1>2. Worked(l)
  <2>1. ~RootedNow(l)
    BY DEF RootedNow, Completed
  <2> QED BY <1>1, <2>1, MovedMeans
<1>3. work[l].gen > 0
  <2>1. work[l].status # "ABSENT"
    BY <1>2 DEF Worked, LeaseBound
  <2>2. work[l].gen # 0
    BY <2>1 DEF Inv, Rooted
  <2>3. work[l].gen \in Nat
    BY DEF Inv, TypeOK, WorkRow
  <2> QED BY <2>2, <2>3
<1> QED BY <1>3 DEF Footprint, WorkMoves, Completed

LEMMA KeepsOneCompletion ==
  ASSUME Inv, OneCompletion, Footprint, JournaledFootprint
  PROVE  OneCompletion'
<1>1. ASSUME NEW l \in Lineage, Completed(l)'
      PROVE  lease'.completed /\ (lease.completed => Completed(l))
  <2>1. CASE work'[l] = work[l]
    <3>1. Completed(l) /\ lease.completed
      BY <1>1, <2>1 DEF Completed, OneCompletion
    <3> QED BY <3>1 DEF Footprint, LeaseMoves
  <2>2. CASE work'[l] # work[l]
    BY <1>1, <2>2, CompletingMeans
  <2> QED BY <2>1, <2>2
<1>2. ASSUME lease'.completed
      PROVE  \E l \in Lineage : Completed(l)'
  <2>1. CASE lease.completed
    <3>1. PICK l \in Lineage : Completed(l)
      BY <2>1 DEF OneCompletion
    <3>2. work'[l] = work[l]
      BY <3>1 DEF Footprint, WorkMoves, Completed, Terminal
    <3> QED BY <3>1, <3>2 DEF Completed
  <2>2. CASE ~lease.completed
    BY <1>2, <2>2 DEF JournaledFootprint, CompletedTogether
  <2> QED BY <2>1, <2>2
<1>3. lease'.completed <=> \E l \in Lineage : Completed(l)'
  BY <1>1, <1>2
<1>4. ASSUME NEW l \in Lineage, NEW m \in Lineage, Completed(l)', Completed(m)'
      PROVE  l = m
  <2>1. CASE lease.completed
    <3>1. Completed(l) /\ Completed(m)
      BY <1>1, <1>4, <2>1
    <3> QED BY <3>1 DEF OneCompletion
  <2>2. CASE ~lease.completed
    <3>1. ~Completed(l) /\ ~Completed(m)
      BY <2>2 DEF OneCompletion
    <3>2. work'[l] # work[l] /\ work'[m] # work[m]
      BY <1>4, <3>1 DEF Completed
    <3> QED BY <3>2 DEF Footprint, WorkMoves
  <2> QED BY <2>1, <2>2
<1> QED BY <1>3, <1>4 DEF OneCompletion

LEMMA InitHistory == Init => HistoryInv
<1> SUFFICES ASSUME Init PROVE HistoryInv
  OBVIOUS
<1>1. Inv /\ DOMAIN journal = {}
  BY InitInv DEF Init
<1>2. /\ \A l \in Lineage : work[l].status = "ABSENT"
      /\ lease.token = 0 /\ lease.holder = NoHolder /\ ~lease.completed
  BY DEF Init
<1>3. EveryTokenIsAttempted /\ HeldLeaseHasAttempt
  BY <1>2 DEF EveryTokenIsAttempted, HeldLeaseHasAttempt
<1>4. MovedWorkHasNewest /\ FreedWorkWaits /\ TerminalWorkIsEvidenced /\ OneCompletion
  BY <1>1, <1>2 DEF MovedWorkHasNewest, FreedWorkWaits, TerminalWorkIsEvidenced,
                    OneCompletion, Completed, Terminal
<1> QED BY <1>1, <1>3, <1>4 DEF HistoryInv

(* A step of the journaled callers leaves both kinds of footprints. *)
LEMMA BothFootprints ==
  ASSUME Inv, Next
  PROVE  Footprint /\ JournaledFootprint
<1>1. OpenNext
  BY DEF OpenNext
<1> QED BY <1>1, StepFootprint, JournaledStep DEF Inv

LEMMA NextHistory ==
  ASSUME HistoryInv, [Next]_vars
  PROVE  HistoryInv'
<1>1. Inv /\ Inv'
  BY NextInv, JournaledIsOpen DEF HistoryInv
<1>2. CASE UNCHANGED vars
  BY <1>1, <1>2 DEF HistoryInv, vars, EveryTokenIsAttempted, HeldLeaseHasAttempt, FenceOf,
                    MovedWorkHasNewest, FreedWorkWaits, NoEffect, Newest, AttemptsOf,
                    TerminalWorkIsEvidenced, OneCompletion, Completed
<1>3. CASE Next
  <2>1. Footprint /\ JournaledFootprint
    BY <1>1, <1>3, BothFootprints
  <2>2. TypeOK /\ TypeOK' /\ FencesIdentifyAttempts /\ FencesIdentifyAttempts'
    BY <1>1 DEF Inv
  <2>3. EveryTokenIsAttempted' /\ HeldLeaseHasAttempt' /\ MovedWorkHasNewest'
    BY <2>1, <2>2, KeepsTokens, KeepsHolder, KeepsNewest DEF HistoryInv
  <2>4. FreedWorkWaits' /\ TerminalWorkIsEvidenced' /\ OneCompletion'
    BY <1>1, <2>1, KeepsFreed, KeepsEvidence, KeepsOneCompletion DEF HistoryInv
  <2> QED BY <1>1, <2>3, <2>4 DEF HistoryInv
<1> QED BY <1>2, <1>3

(* What the journaled callers add to the store's invariant: each token was *)
(* admitted, and status, lease and evidence agree.                         *)
THEOREM HistoryInvariant == Spec => []HistoryInv
  BY InitHistory, NextHistory, PTL DEF Spec

---------------------------------------------------------------------------
(* The properties *)

(* Whoever holds the lease was admitted by an attempt in the journal. *)
THEOREM HoldersAreAttempted == Spec => []HeldLeaseHasAttempt
<1>1. HistoryInv => HeldLeaseHasAttempt
  BY DEF HistoryInv
<1> QED BY <1>1, HistoryInvariant, PTL

(* Terminal work has its verdict and its result in its newest attempt. *)
THEOREM TerminalWorkHasEvidence == Spec => []TerminalWorkIsEvidenced
<1>1. HistoryInv => TerminalWorkIsEvidenced
  BY DEF HistoryInv
<1> QED BY <1>1, HistoryInvariant, PTL

(* The lease is completed exactly when one lineage is COMPLETE. *)
THEOREM CompletesOnce == Spec => []OneCompletion
<1>1. HistoryInv => OneCompletion
  BY DEF HistoryInv
<1> QED BY <1>1, HistoryInvariant, PTL

(* The newest attempt of work that is claimed, running, verifying or of    *)
(* unknown outcome is among those that recovery reads as unresolved.       *)
THEOREM OpenWorkIsFound == Spec => []OpenWorkIsVisible
<1>1. HistoryInv => OpenWorkIsVisible
  <2> SUFFICES ASSUME HistoryInv, NEW l \in Lineage,
                      work[l].status \in LeaseBound \ {"FAILED_RETRYABLE"}
               PROVE  \E k \in AttemptsOf(l) : Newest(k) /\ k \in Unresolved
    BY DEF OpenWorkIsVisible
  <2>1. PICK k \in AttemptsOf(l) : Newest(k)
    BY DEF HistoryInv, MovedWorkHasNewest, LeaseBound
  <2>2. k \in DOMAIN journal /\ k[1] = l
    BY DEF AttemptsOf
  <2>3. ~NoEffect(k)
    BY <2>1, <2>2 DEF HistoryInv, FreedWorkWaits
  <2>4. ~Decided(k)
    BY <2>2 DEF HistoryInv, Inv, VerdictDecides, Decided, LeaseBound, Terminal
  <2>5. journal[k].verdicts \in Seq({"OUTCOME_UNKNOWN"} \cup Terminal)
    BY <2>2 DEF HistoryInv, Inv, TypeOK, Attempt
  <2>6. journal[k].verdicts = <<>> \/ Latest(journal[k].verdicts) = "OUTCOME_UNKNOWN"
    BY <2>4, <2>5 DEF Decided, Latest, Last
  <2>7. Phase(k) # "RESOLVED"
    BY <2>3, <2>6 DEF Phase, NoEffect
  <2> QED BY <2>1, <2>2, <2>7 DEF Unresolved
<1> QED BY <1>1, HistoryInvariant, PTL

(* Whoever calls the store, attempts and their notes are only added to. *)
THEOREM HistoryStays == OpenSpec => HistoryIsAppendOnly
<1>1. ASSUME Inv, [OpenNext]_vars
      PROVE  [\A k \in DOMAIN journal :
                LET a == journal[k] b == journal'[k] IN
                /\ k \in DOMAIN journal'
                /\ a.result # "NONE" => b.result = a.result
                /\ IsPrefix(a.verdicts, b.verdicts)
                /\ Decided(k) => b.verdicts = a.verdicts
                /\ IsPrefix(a.outcomes, b.outcomes)
                /\ Latest(a.outcomes) \in {"NO_EFFECT_CONFIRMED", "EFFECT_CONFIRMED"} =>
                     b.outcomes = a.outcomes]_vars
  <2>1. CASE OpenNext
    BY <1>1, <2>1, StepGrows DEF Inv, HistoryGrows, Kept
  <2> QED BY <1>1, <2>1
<1> QED BY <1>1, OpenInvariant, PTL DEF OpenSpec, HistoryIsAppendOnly

(* A step of a journaled caller moves work that exists only on a fence of  *)
(* that work's own lineage.                                                *)
THEOREM WorkKeepsToItsFence == Spec => WorkMovesUnderOwnFence
<1>1. ASSUME HistoryInv, [Next]_vars
      PROVE  [\A l \in Lineage :
                work[l].gen > 0 /\ work'[l] # work[l] =>
                  <<l, lease'.token>> \in DOMAIN journal']_vars
  <2>1. CASE Next
    <3> SUFFICES ASSUME NEW l \in Lineage, work[l].gen > 0, work'[l] # work[l]
                 PROVE  <<l, lease'.token>> \in DOMAIN journal'
      OBVIOUS
    <3>1. JournaledFootprint
      BY <1>1, <2>1, BothFootprints DEF HistoryInv
    <3>2. CASE Granted(l)
      BY <3>2 DEF Granted
    <3>3. CASE ~Granted(l)
      <4>1. NothingGranted /\ Worked(l)
        BY <3>1, <3>3, MovedMeans DEF RootedNow
      <4> QED BY <4>1 DEF NothingGranted, Worked
    <3> QED BY <3>2, <3>3
  <2> QED BY <1>1, <2>1
<1> QED BY <1>1, HistoryInvariant, PTL DEF Spec, WorkMovesUnderOwnFence

(* Once every clock sees the lease as expired, its fence moves no work but *)
(* to give it up.                                                          *)
THEOREM DeadFenceMovesNothing == Spec => DeadFenceIsInert
<1>1. ASSUME HistoryInv, [Next]_vars
      PROVE  [lease.expires + MaxLag <= now =>
                \A l \in Lineage : work'[l] # work[l] =>
                  \/ work'[l].status = "PENDING"
                  \/ work'[l].status = "CLAIMED" /\ lease'.token > lease.token
                  \/ work'[l].status = "FAILED_RETRYABLE" /\ lease'.holder = NoHolder]_vars
  <2>1. CASE Next
    <3> SUFFICES ASSUME lease.expires + MaxLag <= now, NEW l \in Lineage, work'[l] # work[l]
                 PROVE  \/ work'[l].status = "PENDING"
                        \/ work'[l].status = "CLAIMED" /\ lease'.token > lease.token
                        \/ work'[l].status = "FAILED_RETRYABLE" /\ lease'.holder = NoHolder
      OBVIOUS
    <3>1. JournaledFootprint
      BY <1>1, <2>1, BothFootprints DEF HistoryInv
    <3>2. lease.token \in Nat /\ lease.expires \in Nat /\ now \in Nat /\ MaxLag \in Nat
      BY <1>1, ParameterAssumption DEF HistoryInv, Inv, TypeOK, LeaseRow
    <3>3. CASE Granted(l)
      BY <3>2, <3>3 DEF Granted
    <3>4. CASE ~Granted(l)
      <4>1. RootedNow(l) \/ Worked(l)
        BY <3>1, <3>4, MovedMeans
      <4> QED BY <3>2, <4>1 DEF RootedNow, Worked
    <3> QED BY <3>3, <3>4
  <2> QED BY <1>1, <2>1
<1> QED BY <1>1, HistoryInvariant, PTL DEF Spec, DeadFenceIsInert

---------------------------------------------------------------------------
(* The quota *)

LEMMA SpentStays ==
  ASSUME HistoryGrows, DOMAIN journal' = DOMAIN journal
  PROVE  \A l \in Lineage : Spent(l)' = Spent(l)
<1>1. \A l \in Lineage : AttemptsOf(l)' = AttemptsOf(l)
  BY DEF AttemptsOf
<1>2. \A l \in Lineage : \A k \in AttemptsOf(l) : journal'[k].budgetGen = journal[k].budgetGen
  BY DEF HistoryGrows, Kept, AttemptsOf
<1> QED BY <1>1, <1>2 DEF Spent

LEMMA SpentGrows ==
  ASSUME HistoryGrows, NEW l \in Lineage, NEW t,
         DOMAIN journal' = DOMAIN journal \cup {<<l, t>>}
  PROVE  /\ Spent(l)' = Spent(l) \cup {journal'[<<l, t>>].budgetGen}
         /\ \A m \in Lineage : m # l => Spent(m)' = Spent(m)
<1>1. AttemptsOf(l)' = AttemptsOf(l) \cup {<<l, t>>}
  BY DEF AttemptsOf
<1>2. \A m \in Lineage : m # l => AttemptsOf(m)' = AttemptsOf(m)
  BY DEF AttemptsOf
<1>3. \A m \in Lineage : \A k \in AttemptsOf(m) : journal'[k].budgetGen = journal[k].budgetGen
  BY DEF HistoryGrows, Kept, AttemptsOf
<1>4. Spent(l)' = Spent(l) \cup {journal'[<<l, t>>].budgetGen}
  BY <1>1, <1>3 DEF Spent
<1>5. \A m \in Lineage : m # l => Spent(m)' = Spent(m)
  BY <1>2, <1>3 DEF Spent
<1> QED BY <1>4, <1>5

(* An admission into lineage l adds one admission to its account.          *)
LEMMA AdmitSpends ==
  ASSUME TypeOK, FencesIdentifyAttempts, HistoryGrows,
         NEW l \in Lineage, NEW bg \in Nat, NEW wg \in Nat, NEW h \in Holder,
         NEW at \in Readings, Admit(l, bg, wg, h, at)
  PROVE  /\ budget' = Charged(l) /\ Affordable(l) /\ budget[l].gen = bg
         /\ Spent(l)' = Spent(l) \cup {bg + 1}
         /\ \A m \in Lineage : m # l => Spent(m)' = Spent(m)
<1> DEFINE e == NewAttempt(h, bg + 1, wg + 1)
<1>1. e \in Attempt /\ e.budgetGen = bg + 1
  <2>1. bg + 1 \in Nat /\ wg + 1 \in Nat
    OBVIOUS
  <2> QED BY <2>1, NewAttemptRow
<1>2. journal' = Insert(journal, <<l, NextToken>>, e) /\ journal \in [DOMAIN journal -> Attempt]
  BY DEF Admit, TypeOK
<1> HIDE DEF e
<1>3. /\ DOMAIN journal' = DOMAIN journal \cup {<<l, NextToken>>}
      /\ journal'[<<l, NextToken>>] = e
  BY <1>1, <1>2, InsertMoves
<1>4. /\ Spent(l)' = Spent(l) \cup {journal'[<<l, NextToken>>].budgetGen}
      /\ \A m \in Lineage : m # l => Spent(m)' = Spent(m)
  BY <1>3, SpentGrows
<1> QED BY <1>1, <1>3, <1>4 DEF Admit

(* Re-fencing claim-only work adds an attempt and no admission.            *)
LEMMA RefenceSpends ==
  ASSUME TypeOK, FencesIdentifyAttempts, HistoryGrows,
         NEW l \in Lineage, NEW h \in Holder, NEW at \in Readings, RefenceClaimedRoot(l, h, at)
  PROVE  \A m \in Lineage : Spent(m)' = Spent(m)
<1> DEFINE e == NewAttempt(h, budget[l].gen, work[l].gen + 1)
<1>1. e \in Attempt /\ e.budgetGen = budget[l].gen
  <2>1. budget[l].gen \in Nat /\ work[l].gen + 1 \in Nat
    BY DEF TypeOK, BudgetRow, WorkRow
  <2> QED BY <2>1, NewAttemptRow
<1>2. PICK k \in AttemptsOf(l) :
        /\ journal[k].budgetGen = budget[l].gen
        /\ journal' = Insert(Reconciled(k, "NO_EFFECT_CONFIRMED"), <<l, NextToken>>, e)
  BY DEF RefenceClaimedRoot
<1> DEFINE noted == Reconciled(k, "NO_EFFECT_CONFIRMED")
<1>3. noted \in [DOMAIN journal -> Attempt]
  <2>1. k \in DOMAIN journal
    BY DEF AttemptsOf
  <2> QED BY <2>1, JournalWrites DEF Outcome
<1>4. journal' = Insert(noted, <<l, NextToken>>, e)
  BY <1>2
<1> HIDE DEF e, noted
<1>5. /\ DOMAIN journal' = DOMAIN journal \cup {<<l, NextToken>>}
      /\ journal'[<<l, NextToken>>] = e
  BY <1>1, <1>3, <1>4, InsertMoves
<1>6. /\ Spent(l)' = Spent(l) \cup {journal'[<<l, NextToken>>].budgetGen}
      /\ \A m \in Lineage : m # l => Spent(m)' = Spent(m)
  BY <1>5, SpentGrows
<1>7. budget[l].gen \in Spent(l)
  BY <1>2 DEF Spent
<1> QED BY <1>1, <1>5, <1>6, <1>7

LEMMA LedgerStays ==
  ASSUME TypeOK, BudgetIsTheLedger, budget' = budget,
         \A l \in Lineage : Spent(l)' = Spent(l)
  PROVE  BudgetIsTheLedger'
  BY DEF BudgetIsTheLedger

LEMMA LedgerOpens ==
  ASSUME TypeOK, BudgetIsTheLedger, NEW l \in Lineage, budget[l].gen = 0,
         budget' = [budget EXCEPT ![l] = RootBudget],
         \A m \in Lineage : Spent(m)' = Spent(m)
  PROVE  BudgetIsTheLedger'
<1>1. /\ budget'[l].gen = 1 /\ budget'[l].active = InitialBudget.active
      /\ budget'[l].jobs = InitialBudget.jobs
      /\ \A m \in Lineage : m # l => budget'[m] = budget[m]
  BY DEF TypeOK, RootBudget
<1>2. InitialBudget.active \in Nat /\ InitialBudget.jobs \in Nat
  BY ParameterAssumption
<1>3. Spent(l)' = 2 .. 1
  BY DEF BudgetIsTheLedger
<1> QED BY <1>1, <1>2, <1>3 DEF BudgetIsTheLedger

LEMMA LedgerCharges ==
  ASSUME TypeOK, BudgetIsTheLedger, NEW l \in Lineage, budget' = Charged(l), Affordable(l),
         Spent(l)' = Spent(l) \cup {budget[l].gen + 1},
         \A m \in Lineage : m # l => Spent(m)' = Spent(m)
  PROVE  BudgetIsTheLedger'
<1>1. budget[l] \in BudgetRow /\ budget[l].gen \in Nat /\ budget[l].gen # 0
  BY DEF TypeOK, BudgetRow, Affordable, BudgetIsTheLedger
<1>2. /\ budget'[l].gen = budget[l].gen + 1 /\ budget'[l].active = budget[l].active - 1
      /\ budget'[l].jobs = budget[l].jobs - 1
      /\ \A m \in Lineage : m # l => budget'[m] = budget[m]
  BY DEF TypeOK, Charged
<1>3. Spent(l)' = 2 .. budget'[l].gen
  BY <1>1, <1>2 DEF BudgetIsTheLedger
<1>4. InitialBudget.active \in Nat /\ InitialBudget.jobs \in Nat
  BY ParameterAssumption
<1>5. /\ budget'[l].active = InitialBudget.active - (budget'[l].gen - 1)
      /\ budget'[l].jobs = InitialBudget.jobs - (budget'[l].gen - 1)
  <2>1. budget[l].gen > 0
    BY <1>1
  <2>2. /\ budget[l].active = InitialBudget.active - (budget[l].gen - 1)
        /\ budget[l].jobs = InitialBudget.jobs - (budget[l].gen - 1)
    BY <2>1 DEF BudgetIsTheLedger
  <2> QED BY <1>1, <1>2, <1>4, <2>2
<1>6. budget'[l].gen # 0
  BY <1>1, <1>2
<1>7. ASSUME NEW m \in Lineage
      PROVE  /\ Spent(m)' = 2 .. budget'[m].gen
             /\ budget'[m].gen = 0 => budget'[m].active = 0
             /\ budget'[m].gen > 0 =>
                  /\ budget'[m].active = InitialBudget.active - (budget'[m].gen - 1)
                  /\ budget'[m].jobs = InitialBudget.jobs - (budget'[m].gen - 1)
  <2>1. CASE m = l
    BY <1>3, <1>5, <1>6, <2>1
  <2>2. CASE m # l
    BY <1>2, <2>2 DEF BudgetIsTheLedger
  <2> QED BY <2>1, <2>2
<1> QED BY <1>7 DEF BudgetIsTheLedger

(* Whoever calls the store, its budgets remain accounts of the journal.    *)
LEMMA NextLedger ==
  ASSUME Inv, BudgetIsTheLedger, [OpenNext]_vars
  PROVE  BudgetIsTheLedger'
<1>1. TypeOK /\ FencesIdentifyAttempts
  BY DEF Inv
<1>2. CASE UNCHANGED vars
  BY <1>2 DEF BudgetIsTheLedger, Spent, AttemptsOf, vars
<1>3. CASE OpenNext
  <2>1. HistoryGrows
    BY <1>1, <1>3, StepGrows
  <2>2. ASSUME NEW l \in Lineage, NEW bg \in Nat, NEW wg \in Nat, NEW h \in Holder,
               NEW at \in Readings, Admit(l, bg, wg, h, at)
        PROVE  BudgetIsTheLedger'
    BY <1>1, <2>1, <2>2, AdmitSpends, LedgerCharges
  <2>3. ASSUME NEW l \in Lineage, NEW h \in Holder, NEW at \in Readings,
               RefenceClaimedRoot(l, h, at)
        PROVE  BudgetIsTheLedger'
    <3>1. budget' = budget
      BY <2>3 DEF RefenceClaimedRoot
    <3> QED BY <1>1, <2>1, <2>3, <3>1, RefenceSpends, LedgerStays
  <2>4. ASSUME NEW l \in Lineage, InitializeRoot(l) \/ PutInitialBudget(l)
        PROVE  BudgetIsTheLedger'
    <3>1. /\ budget[l].gen = 0 /\ budget' = [budget EXCEPT ![l] = RootBudget]
          /\ DOMAIN journal' = DOMAIN journal
      BY <2>4 DEF InitializeRoot, PutInitialBudget
    <3> QED BY <1>1, <2>1, <3>1, SpentStays, LedgerOpens
  <2>5. ASSUME budget' = budget, DOMAIN journal' = DOMAIN journal
        PROVE  BudgetIsTheLedger'
    BY <1>1, <2>1, <2>5, SpentStays, LedgerStays
  <2>6. \/ \E l \in Lineage, bg \in Nat, wg \in Nat, h \in Holder, at \in Readings :
             Admit(l, bg, wg, h, at)
        \/ \E l \in Lineage, h \in Holder, at \in Readings : RefenceClaimedRoot(l, h, at)
        \/ \E l \in Lineage : InitializeRoot(l) \/ PutInitialBudget(l)
        \/ budget' = budget /\ DOMAIN journal' = DOMAIN journal
    <3>1. \A k \in DOMAIN journal :
            /\ \A r \in Result : DOMAIN Recorded(k, r) = DOMAIN journal
            /\ \A s : DOMAIN Verified(k, s) = DOMAIN journal
            /\ \A o : DOMAIN Reconciled(k, o) = DOMAIN journal
      BY DEF Recorded, Verified, Reconciled
    <3> QED BY <1>1, <1>3, <3>1, OpenNextCases
            DEF Tick, PutInitialWork, RecordResult, RecordVerification, BeginVerification,
                FinalizeTerminalVerification, ReconcileAdmitted, CompareAndSwapStatus,
                FinalizeTerminalStatus, ClaimLease, Heartbeat, ReleaseLease, CompleteLease
  <2> QED BY <2>2, <2>3, <2>4, <2>5, <2>6
<1> QED BY <1>2, <1>3

LEMMA InitLedger == Init => BudgetIsTheLedger /\ RetriesAreTheLedger
<1> SUFFICES ASSUME Init PROVE BudgetIsTheLedger /\ RetriesAreTheLedger
  OBVIOUS
<1>1. \A l \in Lineage : budget[l].gen = 0 /\ budget[l].active = 0 /\ work[l].status = "ABSENT"
  BY DEF Init
<1>2. \A l \in Lineage : Spent(l) = {}
  <2>1. \A l \in Lineage : AttemptsOf(l) = {}
    BY DEF Init, AttemptsOf
  <2> QED BY <2>1 DEF Spent
<1>3. 2 .. 0 = {}
  OBVIOUS
<1>4. BudgetIsTheLedger
  <2>1. ASSUME NEW l \in Lineage
        PROVE  Spent(l) = 2 .. budget[l].gen /\ ~(budget[l].gen > 0)
    <3>1. budget[l].gen = 0 /\ Spent(l) = {}
      BY <1>1, <1>2
    <3>2. 2 .. budget[l].gen = {}
      BY <3>1, <1>3
    <3> QED BY <3>1, <3>2
  <2> QED BY <1>1, <2>1 DEF BudgetIsTheLedger
<1>5. RetriesAreTheLedger
  BY <1>1 DEF RetriesAreTheLedger
<1> QED BY <1>4, <1>5

(* The admissions of a lineage are as many as the generations they gave    *)
(* its budget.                                                             *)
LEMMA SpentCardinality ==
  ASSUME TypeOK, BudgetIsTheLedger, NEW l \in Lineage
  PROVE  /\ budget[l].gen > 0 => Cardinality(Spent(l)) = budget[l].gen - 1
         /\ budget[l].gen = 0 => Cardinality(Spent(l)) = 0
<1>1. budget[l].gen \in Int /\ 2 \in Int /\ budget[l].gen >= 0
  BY DEF TypeOK, BudgetRow
<1>2. Cardinality(2 .. budget[l].gen) = IF 2 > budget[l].gen THEN 0 ELSE budget[l].gen - 2 + 1
  BY <1>1, FS_Interval
<1>3. Spent(l) = 2 .. budget[l].gen
  BY DEF BudgetIsTheLedger
<1> QED BY <1>1, <1>2, <1>3

(* The journal numbers a lineage's admissions without a gap, and its       *)
(* budget row is what they left, whoever calls the store.                  *)
THEOREM LedgerInvariant == OpenSpec => []BudgetIsTheLedger
<1>1. Init => BudgetIsTheLedger
  BY InitLedger
<1> QED BY <1>1, NextLedger, OpenInvariant, PTL DEF OpenSpec

(* Whoever calls the store, every job and active slot taken from a root    *)
(* budget is one admission in the journal.                                 *)
THEOREM QuotaConserved == OpenSpec => []QuotaIsConserved
<1>1. Inv /\ BudgetIsTheLedger => QuotaIsConserved
  <2> SUFFICES ASSUME Inv, BudgetIsTheLedger, NEW l \in Lineage, budget[l].gen > 0
               PROVE  /\ budget[l].gen = 1 + Cardinality(Spent(l))
                      /\ budget[l].jobs = InitialBudget.jobs - Cardinality(Spent(l))
                      /\ budget[l].active = InitialBudget.active - Cardinality(Spent(l))
    BY DEF QuotaIsConserved, Spent
  <2>1. Cardinality(Spent(l)) = budget[l].gen - 1 /\ budget[l].gen \in Nat
    BY SpentCardinality DEF Inv, TypeOK, BudgetRow
  <2> QED BY <2>1 DEF BudgetIsTheLedger
<1> QED BY <1>1, OpenInvariant, LedgerInvariant, PTL

---------------------------------------------------------------------------
(* Retries *)

(* Work moved by an attempt had been admitted, so it is not PENDING.       *)
LEMMA AttemptedIsAdmitted ==
  ASSUME TypeOK, BudgetIsTheLedger, RetriesAreTheLedger, NEW k \in DOMAIN journal
  PROVE  k[1] \in Lineage /\ budget[k[1]].gen > 1
<1>1. k[1] \in Lineage /\ k \in AttemptsOf(k[1])
  BY FenceType DEF AttemptsOf
<1>2. journal[k].budgetGen \in 2 .. budget[k[1]].gen
  BY <1>1 DEF BudgetIsTheLedger, Spent
<1> QED BY <1>1, <1>2 DEF TypeOK, BudgetRow

LEMMA RetriesStay ==
  ASSUME TypeOK, RetriesAreTheLedger, budget' = budget,
         \A l \in Lineage : work'[l] # work[l] =>
           budget[l].gen > 1 /\ work'[l].status \notin {"ABSENT", "PENDING"}
  PROVE  RetriesAreTheLedger'
<1> SUFFICES ASSUME NEW l \in Lineage
             PROVE  /\ work'[l].status = "ABSENT" <=> budget[l].gen = 0
                    /\ work'[l].status = "PENDING" <=> budget[l].gen = 1
                    /\ budget[l].gen = 1 => budget[l].retries = InitialBudget.retries
                    /\ budget[l].gen > 1 =>
                         budget[l].retries = InitialBudget.retries - (budget[l].gen - 2)
  BY DEF RetriesAreTheLedger
<1>1. budget[l].gen \in Nat
  BY DEF TypeOK, BudgetRow
<1> QED BY <1>1 DEF RetriesAreTheLedger

LEMMA RetriesCharged ==
  ASSUME TypeOK, RetriesAreTheLedger, NEW l \in Lineage, budget' = Charged(l),
         work[l].status \in {"PENDING", "FAILED_RETRYABLE", "OUTCOME_UNKNOWN"},
         work'[l].status = "CLAIMED",
         \A m \in Lineage : m # l => work'[m] = work[m]
  PROVE  RetriesAreTheLedger'
<1>1. budget[l].gen \in Nat /\ budget[l].retries \in Nat /\ InitialBudget.retries \in Nat
  BY ParameterAssumption DEF TypeOK, BudgetRow
<1>2. /\ budget'[l].gen = budget[l].gen + 1
      /\ budget'[l].retries = budget[l].retries - RetryConsumed(l)
      /\ \A m \in Lineage : m # l => budget'[m] = budget[m]
  BY DEF TypeOK, Charged
<1>3. budget[l].gen # 0
  BY DEF RetriesAreTheLedger
<1>4. budget'[l].gen > 1
  BY <1>1, <1>2, <1>3
<1>5. budget'[l].retries = InitialBudget.retries - (budget'[l].gen - 2)
  <2>1. CASE work[l].status = "PENDING"
    <3>1. budget[l].gen = 1 /\ budget[l].retries = InitialBudget.retries /\ RetryConsumed(l) = 0
      BY <2>1 DEF RetriesAreTheLedger, RetryConsumed
    <3> QED BY <1>1, <1>2, <3>1
  <2>2. CASE work[l].status # "PENDING"
    <3>1. budget[l].gen > 1
      BY <1>1, <1>3, <2>2 DEF RetriesAreTheLedger
    <3>2. budget[l].retries = InitialBudget.retries - (budget[l].gen - 2) /\ RetryConsumed(l) = 1
      BY <2>2, <3>1 DEF RetriesAreTheLedger, RetryConsumed
    <3> QED BY <1>1, <1>2, <3>2
  <2> QED BY <2>1, <2>2
<1>6. ASSUME NEW m \in Lineage
      PROVE  /\ work'[m].status = "ABSENT" <=> budget'[m].gen = 0
             /\ work'[m].status = "PENDING" <=> budget'[m].gen = 1
             /\ budget'[m].gen = 1 => budget'[m].retries = InitialBudget.retries
             /\ budget'[m].gen > 1 =>
                  budget'[m].retries = InitialBudget.retries - (budget'[m].gen - 2)
  <2>1. CASE m = l
    <3>1. budget'[l].gen # 0 /\ budget'[l].gen # 1
      BY <1>1, <1>2, <1>4
    <3> QED BY <1>5, <2>1, <3>1
  <2>2. CASE m # l
    BY <1>2, <2>2 DEF RetriesAreTheLedger
  <2> QED BY <2>1, <2>2
<1> QED BY <1>6 DEF RetriesAreTheLedger

LEMMA NextRetries ==
  ASSUME Inv, BudgetIsTheLedger, RetriesAreTheLedger, [Next]_vars
  PROVE  RetriesAreTheLedger'
<1>1. TypeOK
  BY DEF Inv
<1>2. CASE UNCHANGED vars
  BY <1>1, <1>2, RetriesStay DEF vars
<1>3. ASSUME NEW l \in Lineage, InitializeRoot(l)
      PROVE  RetriesAreTheLedger'
  <2>1. /\ budget'[l].gen = 1 /\ budget'[l].retries = InitialBudget.retries
        /\ work'[l].status = "PENDING"
        /\ \A m \in Lineage : m # l => budget'[m] = budget[m] /\ work'[m] = work[m]
    BY <1>1, <1>3 DEF TypeOK, InitializeRoot, RootBudget
  <2> QED BY <2>1 DEF RetriesAreTheLedger
<1>4. ASSUME NEW l \in Lineage, NEW bg \in Nat, NEW wg \in Nat, NEW h \in Holder,
             NEW at \in Readings, Admit(l, bg, wg, h, at)
      PROVE  RetriesAreTheLedger'
  <2>1. /\ budget' = Charged(l) /\ work' = Moved(l, "CLAIMED")
        /\ work[l].status \in {"PENDING", "FAILED_RETRYABLE", "OUTCOME_UNKNOWN"}
    BY <1>4, ClaimedFrom DEF Admit
  <2>2. "CLAIMED" \in Status
    BY DEF Status, LeaseBound
  <2>3. /\ work'[l] = [status |-> "CLAIMED", gen |-> work[l].gen + 1]
        /\ \A m \in Lineage : m # l => work'[m] = work[m]
    BY <1>1, <2>1, <2>2, MovedType
  <2>4. work'[l].status = "CLAIMED"
    BY <2>3
  <2> QED BY <1>1, <2>1, <2>3, <2>4, RetriesCharged
<1>5. ASSUME NEW l \in Lineage, NEW h \in Holder, NEW at \in Readings,
             RefenceClaimedRoot(l, h, at)
      PROVE  RetriesAreTheLedger'
  <2>1. budget' = budget /\ work' = Moved(l, "CLAIMED") /\ budget[l].gen = 2
    BY <1>5 DEF RefenceClaimedRoot
  <2>2. "CLAIMED" \in Status
    BY DEF Status, LeaseBound
  <2>3. /\ work'[l] = [status |-> "CLAIMED", gen |-> work[l].gen + 1]
        /\ \A m \in Lineage : m # l => work'[m] = work[m]
    BY <1>1, <2>1, <2>2, MovedType
  <2>4. work'[l].status = "CLAIMED"
    BY <2>3
  <2> QED BY <1>1, <2>1, <2>3, <2>4, RetriesStay
<1>6. ASSUME NEW k \in DOMAIN journal, NEW s \in LeaseBound \cup Terminal,
             work' = Moved(k[1], s), budget' = budget
      PROVE  RetriesAreTheLedger'
  <2>1. k[1] \in Lineage /\ budget[k[1]].gen > 1
    BY <1>1, AttemptedIsAdmitted
  <2>2. s \in Status /\ s \notin {"ABSENT", "PENDING"}
    BY DEF Status, LeaseBound, Terminal
  <2>3. /\ work'[k[1]] = [status |-> s, gen |-> work[k[1]].gen + 1]
        /\ \A m \in Lineage : m # k[1] => work'[m] = work[m]
    BY <1>1, <1>6, <2>1, <2>2, MovedType
  <2>4. work'[k[1]].status = s
    BY <2>3
  <2> QED BY <1>1, <1>6, <2>1, <2>2, <2>3, <2>4, RetriesStay
<1>7. ASSUME work' = work, budget' = budget
      PROVE  RetriesAreTheLedger'
  BY <1>1, <1>7, RetriesStay
<1>8. ASSUME Next
      PROVE
        \/ \E l \in Lineage : InitializeRoot(l)
        \/ \E l \in Lineage, bg \in Nat, wg \in Nat, h \in Holder, at \in Readings :
             Admit(l, bg, wg, h, at)
        \/ \E l \in Lineage, h \in Holder, at \in Readings : RefenceClaimedRoot(l, h, at)
        \/ \E k \in DOMAIN journal, s \in LeaseBound \cup Terminal :
             work' = Moved(k[1], s) /\ budget' = budget
        \/ work' = work /\ budget' = budget
  <2>1. "VERIFYING" \in LeaseBound /\ "FAILED_RETRYABLE" \in LeaseBound
    BY DEF LeaseBound
  <2> QED BY <1>1, <1>8, <2>1, NextCases
          DEF Tick, RecordResult, RecordVerification, BeginVerification,
              FinalizeTerminalVerification, ReconcileAdmitted, CompareAndSwapStatus, Heartbeat
<1> QED BY <1>2, <1>3, <1>4, <1>5, <1>6, <1>7, <1>8

(* Under the journaled callers every admission after the first took one    *)
(* retry.                                                                  *)
THEOREM RetriesInvariant == Spec => []RetriesAreTheLedger
<1>1. Init => RetriesAreTheLedger
  BY InitLedger
<1> QED BY <1>1, NextRetries, OpenInvariant, LedgerInvariant, JournaledCallers, PTL DEF Spec

(* Each admission of a journaled caller after the first took a retry.      *)
THEOREM RedispatchIsPaid == Spec => []RetriesArePaid
<1>1. Inv /\ BudgetIsTheLedger /\ RetriesAreTheLedger => RetriesArePaid
  <2> SUFFICES ASSUME Inv, BudgetIsTheLedger, RetriesAreTheLedger, NEW l \in Lineage,
                      Cardinality(Spent(l)) > 0
               PROVE  budget[l].retries = InitialBudget.retries - (Cardinality(Spent(l)) - 1)
    BY DEF RetriesArePaid, Spent
  <2>1. budget[l].gen \in Nat /\ InitialBudget.retries \in Nat
    BY ParameterAssumption DEF Inv, TypeOK, BudgetRow
  <2>2. budget[l].gen > 1 /\ Cardinality(Spent(l)) = budget[l].gen - 1
    BY <2>1, SpentCardinality DEF Inv
  <2> QED BY <2>1, <2>2 DEF RetriesAreTheLedger
<1> QED BY <1>1, OpenInvariant, LedgerInvariant, RetriesInvariant, JournaledCallers, PTL

---------------------------------------------------------------------------
(* The store implements the log of fenced attempts *)

(* The refinement mapping: the log of grants, and what was decided. *)
Log == [t \in 1 .. lease.token |-> CHOOSE l \in Lineage : <<l, t>> \in DOMAIN journal]
Decisions == [l \in Lineage |-> IF work[l].status \in Terminal THEN work[l].status ELSE "OPEN"]

(* The log holds the lineage of every token granted, and so the attempts   *)
(* of the journal can be read off it.  Stated of constants, to be used of  *)
(* the log before a step and of the log after it.                          *)
LEMMA LogTells ==
  ASSUME NEW n \in Nat, NEW D, NEW L \in [1 .. n -> Lineage],
         \A t \in 1 .. n : <<L[t], t>> \in D,
         \A j, k \in D : j[2] = k[2] => j = k
  PROVE  /\ L \in Seq(Lineage)
         /\ Len(L) = n
         /\ \A l \in Lineage, t \in 1 .. n : <<l, t>> \in D => L[t] = l
<1>1. L \in Seq(Lineage)
  <2>1. [1 .. n -> Lineage] \in {[1 .. m -> Lineage] : m \in Nat}
    OBVIOUS
  <2>2. L \in UNION {[1 .. m -> Lineage] : m \in Nat}
    BY <2>1
  <2>3. Seq(Lineage) = UNION {[1 .. m -> Lineage] : m \in Nat}
    BY SeqDef, Zenon
  <2> QED BY <2>2, <2>3, Zenon
<1>2. Len(L) = n
  BY <1>1, LenProperties
<1>3. ASSUME NEW l \in Lineage, NEW t \in 1 .. n, <<l, t>> \in D
      PROVE  L[t] = l
  <2>1. <<L[t], t>> = <<l, t>>
    BY <1>3
  <2> QED BY <2>1
<1> QED BY <1>1, <1>2, <1>3

LEMMA LogOfJournal ==
  ASSUME HistoryInv
  PROVE  /\ Log \in Seq(Lineage)
         /\ Len(Log) = lease.token
         /\ \A t \in 1 .. lease.token : <<Log[t], t>> \in DOMAIN journal
         /\ \A l \in Lineage, t \in 1 .. lease.token : <<l, t>> \in DOMAIN journal => Log[t] = l
<1>1. lease.token \in Nat
  BY DEF HistoryInv, Inv, TypeOK, LeaseRow
<1>2. \A j, k \in DOMAIN journal : j[2] = k[2] => j = k
  BY DEF HistoryInv, Inv, FencesIdentifyAttempts
<1>3. \A t \in 1 .. lease.token : \E l \in Lineage : <<l, t>> \in DOMAIN journal
  BY DEF HistoryInv, EveryTokenIsAttempted
<1>4. \A t \in 1 .. lease.token : Log[t] = CHOOSE l \in Lineage : <<l, t>> \in DOMAIN journal
  BY DEF Log
<1>5. \A t \in 1 .. lease.token : Log[t] \in Lineage /\ <<Log[t], t>> \in DOMAIN journal
  BY <1>3, <1>4
<1>6. Log \in [1 .. lease.token -> Lineage]
  BY <1>5 DEF Log
<1> QED BY <1>1, <1>2, <1>5, <1>6, LogTells

(* A grant appends its lineage to the log, and decides nothing. *)
LEMMA GrantImplements ==
  ASSUME HistoryInv, HistoryInv', Footprint, NEW l \in Lineage, Granted(l)
  PROVE  /\ \A m \in Lineage : Decisions[m] # "COMPLETE"
         /\ Decisions[l] = "OPEN"
         /\ Log' = Append(Log, l)
         /\ Decisions' = Decisions
<1>1. lease.token \in Nat /\ lease'.token = lease.token + 1 /\ ~lease.completed
  BY DEF HistoryInv, Inv, TypeOK, LeaseRow, Footprint, LeaseMoves, Granted
<1>2. \A m \in Lineage : work[m].status # "COMPLETE"
  BY <1>1 DEF HistoryInv, OneCompletion, Completed
<1>3. work[l].status \notin Terminal /\ work'[l].status \notin Terminal
  BY DEF Granted, Terminal
<1>4. Decisions' = Decisions
  BY <1>3 DEF Decisions, Granted
<1>5. Log' = Append(Log, l)
  <2>1. /\ Log \in Seq(Lineage) /\ Len(Log) = lease.token
        /\ \A t \in 1 .. lease.token : <<Log[t], t>> \in DOMAIN journal
    BY LogOfJournal
  <2>2. /\ Log' \in Seq(Lineage) /\ Len(Log') = lease'.token
        /\ \A m \in Lineage, t \in 1 .. lease'.token : <<m, t>> \in DOMAIN journal' => Log'[t] = m
    <3>1. lease'.token \in Nat
      BY <1>1
    <3>2. \A j, k \in DOMAIN journal' : j[2] = k[2] => j = k
      BY DEF HistoryInv, Inv, FencesIdentifyAttempts
    <3>3. \A t \in 1 .. lease'.token : \E m \in Lineage : <<m, t>> \in DOMAIN journal'
      BY DEF HistoryInv, EveryTokenIsAttempted
    <3>4. \A t \in 1 .. lease'.token : Log'[t] = CHOOSE m \in Lineage : <<m, t>> \in DOMAIN journal'
      BY DEF Log
    <3>5. \A t \in 1 .. lease'.token : Log'[t] \in Lineage /\ <<Log'[t], t>> \in DOMAIN journal'
      BY <3>3, <3>4
    <3>6. Log' \in [1 .. lease'.token -> Lineage]
      BY <3>5 DEF Log
    <3> QED BY <3>1, <3>2, <3>5, <3>6, LogTells
  <2>3. /\ Append(Log, l) \in Seq(Lineage)
        /\ Len(Append(Log, l)) = lease.token + 1
        /\ \A t \in 1 .. lease.token : Append(Log, l)[t] = Log[t]
        /\ Append(Log, l)[lease.token + 1] = l
    BY <2>1, AppendProperties
  <2>4. \A t \in 1 .. lease.token : Log'[t] = Log[t]
    <3>1. DOMAIN journal \subseteq DOMAIN journal'
      BY DEF Granted
    <3>2. \A t \in 1 .. lease.token : Log[t] \in Lineage
      BY <2>1, ElementOfSeq
    <3>3. \A t \in 1 .. lease.token : t \in 1 .. lease'.token
      BY <1>1
    <3> QED BY <2>1, <2>2, <3>1, <3>2, <3>3
  <2>5. Log'[lease.token + 1] = l
    <3>1. <<l, lease.token + 1>> \in DOMAIN journal' /\ lease.token + 1 \in 1 .. lease'.token
      BY <1>1 DEF Granted
    <3> QED BY <2>2, <3>1
  <2>6. Len(Log') = Len(Append(Log, l))
    BY <1>1, <2>2, <2>3
  <2>7. \A t \in 1 .. Len(Log') : Log'[t] = Append(Log, l)[t]
    <3>1. \A t \in 1 .. Len(Log') : t \in 1 .. lease.token \/ t = lease.token + 1
      BY <1>1, <2>2
    <3> QED BY <2>3, <2>4, <2>5, <3>1
  <2> QED BY <2>2, <2>3, <2>6, <2>7, SeqEqual
<1> QED BY <1>2, <1>3, <1>4, <1>5 DEF Decisions, Terminal

(* Without a grant the log stays, and the work of the last lineage of the  *)
(* log is the only one that may be decided.                                *)
LEMMA DecisionImplements ==
  ASSUME HistoryInv, HistoryInv', Footprint, JournaledFootprint, NothingGranted
  PROVE  /\ Log' = Log
         /\ \/ Decisions' = Decisions
            \/ \E l \in Lineage, d \in Terminal :
                 /\ \A m \in Lineage : Decisions[m] # "COMPLETE"
                 /\ Decisions[l] = "OPEN"
                 /\ Log # <<>>
                 /\ Log[Len(Log)] = l
                 /\ Decisions' = [Decisions EXCEPT ![l] = d]
<1>1. Log' = Log
  BY DEF Log, NothingGranted
<1>2. \A l \in Lineage : work'[l] # work[l] => RootedNow(l) \/ Worked(l)
  BY DEF JournaledFootprint, WorkExplained
<1>3. \A l \in Lineage : RootedNow(l) => work[l].status \notin Terminal /\ work'[l].status \notin Terminal
  BY DEF RootedNow, HistoryInv, Inv, Rooted, Terminal
<1>4. \A l \in Lineage : Worked(l) => work[l].status \notin Terminal /\ <<l, lease.token>> \in DOMAIN journal
  BY DEF Worked, LeaseBound, Terminal
<1>5. CASE \A l \in Lineage : Worked(l) => work'[l].status \notin Terminal
  <2>1. \A l \in Lineage :
          work'[l] = work[l] \/ (work[l].status \notin Terminal /\ work'[l].status \notin Terminal)
    BY <1>2, <1>3, <1>4, <1>5
  <2>2. Decisions' = Decisions
    BY <2>1 DEF Decisions
  <2> QED BY <1>1, <2>2
<1>6. ASSUME NEW l \in Lineage, Worked(l), work'[l].status \in Terminal
      PROVE  \E d \in Terminal :
               /\ \A m \in Lineage : Decisions[m] # "COMPLETE"
               /\ Decisions[l] = "OPEN"
               /\ Log # <<>>
               /\ Log[Len(Log)] = l
               /\ Decisions' = [Decisions EXCEPT ![l] = d]
  <2>1. \A m \in Lineage : work[m].status # "COMPLETE"
    BY <1>6 DEF Worked, HistoryInv, OneCompletion, Completed
  <2>2. lease.token \in 1 .. lease.token
    BY <1>4, <1>6 DEF HistoryInv, Inv, FencesIdentifyAttempts
  <2>3. Log \in Seq(Lineage) /\ Len(Log) = lease.token /\ Log[lease.token] = l
    BY <1>4, <1>6, <2>2, LogOfJournal
  <2>4. Log # <<>>
    <3>1. Len(Log) # 0
      BY <2>2, <2>3 DEF HistoryInv, Inv, TypeOK, LeaseRow
    <3> QED BY <3>1
  <2>5. \A m \in Lineage : m # l => ~Worked(m)
    <3> SUFFICES ASSUME NEW m \in Lineage, Worked(m) PROVE m = l
      OBVIOUS
    <3>1. Log[lease.token] = m
      BY <1>4, <2>2, LogOfJournal
    <3> QED BY <2>3, <3>1
  <2>6. \A m \in Lineage : m # l =>
          work'[m] = work[m] \/ (work[m].status \notin Terminal /\ work'[m].status \notin Terminal)
    BY <1>2, <1>3, <2>5
  <2>7. Decisions' = [Decisions EXCEPT ![l] = work'[l].status]
    BY <1>6, <2>6 DEF Decisions
  <2>8. Decisions[l] = "OPEN" /\ \A m \in Lineage : Decisions[m] # "COMPLETE"
    BY <1>4, <1>6, <2>1 DEF Decisions, Terminal
  <2> QED BY <1>6, <2>3, <2>4, <2>7, <2>8
<1> QED BY <1>1, <1>5, <1>6

(* The durable store, used by journaled callers, is the log of fenced      *)
(* attempts: each of its steps grants one attempt, decides the work of the *)
(* last one, or changes neither the log nor the decisions.                 *)
THEOREM StoreImplementsAttempts == Spec => ImplementsFencedAttempts
<1>1. Init => Attempts!Init
  <2> SUFFICES ASSUME Init
               PROVE  Log = <<>> /\ Decisions = [l \in Lineage |-> "OPEN"]
    BY DEF Attempts!Init, Log, Decisions
  <2>1. lease.token = 0 /\ 1 .. 0 = {}
    BY DEF Init
  <2>2. Log = <<>>
    <3>1. Log \in [1 .. 0 -> Lineage]
      BY <2>1 DEF Log
    <3>2. Log \in Seq(Lineage)
      BY <3>1, SeqDef
    <3>3. Len(Log) = 0
      BY <3>1, <3>2, LenProperties
    <3> QED BY <3>2, <3>3, EmptySeq
  <2>3. \A l \in Lineage : work[l].status = "ABSENT"
    BY DEF Init
  <2> QED BY <2>2, <2>3 DEF Decisions, Terminal
<1>2. ASSUME HistoryInv, HistoryInv', [Next]_vars
      PROVE  [Attempts!Next]_<<Log, Decisions>>
  <2>1. CASE UNCHANGED vars
    <3>1. Log' = Log /\ Decisions' = Decisions
      BY <2>1 DEF vars, Log, Decisions
    <3> QED BY <3>1
  <2>2. CASE Next
    <3>1. Footprint /\ JournaledFootprint
      BY <1>2, <2>2, BothFootprints DEF HistoryInv
    <3>2. ASSUME NEW l \in Lineage, Granted(l)
          PROVE  Attempts!Grant(l)
      BY <1>2, <3>1, <3>2, GrantImplements DEF Attempts!Grant, Attempts!Closed, Log, Decisions
    <3>3. CASE NothingGranted
      <4>1. CASE Decisions' = Decisions
        BY <1>2, <3>1, <3>3, <4>1, DecisionImplements
      <4>2. CASE \E l \in Lineage, d \in Terminal :
                   /\ \A m \in Lineage : Decisions[m] # "COMPLETE"
                   /\ Decisions[l] = "OPEN"
                   /\ Log # <<>>
                   /\ Log[Len(Log)] = l
                   /\ Decisions' = [Decisions EXCEPT ![l] = d]
        <5>1. PICK l \in Lineage, d \in Terminal :
                   /\ \A m \in Lineage : Decisions[m] # "COMPLETE"
                   /\ Decisions[l] = "OPEN"
                   /\ Log # <<>>
                   /\ Log[Len(Log)] = l
                   /\ Decisions' = [Decisions EXCEPT ![l] = d]
          BY <4>2
        <5>2. Log' = Log
          BY <1>2, <3>1, <3>3, DecisionImplements
        <5>3. Attempts!Decide(l, d)
          BY <5>1, <5>2 DEF Attempts!Decide, Attempts!Closed, Log, Decisions
        <5> QED BY <5>3 DEF Attempts!Next, Attempts!Decision, Terminal
      <4> QED BY <1>2, <3>1, <3>3, <4>1, <4>2, DecisionImplements
    <3> QED BY <3>1, <3>2, <3>3 DEF JournaledFootprint, Attempts!Next
  <2> QED BY <1>2, <2>1, <2>2
<1> QED BY <1>1, <1>2, HistoryInvariant, PTL
        DEF Spec, ImplementsFencedAttempts, Attempts!Spec, Log, Decisions
=============================================================================
