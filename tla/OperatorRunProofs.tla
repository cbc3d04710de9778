------------------------- MODULE OperatorRunProofs -------------------------
(***************************************************************************)
(* Proofs about the operator's inspection runs.  A run learnt its fence    *)
(* by its own admission, so that each of its store calls is one that a     *)
(* journaled caller may make, and OperatorSpec implements the store's      *)
(* Spec: what DurableDispatchHistory proves of such callers holds of runs. *)
(* That a run's report is true, and stays true, rests on one more fact: a  *)
(* lineage is rooted once, so at most one run gets past initialize_root.   *)
(***************************************************************************)
EXTENDS OperatorReadings, DurableDispatchHistory

---------------------------------------------------------------------------
(* The inductive invariant *)

Pc == Calls \cup {"EXECUTE", "CLOCK", "VERIFY", "DONE", "REFUSED"}

Verdict == {"OUTCOME_UNKNOWN"} \cup Terminal

RunRow ==
  [pc : Pc, token : Nat, gen : Nat, next : 1 .. Inputs,
   result : {"NONE", "SUCCEEDED", "PRECONDITION_FAILED", "TRANSPORT_FAILED"},
   verdict : {"NONE"} \cup Verdict, at : Nat]

(* A run judges once, and its verdict says how it goes on. *)
Judging(a) ==
  /\ a.verdict # "NONE" => a.pc \in {"FINALIZE", "NOTE", "SUSPEND", "DONE", "REFUSED"}
  /\ a.pc = "FINALIZE" => a.verdict \in Terminal
  /\ a.pc \in {"NOTE", "SUSPEND"} => a.verdict = "OUTCOME_UNKNOWN"

(* A run that got past initialize_root and may still call the store, or    *)
(* has reported.                                                           *)
Going(r) == run[r].pc \notin {"INITIALIZE", "REFUSED"}

(* The attempt of an admitted run is in the journal, under its holder.     *)
Placed(r) ==
  /\ Going(r) => work[LineageOf[r]].gen > 0
  /\ Going(r) /\ run[r].pc # "ADMIT" => run[r].token > 0
  /\ run[r].token > 0 =>
       AttemptOf(r) \in DOMAIN journal /\ journal[AttemptOf(r)].holder = HolderOf[r]
  /\ run[r].at <= now

(* What the store says of a run that is about to report, or has.           *)
Reporting(r) ==
  /\ At(r, "SUSPEND") => Latest(journal[AttemptOf(r)].verdicts) = run[r].verdict
  /\ At(r, "DONE") =>
       /\ work[LineageOf[r]] = [status |-> run[r].verdict, gen |-> run[r].gen]
       /\ Latest(journal[AttemptOf(r)].verdicts) = run[r].verdict
       /\ run[r].verdict \in Verdict

(* At most one run of a lineage got past initialize_root. *)
OneRunPerLineage ==
  \A r, s \in Run : Going(r) /\ Going(s) /\ LineageOf[r] = LineageOf[s] => r = s

OperatorInv ==
  /\ HistoryInv
  /\ now <= MaxTime
  /\ run \in [Run -> RunRow]
  /\ moved \subseteq 1 .. Inputs
  /\ \A r \in Run : Judging(run[r])
  /\ \A r \in Run : Placed(r) /\ Reporting(r)
  /\ OneRunPerLineage

---------------------------------------------------------------------------
(* A run's step is a step of a journaled caller *)

LEMMA RunFacts ==
  ASSUME OperatorInv, NEW r \in Run
  PROVE  /\ LineageOf[r] \in Lineage /\ HolderOf[r] \in Holder
         /\ run[r] \in RunRow /\ run[r].token \in Nat /\ run[r].at \in Nat /\ run[r].gen \in Nat
         /\ TypeOK /\ now \in Nat /\ now <= MaxTime /\ run[r].at <= now
         /\ Going(r) /\ run[r].pc # "ADMIT" => run[r].token > 0
<1>1. run[r] \in RunRow /\ TypeOK /\ now <= MaxTime
  BY DEF OperatorInv, HistoryInv, Inv
<1>2. run[r].at <= now /\ (Going(r) /\ run[r].pc # "ADMIT" => run[r].token > 0)
  BY DEF OperatorInv, Placed
<1> QED BY <1>1, <1>2, OperatorAssumption DEF RunRow, TypeOK

(* The fence an admitted run presents is that of its own attempt. *)
LEMMA AttemptOfRun ==
  ASSUME OperatorInv, NEW r \in Run, run[r].token > 0
  PROVE  /\ AttemptOf(r) \in DOMAIN journal
         /\ AttemptOf(r)[1] = LineageOf[r] /\ AttemptOf(r)[2] = run[r].token
         /\ FenceOf(AttemptOf(r)) = LeaseOf(r)
<1>1. AttemptOf(r) \in DOMAIN journal /\ journal[AttemptOf(r)].holder = HolderOf[r]
  BY DEF OperatorInv, Placed
<1> QED BY <1>1 DEF AttemptOf, FenceOf, LeaseOf

(* A clock value may be used at any time after it was read. *)
LEMMA OldReading ==
  ASSUME OperatorInv, NEW t \in Nat, t <= now
  PROVE  t \in Readings
<1>1. now \in Nat /\ now <= MaxTime
  BY DEF OperatorInv, HistoryInv, Inv, TypeOK
<1> QED BY <1>1, OperatorAssumption, ParameterAssumption DEF Readings

LEMMA CallIsJournaled ==
  ASSUME OperatorInv, NEW r \in Run, Call(r)
  PROVE  Next
<1>1. /\ LineageOf[r] \in Lineage /\ HolderOf[r] \in Holder /\ TypeOK
      /\ run[r].at \in Readings
  BY RunFacts, OldReading
<1>2. /\ work[LineageOf[r]].gen \in Generations(LineageOf[r])
      /\ budget[LineageOf[r]].gen \in 0 .. budget[LineageOf[r]].gen
  BY <1>1 DEF TypeOK, WorkRow, BudgetRow, Generations
<1>3. {"RUNNING", "VERIFYING", "OUTCOME_UNKNOWN"} \subseteq LeaseBound
      /\ "CONCLUSIVE" \in Result
  BY DEF LeaseBound, Result
<1>4. CASE Initialize(r)
  BY <1>1, <1>4 DEF Initialize, Next
<1>5. ASSUME NEW clock \in Readings, AdmitRoot(r, clock)
      PROVE  Next
  <2>1. Admit(LineageOf[r], 1, run[r].gen, HolderOf[r], clock)
    BY <1>5 DEF AdmitRoot
  <2>2. work[LineageOf[r]].gen = run[r].gen /\ budget[LineageOf[r]].gen = 1
    BY <2>1 DEF Admit
  <2>3. Admission(LineageOf[r])
    BY <1>1, <1>2, <2>1, <2>2 DEF Admission
  <2> QED BY <1>1, <2>3 DEF Next
<1>6. ASSUME run[r].token > 0, NEW at \in Readings, NEW s \in LeaseBound,
             CompareAndSwapStatus(LineageOf[r], run[r].gen, s, LeaseOf(r), at)
      PROVE  Next
  <2>1. AttemptOf(r) \in DOMAIN journal /\ AttemptOf(r)[1] = LineageOf[r]
        /\ FenceOf(AttemptOf(r)) = LeaseOf(r)
    BY <1>6, AttemptOfRun
  <2>2. run[r].gen \in Generations(AttemptOf(r)[1])
    BY <1>2, <1>6, <2>1 DEF CompareAndSwapStatus
  <2>3. CompareAndSwapStatus(AttemptOf(r)[1], run[r].gen, s, FenceOf(AttemptOf(r)), at)
    BY <1>6, <2>1
  <2>4. Lifecycle(AttemptOf(r))
    BY <1>6, <2>2, <2>3 DEF Lifecycle
  <2> QED BY <2>1, <2>4 DEF Next
<1>7. ASSUME NEW clock \in Readings, Start(r, clock) \/ Begin(r, clock)
      PROVE  Next
  <2>1. run[r].token > 0
    BY <1>7, RunFacts DEF Start, Begin, At, Going
  <2> QED BY <1>3, <1>6, <1>7, <2>1 DEF Start, Begin
<1>8. CASE Record(r) \/ Note(r)
  <2>1. run[r].token > 0
    BY <1>8, RunFacts DEF Record, Note, At, Going
  <2>2. AttemptOf(r) \in DOMAIN journal
    BY <2>1, AttemptOfRun
  <2>3. Observation(AttemptOf(r))
    BY <1>3, <1>8 DEF Record, Note, Observation
  <2> QED BY <2>2, <2>3 DEF Next
<1>9. CASE Suspend(r)
  <2>1. run[r].token > 0
    BY <1>9, RunFacts DEF Suspend, At, Going
  <2> QED BY <1>1, <1>3, <1>6, <1>9, <2>1 DEF Suspend
<1>10. CASE Finalize(r)
  <2>1. run[r].token > 0
    BY <1>10, RunFacts DEF Finalize, At, Going
  <2>2. AttemptOf(r) \in DOMAIN journal /\ AttemptOf(r)[1] = LineageOf[r]
        /\ FenceOf(AttemptOf(r)) = LeaseOf(r)
    BY <2>1, AttemptOfRun
  <2>3. run[r].verdict \in Terminal
    BY <1>10 DEF Finalize, At, OperatorInv, Judging
  <2>4. FinalizeTerminalVerification(AttemptOf(r), run[r].gen, FenceOf(AttemptOf(r)),
                                     run[r].verdict, run[r].at)
    BY <1>10, <2>2 DEF Finalize
  <2>5. run[r].gen \in Generations(AttemptOf(r)[1])
    BY <1>2, <2>2, <2>4 DEF FinalizeTerminalVerification
  <2>6. Lifecycle(AttemptOf(r))
    BY <1>1, <2>3, <2>4, <2>5 DEF Lifecycle
  <2> QED BY <2>2, <2>6 DEF Next
<1> QED BY <1>4, <1>5, <1>7, <1>8, <1>9, <1>10 DEF Call, ClockedCall, OtherCall

LEMMA StepIsJournaled ==
  ASSUME OperatorInv, [OperatorNext]_operatorVars
  PROVE  [Next]_vars
<1>1. CASE UNCHANGED operatorVars
  BY <1>1 DEF operatorVars
<1>2. ASSUME NEW r \in Run, Step(r)
      PROVE  [Next]_vars
  BY <1>2, CallIsJournaled DEF Step, Refuse, Execute, ReadClock, Verify
<1>3. ASSUME NEW i \in 1 .. Inputs, Move(i)
      PROVE  [Next]_vars
  BY <1>3 DEF Move
<1>4. ASSUME NEW k \in DOMAIN journal, Reconcile(k)
      PROVE  [Next]_vars
  BY <1>4 DEF Reconcile, Next
<1>5. CASE Tick
  BY <1>5 DEF Next
<1> QED BY <1>1, <1>2, <1>3, <1>4, <1>5 DEF OperatorNext

---------------------------------------------------------------------------
(* What a step leaves of the runs that do not take it *)

LEMMA StoreStep ==
  ASSUME OperatorInv, [Next]_vars
  PROVE  /\ HistoryInv' /\ HistoryGrows
         /\ \A l \in Lineage : work[l].gen > 0 => work'[l].gen > 0
<1>1. HistoryInv /\ TypeOK /\ Rooted /\ FencesIdentifyAttempts
  BY DEF OperatorInv, HistoryInv, Inv
<1>2. HistoryInv'
  BY <1>1, NextHistory
<1>3. CASE UNCHANGED vars
  <2>1. HistoryGrows
    BY <1>1, <1>3, UnnotedIsKept DEF HistoryGrows, vars
  <2> QED BY <1>2, <1>3, <2>1 DEF vars
<1>4. CASE Next
  <2>1. HistoryGrows
    BY <1>1, <1>4, StepGrows DEF OpenNext
  <2>2. WorkMoves
    BY <1>1, <1>4, StepFootprint DEF OpenNext, Footprint
  <2>3. \A l \in Lineage : work[l].gen > 0 => work'[l].gen > 0
    BY <2>2 DEF WorkMoves
  <2> QED BY <1>2, <2>1, <2>3
<1> QED BY <1>3, <1>4

(* A run keeps its place, and its report, if the step leaves its work and  *)
(* the verdicts of its attempt alone once it reports.                      *)
LEMMA RunStands ==
  ASSUME OperatorInv, [Next]_vars, now' \in Nat, now <= now',
         NEW s \in Run, run'[s] = run[s],
         At(s, "DONE") => work'[LineageOf[s]] = work[LineageOf[s]],
         At(s, "SUSPEND") \/ At(s, "DONE") =>
           journal'[AttemptOf(s)].verdicts = journal[AttemptOf(s)].verdicts
  PROVE  Placed(s)' /\ Reporting(s)'
<1>1. HistoryGrows /\ \A l \in Lineage : work[l].gen > 0 => work'[l].gen > 0
  BY StoreStep
<1>2. Placed(s) /\ Reporting(s) /\ LineageOf[s] \in Lineage
  BY RunFacts DEF OperatorInv
<1>3. AttemptOf(s)' = AttemptOf(s)
  BY DEF AttemptOf
<1>4. \A k \in DOMAIN journal : k \in DOMAIN journal' /\ journal'[k].holder = journal[k].holder
  BY <1>1 DEF HistoryGrows, Kept
<1>5. Placed(s)'
  <2>1. run[s].at \in Nat /\ now \in Nat
    BY RunFacts
  <2> QED BY <1>1, <1>2, <1>3, <1>4, <2>1 DEF Placed, Going
<1>6. Reporting(s)'
  BY <1>2, <1>3 DEF Reporting, At
<1> QED BY <1>5, <1>6

LEMMA ReportedStatus ==
  ASSUME OperatorInv, NEW r \in Run, At(r, "DONE")
  PROVE  work[LineageOf[r]].status = run[r].verdict /\ run[r].verdict \in Verdict
<1>1. work[LineageOf[r]] = [status |-> run[r].verdict, gen |-> run[r].gen]
      /\ run[r].verdict \in Verdict
  BY DEF OperatorInv, Reporting
<1> QED BY <1>1

(* The other runs of r's lineage have not begun, or have been refused.     *)
LEMMA OthersAreElsewhere ==
  ASSUME OperatorInv, NEW r \in Run, NEW s \in Run, s # r, Going(s),
         Going(r) \/ work[LineageOf[r]].gen = 0
  PROVE  LineageOf[s] # LineageOf[r]
<1>1. work[LineageOf[s]].gen > 0
  BY DEF OperatorInv, Placed
<1> QED BY <1>1 DEF OperatorInv, OneRunPerLineage

(* One run moves from its row to b, and touches its own lineage only.      *)
LEMMA OneRunMoves ==
  ASSUME OperatorInv, [Next]_vars, now' = now, moved' = moved,
         NEW r \in Run, NEW b \in RunRow, run' = [run EXCEPT ![r] = b],
         Judging(b), Placed(r)', Reporting(r)',
         Going(r) \/ work[LineageOf[r]].gen = 0,
         \A l \in Lineage : l # LineageOf[r] => work'[l] = work[l],
         \A k \in DOMAIN journal :
           k[1] # LineageOf[r] => journal'[k].verdicts = journal[k].verdicts
  PROVE  OperatorInv'
<1>1. HistoryInv' /\ now' <= MaxTime /\ moved' \subseteq 1 .. Inputs
  BY StoreStep DEF OperatorInv
<1>2. run \in [Run -> RunRow] /\ now \in Nat
  BY RunFacts DEF OperatorInv
<1>3. /\ run' \in [Run -> RunRow] /\ run'[r] = b
      /\ \A s \in Run : s # r => run'[s] = run[s]
  BY <1>2
<1>4. \A s \in Run : Judging(run'[s])
  BY <1>3 DEF OperatorInv
<1>5. ASSUME NEW s \in Run, s # r
      PROVE  Placed(s)' /\ Reporting(s)'
  <2>1. CASE Going(s)
    <3>1. LineageOf[s] # LineageOf[r] /\ LineageOf[s] \in Lineage
      BY <1>5, <2>1, OthersAreElsewhere, RunFacts
    <3>2. work'[LineageOf[s]] = work[LineageOf[s]]
      BY <3>1
    <3>3. ASSUME At(s, "SUSPEND") \/ At(s, "DONE")
          PROVE  journal'[AttemptOf(s)].verdicts = journal[AttemptOf(s)].verdicts
      <4>1. run[s].token > 0
        BY <2>1, <3>3, RunFacts DEF At
      <4> QED BY <3>1, <4>1, AttemptOfRun
    <3> QED BY <1>2, <1>3, <1>5, <3>2, <3>3, RunStands
  <2>2. CASE ~Going(s)
    <3>1. ~At(s, "SUSPEND") /\ ~At(s, "DONE")
      BY <2>2 DEF Going, At
    <3> QED BY <1>2, <1>3, <1>5, <3>1, RunStands
  <2> QED BY <2>1, <2>2
<1>6. \A s \in Run : s # r /\ Going(s) => LineageOf[s] # LineageOf[r]
  BY OthersAreElsewhere
<1>7. \A s \in Run : s # r => (Going(s)' <=> Going(s))
  BY <1>3 DEF Going
<1>8. OneRunPerLineage'
  BY <1>6, <1>7 DEF OperatorInv, OneRunPerLineage
<1> QED BY <1>1, <1>3, <1>4, <1>5, <1>8 DEF OperatorInv

(* A run moves without the store. *)
LEMMA OneRunThinks ==
  ASSUME OperatorInv, UNCHANGED vars, moved' = moved, NEW r \in Run, NEW b \in RunRow,
         run' = [run EXCEPT ![r] = b], Judging(b),
         Going(r), run[r].pc # "ADMIT", b.token = run[r].token, b.at <= now,
         b.pc \notin {"SUSPEND", "DONE"}
  PROVE  OperatorInv'
<1>1. run'[r] = b
  BY DEF OperatorInv
<1>2. /\ Placed(r) /\ run[r].token > 0
      /\ AttemptOf(r)' = AttemptOf(r)
  BY <1>1, RunFacts DEF OperatorInv, AttemptOf
<1>3. Placed(r)'
  BY <1>1, <1>2 DEF Placed, Going, vars
<1>4. Reporting(r)'
  BY <1>1 DEF Reporting, At
<1> QED BY <1>3, <1>4, OneRunMoves DEF vars

(* A run that is refused has nothing more to say. *)
LEMMA RefuseKeeps ==
  ASSUME OperatorInv, NEW r \in Run, Refuse(r)
  PROVE  OperatorInv'
<1>1. PICK a : a = run[r]
  OBVIOUS
<1>2. PICK b : b = [a EXCEPT !.pc = "REFUSED"]
  OBVIOUS
<1>3. a \in RunRow
  BY <1>1, RunFacts
<1>4. b \in RunRow /\ b.pc = "REFUSED" /\ b.token = a.token /\ b.at = a.at
      /\ b.verdict = a.verdict /\ b.result = a.result
  BY <1>2, <1>3 DEF RunRow, Pc
<1>5. run' = [run EXCEPT ![r] = b] /\ moved' = moved /\ UNCHANGED vars
  BY <1>1, <1>2 DEF Refuse, Goes
<1>6. HistoryInv' /\ now' <= MaxTime /\ moved' \subseteq 1 .. Inputs /\ now \in Nat
  BY <1>5, StoreStep, RunFacts DEF OperatorInv, vars
<1>7. /\ run' \in [Run -> RunRow] /\ run'[r] = b
      /\ \A s \in Run : s # r => run'[s] = run[s]
  BY <1>4, <1>5 DEF OperatorInv
<1>8. Judging(b)
  BY <1>1, <1>4 DEF OperatorInv, Judging
<1>9. \A s \in Run : Judging(run'[s])
  BY <1>5, <1>7, <1>8 DEF OperatorInv
<1>10. ASSUME NEW s \in Run, s # r
       PROVE  Placed(s)' /\ Reporting(s)'
  BY <1>5, <1>6, <1>7, <1>10, RunStands DEF vars
<1>11. Placed(r)' /\ Reporting(r)'
  <2>1. Placed(r) /\ AttemptOf(r)' = AttemptOf(r)
    BY <1>1, <1>4, <1>7 DEF OperatorInv, AttemptOf
  <2> QED BY <1>1, <1>4, <1>5, <1>7, <2>1 DEF Placed, Reporting, Going, At, vars
<1>12. \A s \in Run : Going(s)' => Going(s)
  BY <1>4, <1>7 DEF Going
<1>13. OneRunPerLineage'
  BY <1>12 DEF OperatorInv, OneRunPerLineage
<1> QED BY <1>6, <1>7, <1>9, <1>10, <1>11, <1>13 DEF OperatorInv

---------------------------------------------------------------------------
(* The reads *)

LEMMA ExecuteKeeps ==
  ASSUME OperatorInv, NEW r \in Run, Execute(r)
  PROVE  OperatorInv'
<1>1. PICK a : a = run[r]
  OBVIOUS
<1>2. a \in RunRow /\ a.pc = "EXECUTE" /\ a.verdict = "NONE"
      /\ a.next \in 1 .. Inputs
  BY <1>1, RunFacts DEF Execute, At, OperatorInv, Judging, RunRow
<1>3. PICK b : /\ run' = [run EXCEPT ![r] = b] /\ moved' = moved
               /\ \/ a.next < Inputs /\ b = [a EXCEPT !.next = @ + 1]
                  \/ b = [a EXCEPT !.pc = "RECORD", !.result = "SUCCEEDED"]
                  \/ b = [a EXCEPT !.pc = "RECORD", !.result = "PRECONDITION_FAILED"]
                  \/ b = [a EXCEPT !.pc = "RECORD", !.result = "TRANSPORT_FAILED"]
  <2>1. CASE Goes(r, IF run[r].next < Inputs THEN [run[r] EXCEPT !.next = @ + 1]
                     ELSE [run[r] EXCEPT !.pc = "RECORD", !.result = "SUCCEEDED"])
    BY <1>1, <2>1 DEF Goes
  <2>2. CASE Goes(r, [run[r] EXCEPT !.pc = "RECORD", !.result = "PRECONDITION_FAILED"])
    BY <1>1, <2>2 DEF Goes
  <2>3. CASE Goes(r, [run[r] EXCEPT !.pc = "RECORD", !.result = "TRANSPORT_FAILED"])
    BY <1>1, <2>3 DEF Goes
  <2> QED BY <2>1, <2>2, <2>3 DEF Execute
<1>4. /\ b \in RunRow /\ b.pc \in {"EXECUTE", "RECORD"} /\ b.token = a.token /\ b.at = a.at
      /\ b.verdict = a.verdict
  <2>1. a.next < Inputs => a.next + 1 \in 1 .. Inputs
    BY <1>2, OperatorAssumption
  <2> QED BY <1>2, <1>3, <2>1 DEF RunRow, Pc, Calls
<1>5. Judging(b)
  BY <1>2, <1>4 DEF Judging
<1>6. UNCHANGED vars /\ Going(r) /\ run[r].pc # "ADMIT" /\ run[r].at <= now
  BY <1>1, <1>2, RunFacts DEF Execute, Going
<1> QED BY <1>1, <1>3, <1>4, <1>5, <1>6, OneRunThinks

LEMMA ReadClockKeeps ==
  ASSUME OperatorInv, NEW r \in Run, ReadClock(r)
  PROVE  OperatorInv'
<1>1. PICK a : a = run[r]
  OBVIOUS
<1>2. a \in RunRow /\ a.pc = "CLOCK" /\ a.verdict = "NONE"
  BY <1>1, RunFacts DEF ReadClock, At, OperatorInv, Judging, RunRow
<1>3. now \in Nat /\ 1 \in 1 .. Inputs
  BY RunFacts, OperatorAssumption
<1>4. PICK b : /\ run' = [run EXCEPT ![r] = b] /\ moved' = moved
               /\ b = [(IF a.result = "SUCCEEDED"
                        THEN [a EXCEPT !.pc = "VERIFY", !.next = 1]
                        ELSE Judged(r, Failed(a.result))) EXCEPT !.at = now]
  BY <1>1 DEF ReadClock, Goes
<1>5. UNCHANGED vars /\ Going(r) /\ run[r].pc # "ADMIT" /\ now <= now
  BY <1>1, <1>2, <1>3 DEF ReadClock, Going
<1>6. CASE a.result = "SUCCEEDED"
  <2>1. /\ b \in RunRow /\ b.pc = "VERIFY" /\ b.token = a.token /\ b.at = now /\ b.next = 1
        /\ b.verdict = a.verdict /\ b.result = a.result
    BY <1>2, <1>3, <1>4, <1>6 DEF RunRow, Pc
  <2>2. Judging(b)
    BY <1>2, <2>1 DEF Judging, RunRow
  <2> QED BY <1>1, <1>4, <1>5, <2>1, <2>2, OneRunThinks
<1>7. CASE a.result # "SUCCEEDED"
  <2>1. Failed(a.result) \in {"SUPERSEDED", "FAILED_DETERMINISTIC"}
    BY DEF Failed
  <2>2. b = [[a EXCEPT !.verdict = Failed(a.result), !.pc = "FINALIZE"] EXCEPT !.at = now]
    BY <1>1, <1>4, <1>7, <2>1 DEF Judged
  <2>3. /\ b \in RunRow /\ b.pc = "FINALIZE" /\ b.token = a.token /\ b.at = now
        /\ b.verdict = Failed(a.result) /\ b.result = a.result
    BY <1>2, <1>3, <2>1, <2>2 DEF RunRow, Pc, Calls, Verdict, Terminal
  <2>4. Judging(b)
    BY <1>2, <2>1, <2>3 DEF Judging, Terminal
  <2> QED BY <1>1, <1>4, <1>5, <2>3, <2>4, OneRunThinks
<1> QED BY <1>6, <1>7

LEMMA VerifyKeeps ==
  ASSUME OperatorInv, NEW r \in Run, Verify(r)
  PROVE  OperatorInv'
<1>1. PICK a : a = run[r]
  OBVIOUS
<1>2. /\ a \in RunRow /\ a.pc = "VERIFY" /\ a.verdict = "NONE"
      /\ a.next \in 1 .. Inputs
      /\ a.token = run[r].token /\ a.at <= now /\ Inputs \in Nat
  BY <1>1, RunFacts, OperatorAssumption DEF Verify, At, OperatorInv, Judging, RunRow
<1>3. /\ UNCHANGED vars /\ Going(r) /\ run[r].pc # "ADMIT"
  BY <1>1, <1>2 DEF Verify, Going
<1>4. ASSUME NEW verdict \in {"COMPLETE", "SUPERSEDED", "OUTCOME_UNKNOWN"},
             Goes(r, Judged(r, verdict))
      PROVE  OperatorInv'
  <2>1. PICK b : b = Judged(r, verdict)
    OBVIOUS
  <2>2. b = [a EXCEPT !.verdict = verdict,
                      !.pc = IF verdict = "OUTCOME_UNKNOWN" THEN "NOTE" ELSE "FINALIZE"]
    BY <1>1, <2>1 DEF Judged
  <2>3. /\ b \in RunRow /\ b.token = a.token /\ b.at = a.at
        /\ b.pc = IF verdict = "OUTCOME_UNKNOWN" THEN "NOTE" ELSE "FINALIZE"
        /\ b.verdict = verdict
    BY <1>2, <2>2 DEF RunRow, Pc, Calls, Verdict, Terminal
  <2>4. Judging(b)
    BY <1>2, <1>4, <2>3 DEF Judging, Terminal
  <2>5. b.pc \notin {"SUSPEND", "DONE"} /\ b.at <= now /\ b.token = run[r].token
    BY <1>2, <2>3
  <2>6. run' = [run EXCEPT ![r] = b] /\ moved' = moved
    BY <1>4, <2>1 DEF Goes
  <2> QED BY <1>3, <2>3, <2>4, <2>5, <2>6, OneRunThinks
<1>5. ASSUME run[r].next < Inputs, Goes(r, [run[r] EXCEPT !.next = @ + 1])
      PROVE  OperatorInv'
  <2>1. PICK b : b = [a EXCEPT !.next = @ + 1]
    OBVIOUS
  <2>2. a.next + 1 \in 1 .. Inputs
    BY <1>1, <1>2, <1>5
  <2>3. b \in RunRow /\ b.pc = "VERIFY" /\ b.token = a.token /\ b.at = a.at
        /\ b.verdict = a.verdict
    BY <1>2, <2>1, <2>2 DEF RunRow
  <2>4. Judging(b)
    BY <1>2, <2>3 DEF Judging
  <2>5. run' = [run EXCEPT ![r] = b] /\ moved' = moved
    BY <1>1, <1>5, <2>1 DEF Goes
  <2> QED BY <1>2, <1>3, <2>3, <2>4, <2>5, OneRunThinks
<1> QED BY <1>4, <1>5 DEF Verify

---------------------------------------------------------------------------
(* The store calls *)

(* The row of a run after a call that moved its work on. *)
LEMMA AdvancedRow ==
  ASSUME OperatorInv, NEW r \in Run, NEW pc \in Pc, NEW b, b = Advanced(r, pc)
  PROVE  /\ b \in RunRow /\ b.pc = pc /\ b.gen = run[r].gen + 1
         /\ b.token = run[r].token /\ b.at = run[r].at /\ b.verdict = run[r].verdict
         /\ b.result = run[r].result
         /\ b.next = run[r].next
<1>1. PICK a : a = run[r]
  OBVIOUS
<1>2. a \in RunRow
  BY <1>1, RunFacts
<1>3. PICK n \in Nat : n = a.gen + 1
  BY <1>2 DEF RunRow
<1>4. b = [a EXCEPT !.pc = pc, !.gen = n]
  BY <1>1, <1>3 DEF Advanced
<1>5. /\ b \in RunRow /\ b.pc = pc /\ b.gen = n
      /\ b.token = a.token /\ b.at = a.at /\ b.verdict = a.verdict
      /\ b.result = a.result /\ b.next = a.next
  BY <1>2, <1>4 DEF RunRow
<1> QED BY <1>1, <1>3, <1>5

LEMMA InitializeKeeps ==
  ASSUME OperatorInv, NEW r \in Run, Initialize(r)
  PROVE  OperatorInv'
<1>1. PICK b : b = Advanced(r, "ADMIT")
  OBVIOUS
<1>2. /\ b \in RunRow /\ b.pc = "ADMIT" /\ b.token = run[r].token /\ b.at = run[r].at
      /\ b.verdict = run[r].verdict /\ b.result = run[r].result
  BY <1>1, AdvancedRow DEF Pc, Calls
<1>3. run' = [run EXCEPT ![r] = b] /\ moved' = moved /\ run[r].pc = "INITIALIZE"
  BY <1>1 DEF Initialize, Goes, At
<1>4. /\ LineageOf[r] \in Lineage /\ work[LineageOf[r]].gen = 0
      /\ work' = [work EXCEPT ![LineageOf[r]] = [status |-> "PENDING", gen |-> 1]]
      /\ now' = now /\ journal' = journal
  BY RunFacts DEF Initialize, InitializeRoot
<1>5. /\ work'[LineageOf[r]].gen = 1
      /\ \A l \in Lineage : l # LineageOf[r] => work'[l] = work[l]
  BY <1>4, RunFacts DEF TypeOK
<1>6. [Next]_vars
  BY CallIsJournaled DEF Call, OtherCall
<1>7. Judging(b) /\ run'[r] = b
  BY <1>2, <1>3 DEF OperatorInv, Judging
<1>8. Placed(r)'
  <2>1. Placed(r) /\ AttemptOf(r)' = AttemptOf(r)
    BY <1>2, <1>7 DEF OperatorInv, AttemptOf
  <2> QED BY <1>2, <1>4, <1>5, <1>7, <2>1 DEF Placed, Going
<1>9. Reporting(r)'
  BY <1>2, <1>7 DEF Reporting, At
<1> QED BY <1>2, <1>3, <1>4, <1>5, <1>6, <1>7, <1>8, <1>9, OneRunMoves

LEMMA AdmitRootKeeps ==
  ASSUME OperatorInv, NEW r \in Run, NEW clock \in Readings, AdmitRoot(r, clock)
  PROVE  OperatorInv'
<1>1. PICK c : c = Advanced(r, "START")
  OBVIOUS
<1>2. /\ c \in RunRow /\ c.pc = "START" /\ c.at = run[r].at
      /\ c.verdict = run[r].verdict /\ c.result = run[r].result
  BY <1>1, AdvancedRow DEF Pc, Calls
<1>3. PICK b : b = [c EXCEPT !.token = NextToken]
  OBVIOUS
<1>4. LineageOf[r] \in Lineage /\ HolderOf[r] \in Holder /\ TypeOK /\ run[r].gen \in Nat
      /\ NextToken \in Nat /\ NextToken > 0
  <2>1. TypeOK
    BY RunFacts
  <2>2. NextToken \in Nat /\ NextToken > 0
    BY <2>1 DEF NextToken, TypeOK, LeaseRow
  <2> QED BY <2>1, <2>2, RunFacts
<1>5. /\ b \in RunRow /\ b.pc = "START" /\ b.token = NextToken /\ b.at = run[r].at
      /\ b.verdict = run[r].verdict /\ b.result = run[r].result
  BY <1>2, <1>3, <1>4 DEF RunRow
<1>6. run' = [run EXCEPT ![r] = b] /\ moved' = moved /\ run[r].pc = "ADMIT"
  BY <1>1, <1>3 DEF AdmitRoot, Goes, At
<1>7. /\ Admit(LineageOf[r], 1, run[r].gen, HolderOf[r], clock)
      /\ work' = Moved(LineageOf[r], "CLAIMED") /\ now' = now
      /\ journal' = Insert(journal, <<LineageOf[r], NextToken>>,
                           NewAttempt(HolderOf[r], 2, run[r].gen + 1))
  BY DEF AdmitRoot, Admit
<1>8. /\ work'[LineageOf[r]].gen > 0
      /\ \A l \in Lineage : l # LineageOf[r] => work'[l] = work[l]
  <2>1. "CLAIMED" \in Status /\ work[LineageOf[r]].gen + 1 > 0
    BY <1>4 DEF Status, LeaseBound, TypeOK, WorkRow
  <2>2. /\ work'[LineageOf[r]] = [status |-> "CLAIMED", gen |-> work[LineageOf[r]].gen + 1]
        /\ \A l \in Lineage : l # LineageOf[r] => work'[l] = work[l]
    BY <1>4, <1>7, <2>1, MovedType
  <2> QED BY <2>1, <2>2
<1>9. [Next]_vars
  BY CallIsJournaled DEF Call, ClockedCall
<1>10. Judging(b) /\ run'[r] = b
  BY <1>5, <1>6 DEF OperatorInv, Judging
<1>11. PICK e : e = NewAttempt(HolderOf[r], 2, run[r].gen + 1)
  OBVIOUS
<1>12. e \in Attempt /\ e.holder = HolderOf[r]
  <2>1. PICK bg \in Nat : bg = 2
    OBVIOUS
  <2>2. PICK wg \in Nat : wg = run[r].gen + 1
    BY <1>4
  <2>3. PICK h \in Holder : h = HolderOf[r]
    BY <1>4
  <2>4. NewAttempt(h, bg, wg) \in Attempt /\ NewAttempt(h, bg, wg).holder = h
    BY NewAttemptRow
  <2>5. e = NewAttempt(h, bg, wg)
    BY <1>11, <2>1, <2>2, <2>3
  <2> QED BY <2>3, <2>4, <2>5
<1>13. /\ <<LineageOf[r], NextToken>> \in DOMAIN journal'
       /\ journal'[<<LineageOf[r], NextToken>>] = e
       /\ \A k \in DOMAIN journal : k[1] # LineageOf[r] => journal'[k] = journal[k]
  BY <1>7, <1>11 DEF Insert
<1>14. Placed(r)'
  <2>1. Placed(r) /\ AttemptOf(r)' = <<LineageOf[r], NextToken>>
    BY <1>5, <1>10 DEF OperatorInv, AttemptOf
  <2> QED BY <1>4, <1>5, <1>7, <1>8, <1>10, <1>12, <1>13, <2>1 DEF Placed, Going
<1>15. Reporting(r)'
  BY <1>5, <1>10 DEF Reporting, At
<1>16. Going(r)
  BY <1>6 DEF Going
<1> QED BY <1>5, <1>6, <1>7, <1>8, <1>9, <1>10, <1>13, <1>14, <1>15, <1>16, OneRunMoves

(* A run that was admitted keeps its attempt through its calls. *)
LEMMA AdmittedRunCalls ==
  ASSUME OperatorInv, [Next]_vars, now' = now, NEW r \in Run,
         Going(r), run[r].pc # "ADMIT",
         NEW b \in RunRow, run' = [run EXCEPT ![r] = b], moved' = moved,
         b.token = run[r].token, b.at = run[r].at, b.verdict = run[r].verdict,
         Judging(b), Reporting(r)',
         \A l \in Lineage : l # LineageOf[r] => work'[l] = work[l],
         \A k \in DOMAIN journal :
           k[1] # LineageOf[r] => journal'[k].verdicts = journal[k].verdicts
  PROVE  OperatorInv'
<1>1. run'[r] = b
  BY DEF OperatorInv
<1>2. Placed(r)'
  <2>1. Placed(r) /\ AttemptOf(r)' = AttemptOf(r) /\ LineageOf[r] \in Lineage
        /\ run[r].token > 0
    BY <1>1, RunFacts DEF OperatorInv, AttemptOf
  <2>2. /\ \A k \in DOMAIN journal : k \in DOMAIN journal' /\ journal'[k].holder = journal[k].holder
        /\ work[LineageOf[r]].gen > 0 => work'[LineageOf[r]].gen > 0
    BY <2>1, StoreStep DEF HistoryGrows, Kept
  <2> QED BY <1>1, <2>1, <2>2 DEF Placed, Going
<1> QED BY <1>2, OneRunMoves

(* The verdict written on a run's attempt, and nothing else. *)
LEMMA VerdictWritten ==
  ASSUME TypeOK, NEW k \in DOMAIN journal, NEW s \in Verdict, journal' = Verified(k, s)
  PROVE  /\ \A j \in DOMAIN journal : j # k => journal'[j] = journal[j]
         /\ Latest(journal'[k].verdicts) = s
<1>1. journal'[k].verdicts = Append(journal[k].verdicts, s)
      /\ \A j \in DOMAIN journal : j # k => journal'[j] = journal[j]
  BY JournalWrites DEF Verdict
<1>2. Latest(Append(journal[k].verdicts, s)) = s
  BY VerdictAppend DEF Verdict
<1> QED BY <1>1, <1>2

(* The work that an admitted run moves, and nothing else.                  *)
LEMMA StatusWritten ==
  ASSUME OperatorInv, NEW r \in Run, NEW s \in LeaseBound, NEW at \in Nat,
         CompareAndSwapStatus(LineageOf[r], run[r].gen, s, LeaseOf(r), at)
  PROVE  /\ now' = now /\ journal' = journal
         /\ work'[LineageOf[r]] = [status |-> s, gen |-> run[r].gen + 1]
         /\ \A l \in Lineage : l # LineageOf[r] => work'[l] = work[l]
<1>1. TypeOK /\ LineageOf[r] \in Lineage /\ s \in Status
  BY RunFacts DEF Status
<1> QED BY <1>1, MovedType DEF CompareAndSwapStatus

LEMMA StartKeeps ==
  ASSUME OperatorInv, NEW r \in Run, NEW clock \in Readings, Start(r, clock)
  PROVE  OperatorInv'
<1>1. PICK b : b = Advanced(r, "EXECUTE")
  OBVIOUS
<1>2. /\ b \in RunRow /\ b.pc = "EXECUTE" /\ b.token = run[r].token /\ b.at = run[r].at
      /\ b.verdict = run[r].verdict /\ b.result = run[r].result
  BY <1>1, AdvancedRow DEF Pc, Calls
<1>3. /\ run' = [run EXCEPT ![r] = b] /\ moved' = moved /\ run[r].pc = "START"
      /\ CompareAndSwapStatus(LineageOf[r], run[r].gen, "RUNNING", LeaseOf(r), clock)
  BY <1>1 DEF Start, Started, Goes, At
<1>4. "RUNNING" \in LeaseBound /\ clock \in Nat
  BY RunFacts, FenceType DEF LeaseBound
<1>5. /\ now' = now /\ journal' = journal
      /\ \A l \in Lineage : l # LineageOf[r] => work'[l] = work[l]
  BY <1>3, <1>4, StatusWritten
<1>6. [Next]_vars /\ Going(r) /\ run[r].pc # "ADMIT" /\ run'[r] = b
  BY <1>3, CallIsJournaled DEF Call, ClockedCall, Going, OperatorInv
<1>7. Judging(b)
  BY <1>2, <1>3 DEF OperatorInv, Judging
<1>8. Reporting(r)'
  BY <1>2, <1>6 DEF Reporting, At
<1> QED BY <1>2, <1>3, <1>5, <1>6, <1>7, <1>8, AdmittedRunCalls

LEMMA BeginKeeps ==
  ASSUME OperatorInv, NEW r \in Run, NEW clock \in Readings, Begin(r, clock)
  PROVE  OperatorInv'
<1>1. PICK b : b = Advanced(r, "CLOCK")
  OBVIOUS
<1>2. /\ b \in RunRow /\ b.pc = "CLOCK" /\ b.token = run[r].token /\ b.at = run[r].at
      /\ b.verdict = run[r].verdict /\ b.result = run[r].result
  BY <1>1, AdvancedRow DEF Pc, Calls
<1>3. /\ run' = [run EXCEPT ![r] = b] /\ moved' = moved /\ run[r].pc = "BEGIN"
      /\ CompareAndSwapStatus(LineageOf[r], run[r].gen, "VERIFYING", LeaseOf(r), clock)
  BY <1>1 DEF Begin, Goes, At
<1>4. "VERIFYING" \in LeaseBound /\ clock \in Nat
  BY RunFacts, FenceType DEF LeaseBound
<1>5. /\ now' = now /\ journal' = journal
      /\ \A l \in Lineage : l # LineageOf[r] => work'[l] = work[l]
  BY <1>3, <1>4, StatusWritten
<1>6. [Next]_vars /\ Going(r) /\ run[r].pc # "ADMIT" /\ run'[r] = b
  BY <1>3, CallIsJournaled DEF Call, ClockedCall, Going, OperatorInv
<1>7. Judging(b)
  BY <1>2, <1>3 DEF OperatorInv, Judging
<1>8. Reporting(r)'
  BY <1>2, <1>6 DEF Reporting, At
<1> QED BY <1>2, <1>3, <1>5, <1>6, <1>7, <1>8, AdmittedRunCalls

LEMMA RecordKeeps ==
  ASSUME OperatorInv, NEW r \in Run, Record(r)
  PROVE  OperatorInv'
<1>1. PICK a : a = run[r]
  OBVIOUS
<1>2. PICK b : b = [a EXCEPT !.pc = "BEGIN"]
  OBVIOUS
<1>3. a \in RunRow /\ a.pc = "RECORD" /\ a.verdict = "NONE" /\ moved \in SUBSET (1 .. Inputs)
  BY <1>1, RunFacts DEF Record, At, OperatorInv, Judging, RunRow
<1>4. /\ b \in RunRow /\ b.pc = "BEGIN" /\ b.token = a.token /\ b.at = a.at
      /\ b.verdict = "NONE" /\ b.result = a.result
  BY <1>2, <1>3 DEF RunRow, Pc, Calls
<1>5. /\ run' = [run EXCEPT ![r] = b] /\ moved' = moved
      /\ now' = now /\ work' = work /\ journal' = Recorded(AttemptOf(r), "CONCLUSIVE")
  BY <1>1, <1>2 DEF Record, RecordResult, Goes
<1>6. [Next]_vars /\ Going(r) /\ run[r].pc # "ADMIT" /\ run'[r] = b
  BY <1>1, <1>3, <1>5, CallIsJournaled DEF Call, OtherCall, Going, OperatorInv
<1>7. \A k \in DOMAIN journal : journal'[k].verdicts = journal[k].verdicts
  <2>1. AttemptOf(r) \in DOMAIN journal /\ TypeOK
    BY <1>6, RunFacts, AttemptOfRun
  <2> QED BY <1>5, <2>1, JournalWrites DEF Result
<1>8. Judging(b)
  BY <1>4 DEF Judging
<1>9. Reporting(r)'
  BY <1>4, <1>6 DEF Reporting, At
<1> QED BY <1>1, <1>3, <1>4, <1>5, <1>6, <1>7, <1>8, <1>9, AdmittedRunCalls

LEMMA NoteKeeps ==
  ASSUME OperatorInv, NEW r \in Run, Note(r)
  PROVE  OperatorInv'
<1>1. PICK a : a = run[r]
  OBVIOUS
<1>2. PICK b : b = [a EXCEPT !.pc = "SUSPEND"]
  OBVIOUS
<1>3. a \in RunRow /\ a.pc = "NOTE" /\ a.verdict = "OUTCOME_UNKNOWN"
  BY <1>1, RunFacts DEF Note, At, OperatorInv, Judging
<1>4. /\ b \in RunRow /\ b.pc = "SUSPEND" /\ b.token = a.token /\ b.at = a.at
      /\ b.verdict = a.verdict /\ b.result = a.result
  BY <1>2, <1>3 DEF RunRow, Pc, Calls
<1>5. /\ run' = [run EXCEPT ![r] = b] /\ moved' = moved
      /\ now' = now /\ work' = work /\ journal' = Verified(AttemptOf(r), "OUTCOME_UNKNOWN")
  BY <1>1, <1>2 DEF Note, RecordVerification, Goes
<1>6. [Next]_vars /\ Going(r) /\ run[r].pc # "ADMIT" /\ run'[r] = b
  BY <1>1, <1>3, <1>5, CallIsJournaled DEF Call, OtherCall, Going, OperatorInv
<1>7. AttemptOf(r) \in DOMAIN journal /\ AttemptOf(r)[1] = LineageOf[r] /\ TypeOK
  BY <1>6, RunFacts, AttemptOfRun
<1>8. /\ \A k \in DOMAIN journal : k # AttemptOf(r) => journal'[k] = journal[k]
      /\ Latest(journal'[AttemptOf(r)].verdicts) = "OUTCOME_UNKNOWN"
  BY <1>5, <1>7, VerdictWritten DEF Verdict
<1>9. Judging(b)
  BY <1>3, <1>4 DEF Judging
<1>10. Reporting(r)'
  <2>1. AttemptOf(r)' = AttemptOf(r)
    BY <1>1, <1>4, <1>6 DEF AttemptOf
  <2> QED BY <1>3, <1>4, <1>6, <1>8, <2>1 DEF Reporting, At
<1> QED BY <1>1, <1>4, <1>5, <1>6, <1>7, <1>8, <1>9, <1>10, AdmittedRunCalls

LEMMA SuspendKeeps ==
  ASSUME OperatorInv, NEW r \in Run, Suspend(r)
  PROVE  OperatorInv'
<1>1. PICK b : b = Advanced(r, "DONE")
  OBVIOUS
<1>2. /\ b \in RunRow /\ b.pc = "DONE" /\ b.token = run[r].token /\ b.at = run[r].at
      /\ b.verdict = run[r].verdict /\ b.result = run[r].result
      /\ b.gen = run[r].gen + 1
  BY <1>1, AdvancedRow DEF Pc
<1>3. /\ run' = [run EXCEPT ![r] = b] /\ moved' = moved /\ run[r].pc = "SUSPEND"
      /\ CompareAndSwapStatus(LineageOf[r], run[r].gen, "OUTCOME_UNKNOWN", LeaseOf(r), run[r].at)
  BY <1>1 DEF Suspend, Goes, At
<1>4. "OUTCOME_UNKNOWN" \in LeaseBound /\ run[r].at \in Nat
  BY RunFacts DEF LeaseBound
<1>5. /\ now' = now /\ journal' = journal
      /\ work'[LineageOf[r]] = [status |-> "OUTCOME_UNKNOWN", gen |-> run[r].gen + 1]
      /\ \A l \in Lineage : l # LineageOf[r] => work'[l] = work[l]
  BY <1>3, <1>4, StatusWritten
<1>6. [Next]_vars /\ Going(r) /\ run[r].pc # "ADMIT" /\ run'[r] = b
  BY <1>3, CallIsJournaled DEF Call, OtherCall, Going, OperatorInv
<1>7. run[r].verdict = "OUTCOME_UNKNOWN" /\ Latest(journal[AttemptOf(r)].verdicts) = "OUTCOME_UNKNOWN"
  BY <1>3 DEF OperatorInv, Judging, Reporting, At
<1>8. Judging(b)
  BY <1>2 DEF Judging
<1>9. Reporting(r)'
  <2>1. AttemptOf(r)' = AttemptOf(r)
    BY <1>2, <1>6 DEF AttemptOf
  <2> QED BY <1>2, <1>5, <1>6, <1>7, <2>1 DEF Reporting, At, Verdict
<1> QED BY <1>2, <1>3, <1>5, <1>6, <1>8, <1>9, AdmittedRunCalls

LEMMA FinalizeKeeps ==
  ASSUME OperatorInv, NEW r \in Run, Finalize(r)
  PROVE  OperatorInv'
<1>1. PICK b : b = Advanced(r, "DONE")
  OBVIOUS
<1>2. /\ b \in RunRow /\ b.pc = "DONE" /\ b.token = run[r].token /\ b.at = run[r].at
      /\ b.verdict = run[r].verdict /\ b.result = run[r].result
      /\ b.gen = run[r].gen + 1
  BY <1>1, AdvancedRow DEF Pc
<1>3. /\ run' = [run EXCEPT ![r] = b] /\ moved' = moved /\ run[r].pc = "FINALIZE"
      /\ FinalizeTerminalVerification(AttemptOf(r), run[r].gen, LeaseOf(r),
                                      run[r].verdict, run[r].at)
  BY <1>1 DEF Finalize, Goes, At
<1>4. [Next]_vars /\ Going(r) /\ run[r].pc # "ADMIT" /\ run'[r] = b
  BY <1>3, CallIsJournaled DEF Call, OtherCall, Going, OperatorInv
<1>5. /\ AttemptOf(r) \in DOMAIN journal /\ AttemptOf(r)[1] = LineageOf[r]
      /\ TypeOK /\ LineageOf[r] \in Lineage /\ run[r].verdict \in Terminal
  BY <1>3, <1>4, RunFacts, AttemptOfRun DEF OperatorInv, Judging
<1>6. /\ now' = now /\ work[LineageOf[r]].gen = run[r].gen
      /\ work' = Moved(LineageOf[r], run[r].verdict)
      /\ journal' = Verified(AttemptOf(r), run[r].verdict)
  BY <1>3, <1>5 DEF FinalizeTerminalVerification
<1>7. /\ work'[LineageOf[r]] = [status |-> run[r].verdict, gen |-> run[r].gen + 1]
      /\ \A l \in Lineage : l # LineageOf[r] => work'[l] = work[l]
  <2>1. run[r].verdict \in Status
    BY <1>5 DEF Status
  <2> QED BY <1>5, <1>6, <2>1, MovedType
<1>8. /\ \A k \in DOMAIN journal : k # AttemptOf(r) => journal'[k] = journal[k]
      /\ Latest(journal'[AttemptOf(r)].verdicts) = run[r].verdict
  BY <1>5, <1>6, VerdictWritten DEF Verdict
<1>9. Judging(b)
  BY <1>2 DEF Judging
<1>10. Reporting(r)'
  <2>1. AttemptOf(r)' = AttemptOf(r)
    BY <1>2, <1>4 DEF AttemptOf
  <2> QED BY <1>2, <1>4, <1>5, <1>7, <1>8, <2>1 DEF Reporting, At, Verdict
<1> QED BY <1>2, <1>3, <1>4, <1>5, <1>6, <1>7, <1>8, <1>9, <1>10, AdmittedRunCalls

---------------------------------------------------------------------------
(* The world *)

LEMMA WorldMoves ==
  ASSUME OperatorInv, [Next]_vars, now' \in Nat, now <= now', now' <= MaxTime,
         run' = run, moved' \subseteq 1 .. Inputs,
         \A s \in Run : At(s, "DONE") => work'[LineageOf[s]] = work[LineageOf[s]],
         \A s \in Run : At(s, "SUSPEND") \/ At(s, "DONE") =>
           journal'[AttemptOf(s)].verdicts = journal[AttemptOf(s)].verdicts
  PROVE  OperatorInv'
<1>1. HistoryInv'
  BY StoreStep
<1>2. \A s \in Run : Placed(s)' /\ Reporting(s)'
  BY RunStands
<1>3. \A s \in Run : Judging(run'[s])
  BY DEF OperatorInv
<1>4. OneRunPerLineage'
  BY DEF OperatorInv, OneRunPerLineage, Going
<1> QED BY <1>1, <1>2, <1>3, <1>4 DEF OperatorInv

LEMMA MoveKeeps ==
  ASSUME OperatorInv, NEW i \in 1 .. Inputs, Move(i)
  PROVE  OperatorInv'
<1>1. now' = now /\ run' = run /\ work' = work /\ journal' = journal
      /\ moved' = (IF i \in moved THEN moved \ {i} ELSE moved \cup {i}) /\ [Next]_vars
  BY DEF Move, vars
<1>2. now \in Nat /\ now <= MaxTime /\ now <= now /\ moved \subseteq 1 .. Inputs
  BY DEF OperatorInv, HistoryInv, Inv, TypeOK
<1>3. moved' \subseteq 1 .. Inputs
  BY <1>1, <1>2
<1> QED BY <1>1, <1>2, <1>3, WorldMoves

LEMMA TickKeeps ==
  ASSUME OperatorInv, Tick, UNCHANGED <<run, moved>>
  PROVE  OperatorInv'
<1>1. now' = now + 1 /\ now < MaxTime /\ run' = run /\ work' = work /\ journal' = journal
      /\ moved' = moved /\ [Next]_vars
  BY DEF Tick, Next
<1>2. now \in Nat /\ MaxTime \in Nat /\ moved \subseteq 1 .. Inputs
  BY OperatorAssumption DEF OperatorInv, HistoryInv, Inv, TypeOK
<1>3. now' \in Nat /\ now <= now' /\ now' <= MaxTime /\ moved' \subseteq 1 .. Inputs
  BY <1>1, <1>2
<1> QED BY <1>1, <1>3, WorldMoves

(* Reconciliation frees claimed or running work only, never reported work. *)
LEMMA ReconcileKeeps ==
  ASSUME OperatorInv, NEW k \in DOMAIN journal, Reconcile(k)
  PROVE  OperatorInv'
<1>1. run' = run /\ moved' = moved /\ [Next]_vars
  BY DEF Reconcile, Next
<1>2. PICK g \in Generations(k[1]), o \in Outcome, allow \in BOOLEAN :
        ReconcileAdmitted(k, g, FenceOf(k), o, allow)
  BY DEF Reconcile, Reconciliation
<1>3. now \in Nat /\ now <= MaxTime /\ moved \subseteq 1 .. Inputs /\ TypeOK
      /\ now <= now
  BY DEF OperatorInv, HistoryInv, Inv, TypeOK
<1>4. k[1] \in Lineage
  BY <1>3, FenceType
<1>5. now' = now /\ journal' = Reconciled(k, o)
  BY <1>2 DEF ReconcileAdmitted
<1>6. \A j \in DOMAIN journal : journal'[j].verdicts = journal[j].verdicts
  BY <1>3, <1>5, JournalWrites
<1>7. \A l \in Lineage : work[l].status \notin {"CLAIMED", "RUNNING"} => work'[l] = work[l]
  <2>1. work[k[1]].status \in {"CLAIMED", "RUNNING"}
        /\ (work' = work \/ work' = Moved(k[1], "FAILED_RETRYABLE"))
    BY <1>2 DEF ReconcileAdmitted
  <2>2. "FAILED_RETRYABLE" \in Status
    BY DEF Status, LeaseBound
  <2>3. CASE work' = Moved(k[1], "FAILED_RETRYABLE")
    <3>1. \A l \in Lineage : l # k[1] => work'[l] = work[l]
      BY <1>3, <1>4, <2>2, <2>3, MovedType
    <3> QED BY <2>1, <3>1
  <2> QED BY <2>1, <2>3
<1>8. ASSUME NEW s \in Run, At(s, "DONE")
      PROVE  work'[LineageOf[s]] = work[LineageOf[s]]
  <2>1. work[LineageOf[s]].status = run[s].verdict /\ run[s].verdict \in Verdict
    BY <1>8, ReportedStatus
  <2>2. LineageOf[s] \in Lineage
    BY RunFacts
  <2> QED BY <1>7, <2>1, <2>2 DEF Verdict, Terminal
<1>9. ASSUME NEW s \in Run, At(s, "SUSPEND") \/ At(s, "DONE")
      PROVE  journal'[AttemptOf(s)].verdicts = journal[AttemptOf(s)].verdicts
  <2>1. run[s].token > 0
    BY <1>9, RunFacts DEF At, Going
  <2> QED BY <1>6, <2>1, AttemptOfRun
<1> QED BY <1>1, <1>3, <1>5, <1>8, <1>9, WorldMoves

---------------------------------------------------------------------------
(* The invariant *)

LEMMA InitOperator == OperatorInit => OperatorInv
<1> SUFFICES ASSUME OperatorInit PROVE OperatorInv
  OBVIOUS
<1>1. HistoryInv /\ now = 0 /\ moved = {} /\ run = [r \in Run |-> Fresh]
  BY InitHistory DEF OperatorInit, Init
<1>2. Fresh \in RunRow
  BY OperatorAssumption DEF Fresh, RunRow, Pc, Calls
<1>3. \A r \in Run : run[r] = Fresh
  BY <1>1
<1>4. Judging(Fresh)
  BY DEF Fresh, Judging
<1>5. \A r \in Run : Placed(r) /\ Reporting(r) /\ ~Going(r)
  BY <1>1, <1>3 DEF Fresh, Placed, Reporting, Going, At
<1>6. OneRunPerLineage
  BY <1>5 DEF OneRunPerLineage
<1> QED BY <1>1, <1>2, <1>3, <1>4, <1>5, <1>6, OperatorAssumption DEF OperatorInv

LEMMA NextOperator ==
  ASSUME OperatorInv, [OperatorNext]_operatorVars
  PROVE  OperatorInv'
<1>1. CASE UNCHANGED operatorVars
  <2>1. vars' = vars /\ run' = run /\ moved' = moved /\ now' = now /\ work' = work
        /\ journal' = journal /\ [Next]_vars
    BY <1>1 DEF operatorVars, vars
  <2>2. now \in Nat /\ now <= MaxTime /\ now <= now /\ moved \subseteq 1 .. Inputs
    BY DEF OperatorInv, HistoryInv, Inv, TypeOK
  <2> QED BY <2>1, <2>2, WorldMoves
<1>2. ASSUME NEW r \in Run, Step(r)
      PROVE  OperatorInv'
  <2>1. CASE OtherCall(r)
    BY <2>1, InitializeKeeps, RecordKeeps, FinalizeKeeps, NoteKeeps, SuspendKeeps DEF OtherCall
  <2>2. ASSUME NEW clock \in Readings, ClockedCall(r, clock)
        PROVE  OperatorInv'
    BY <2>2, AdmitRootKeeps, StartKeeps, BeginKeeps DEF ClockedCall
  <2>3. CASE Refuse(r) \/ Execute(r) \/ ReadClock(r) \/ Verify(r)
    BY <2>3, RefuseKeeps, ExecuteKeeps, ReadClockKeeps, VerifyKeeps
  <2> QED BY <1>2, <2>1, <2>2, <2>3 DEF Step, Call
<1>3. CASE \E i \in 1 .. Inputs : Move(i)
  BY <1>3, MoveKeeps
<1>4. CASE \E k \in DOMAIN journal : Reconcile(k)
  BY <1>4, ReconcileKeeps
<1>5. CASE Tick /\ UNCHANGED <<run, moved>>
  BY <1>5, TickKeeps
<1> QED BY <1>1, <1>2, <1>3, <1>4, <1>5 DEF OperatorNext

(* Each process's program counter, what it carries, the tables and the     *)
(* readings agree, however runs, reconcilers and the clock interleave.     *)
THEOREM OperatorInvariant == OperatorSpec => []OperatorInv
  BY InitOperator, NextOperator, PTL DEF OperatorSpec

---------------------------------------------------------------------------
(* The properties *)

(* Inspection runs use the store as journaled callers do. *)
THEOREM RunsCallAsJournaled == OperatorSpec => RunsAreJournaledCallers
<1>1. OperatorInit => Init
  BY DEF OperatorInit
<1> QED BY <1>1, StepIsJournaled, OperatorInvariant, PTL
        DEF OperatorSpec, RunsAreJournaledCallers, Spec

(* What a run reports is what the store says, then and ever after. *)
THEOREM ReportsStayTrue == OperatorSpec => []ReportsAreTruthful
<1>1. OperatorInv => ReportsAreTruthful
  BY DEF OperatorInv, Reporting, ReportsAreTruthful
<1> QED BY <1>1, OperatorInvariant, PTL

(* Runs of one frontier under several lineages share its completion. *)
THEOREM OneRunReportsComplete == OperatorSpec => []OneRunCompletes
<1>1. OperatorInv => OneRunCompletes
  <2> SUFFICES ASSUME OperatorInv, NEW r \in Run, NEW s \in Run,
                      At(r, "DONE"), run[r].verdict = "COMPLETE",
                      At(s, "DONE"), run[s].verdict = "COMPLETE"
               PROVE  r = s
    BY DEF OneRunCompletes
  <2>1. Completed(LineageOf[r]) /\ Completed(LineageOf[s])
    BY ReportedStatus DEF Completed
  <2>2. LineageOf[r] = LineageOf[s]
    BY <2>1, RunFacts DEF OperatorInv, HistoryInv, OneCompletion
  <2>3. Going(r) /\ Going(s)
    BY DEF At, Going
  <2> QED BY <2>2, <2>3 DEF OperatorInv, OneRunPerLineage
<1> QED BY <1>1, OperatorInvariant, PTL


---------------------------------------------------------------------------
(* What the readings saw *)

Sighting == [exact : [Reading -> SUBSET (1 .. Inputs)], away : SUBSET (1 .. Inputs)]

(* The history of a run in row a covers the moved inputs m of the moment   *)
(* while it reads, and what it concluded was there to be seen.             *)
Observing(a, s, m) ==
  /\ a.pc \in {"INITIALIZE", "ADMIT", "START"} => a.next = 1
  /\ a.pc \in {"INITIALIZE", "ADMIT", "START", "EXECUTE"} => a.result = "NONE"
  /\ a.pc \in Reading =>
       /\ (1 .. Inputs) \ m \subseteq s.exact[a.pc] /\ m \subseteq s.away
       /\ \A i \in 1 .. Inputs : i < a.next => i \in s.exact[a.pc]
  /\ a.result = "SUCCEEDED" => s.exact["EXECUTE"] = 1 .. Inputs
  /\ a.pc = "VERIFY" \/ a.verdict = "COMPLETE" => a.result = "SUCCEEDED"
  /\ a.verdict = "COMPLETE" => s.exact["VERIFY"] = 1 .. Inputs
  /\ a.result = "PRECONDITION_FAILED" \/ a.verdict = "SUPERSEDED" => s.away # {}

ReadingInv ==
  /\ seen \in [Run -> Sighting]
  /\ \A r \in Run : Observing(run[r], seen[r], moved)

(* What a step adds to the history of a run. *)
LEMMA WatchedRun ==
  ASSUME OperatorInv, OperatorInv', ReadingInv, Watch, NEW r \in Run
  PROVE  /\ run[r] \in RunRow /\ run'[r] \in RunRow
         /\ seen[r] \in Sighting /\ seen'[r] \in Sighting
         /\ moved \subseteq 1 .. Inputs /\ moved' \subseteq 1 .. Inputs
         /\ run'[r].pc \notin Reading => seen'[r] = seen[r]
         /\ run'[r].pc \in Reading =>
              /\ seen'[r].exact[run'[r].pc] =
                   seen[r].exact[run'[r].pc] \cup ((1 .. Inputs) \ moved')
              /\ \A p \in Reading : p # run'[r].pc => seen'[r].exact[p] = seen[r].exact[p]
              /\ seen'[r].away =
                   IF run[r].pc = run'[r].pc THEN seen[r].away \cup moved' ELSE moved'
<1>1. /\ run[r] \in RunRow /\ run'[r] \in RunRow /\ seen[r] \in Sighting
      /\ moved \in SUBSET (1 .. Inputs) /\ moved' \in SUBSET (1 .. Inputs)
  BY DEF OperatorInv, ReadingInv
<1>2. PICK a, b, s, t, m : a = run[r] /\ b = run'[r] /\ s = seen[r] /\ t = seen'[r] /\ m = moved'
  OBVIOUS
<1>3. t = IF b.pc \in Reading
          THEN [exact |-> [s.exact EXCEPT ![b.pc] = @ \cup ((1 .. Inputs) \ m)],
                away |-> IF a.pc = b.pc THEN s.away \cup m ELSE m]
          ELSE s
  BY <1>2 DEF Watch, Noticed, At
<1>4. a \in RunRow /\ b \in RunRow /\ s \in Sighting /\ m \in SUBSET (1 .. Inputs)
  BY <1>1, <1>2
<1>5. /\ t \in Sighting
      /\ b.pc \notin Reading => t = s
      /\ b.pc \in Reading =>
           /\ t.exact[b.pc] = s.exact[b.pc] \cup ((1 .. Inputs) \ m)
           /\ \A p \in Reading : p # b.pc => t.exact[p] = s.exact[p]
           /\ t.away = IF a.pc = b.pc THEN s.away \cup m ELSE m
  <2>1. s.exact \in [Reading -> SUBSET (1 .. Inputs)] /\ s.away \in SUBSET (1 .. Inputs)
    BY <1>4 DEF Sighting
  <2>2. CASE b.pc \in Reading
    <3>1. PICK e : e = [s.exact EXCEPT ![b.pc] = @ \cup ((1 .. Inputs) \ m)]
      OBVIOUS
    <3>2. PICK w : w = IF a.pc = b.pc THEN s.away \cup m ELSE m
      OBVIOUS
    <3>3. /\ e \in [Reading -> SUBSET (1 .. Inputs)]
          /\ e[b.pc] = s.exact[b.pc] \cup ((1 .. Inputs) \ m)
          /\ \A p \in Reading : p # b.pc => e[p] = s.exact[p]
      BY <2>1, <2>2, <3>1
    <3>4. t = [exact |-> e, away |-> w] /\ w \in SUBSET (1 .. Inputs)
      BY <1>3, <1>4, <2>1, <2>2, <3>1, <3>2
    <3>5. t \in Sighting /\ t.exact = e /\ t.away = w
      BY <3>3, <3>4 DEF Sighting
    <3> QED BY <2>2, <3>2, <3>3, <3>5
  <2>3. CASE b.pc \notin Reading
    BY <1>3, <1>4, <2>3
  <2> QED BY <2>2, <2>3
<1> QED BY <1>1, <1>2, <1>5

(* A run that takes no step sees what moves. *)
LEMMA StillRunObserves ==
  ASSUME OperatorInv, OperatorInv', ReadingInv, Watch, NEW r \in Run, run'[r] = run[r]
  PROVE  Observing(run'[r], seen'[r], moved')
<1>1. Observing(run[r], seen[r], moved)
  BY DEF ReadingInv
<1>2. PICK a, s, t : a = run[r] /\ s = seen[r] /\ t = seen'[r]
  OBVIOUS
<1>3. /\ a \in RunRow /\ s \in Sighting /\ t \in Sighting
      /\ moved' \subseteq 1 .. Inputs
      /\ a.pc \notin Reading => t = s
      /\ a.pc \in Reading =>
           /\ t.exact[a.pc] = s.exact[a.pc] \cup ((1 .. Inputs) \ moved')
           /\ \A p \in Reading : p # a.pc => t.exact[p] = s.exact[p]
           /\ t.away = s.away \cup moved'
  BY <1>2, WatchedRun
<1>4. CASE a.pc \notin Reading
  BY <1>1, <1>2, <1>3, <1>4 DEF Observing, Reading
<1>5. CASE a.pc \in Reading
  <2>1. \A p \in Reading : s.exact[p] \subseteq t.exact[p] /\ t.exact[p] \subseteq 1 .. Inputs
    BY <1>3, <1>5 DEF Sighting
  <2>2. s.away \subseteq t.away
    BY <1>3, <1>5
  <2> QED BY <1>1, <1>2, <1>3, <1>5, <2>1, <2>2 DEF Observing, Reading
<1> QED BY <1>4, <1>5

(* A run that goes on outside its readings, with the same findings.        *)
LEMMA CallingRunObserves ==
  ASSUME OperatorInv, OperatorInv', ReadingInv, Watch, NEW r \in Run,
         run'[r].pc \notin Reading, run'[r].next = run[r].next,
         run'[r].result = run[r].result, run'[r].verdict = run[r].verdict,
         run'[r].pc \in {"ADMIT", "START"} => run[r].pc \in {"INITIALIZE", "ADMIT"},
         run'[r].pc # "INITIALIZE"
  PROVE  Observing(run'[r], seen'[r], moved')
<1>1. Observing(run[r], seen[r], moved)
  BY DEF ReadingInv
<1>2. seen'[r] = seen[r]
  BY WatchedRun
<1> QED BY <1>1, <1>2 DEF Observing, Reading

(* A run that starts a reading. *)
LEMMA StartingRunObserves ==
  ASSUME OperatorInv, OperatorInv', ReadingInv, Watch, NEW r \in Run,
         run'[r].pc \in Reading, run[r].pc # run'[r].pc, run'[r].next = 1,
         run'[r].verdict = "NONE", run'[r].result = run[r].result,
         run'[r].pc = "EXECUTE" => run[r].result = "NONE",
         run'[r].pc = "VERIFY" => run[r].result = "SUCCEEDED"
  PROVE  Observing(run'[r], seen'[r], moved')
<1>1. Observing(run[r], seen[r], moved)
  BY DEF ReadingInv
<1>2. PICK b, s, t : b = run'[r] /\ s = seen[r] /\ t = seen'[r]
  OBVIOUS
<1>3. /\ t \in Sighting /\ moved' \subseteq 1 .. Inputs
      /\ t.exact[b.pc] = s.exact[b.pc] \cup ((1 .. Inputs) \ moved')
      /\ \A p \in Reading : p # b.pc => t.exact[p] = s.exact[p]
      /\ t.away = moved'
  BY <1>2, WatchedRun
<1>4. \A i \in 1 .. Inputs : ~(i < 1)
  OBVIOUS
<1>5. b.result = "SUCCEEDED" => t.exact["EXECUTE"] = 1 .. Inputs
  BY <1>1, <1>2, <1>3 DEF Observing, Reading
<1> QED BY <1>1, <1>2, <1>3, <1>4, <1>5 DEF Observing, Reading

(* A run that goes on with a reading, its last input found exact. *)
LEMMA ReadingRunObserves ==
  ASSUME OperatorInv, OperatorInv', ReadingInv, Watch, moved' = moved, NEW r \in Run,
         run[r].pc \in Reading, run[r].next \notin moved,
         run'[r] = [run[r] EXCEPT !.next = @ + 1]
  PROVE  Observing(run'[r], seen'[r], moved')
<1>1. Observing(run[r], seen[r], moved)
  BY DEF ReadingInv
<1>2. PICK a, b, s, t : a = run[r] /\ b = run'[r] /\ s = seen[r] /\ t = seen'[r]
  OBVIOUS
<1>3. /\ a \in RunRow /\ b = [a EXCEPT !.next = @ + 1] /\ a.pc \in Reading /\ a.next \notin moved
  BY <1>2, WatchedRun
<1>4. /\ b.pc = a.pc /\ b.result = a.result /\ b.verdict = a.verdict /\ b.next = a.next + 1
      /\ a.next \in Int
  BY <1>3 DEF RunRow
<1>5. /\ s \in Sighting /\ t \in Sighting /\ moved \subseteq 1 .. Inputs
      /\ t.exact[a.pc] = s.exact[a.pc] \cup ((1 .. Inputs) \ moved)
      /\ \A p \in Reading : p # a.pc => t.exact[p] = s.exact[p]
      /\ t.away = s.away \cup moved
  BY <1>2, <1>3, <1>4, WatchedRun
<1>6. \A p \in Reading : s.exact[p] \subseteq t.exact[p] /\ t.exact[p] \subseteq 1 .. Inputs
  BY <1>3, <1>5 DEF Sighting
<1>7. \A i \in 1 .. Inputs : i < a.next + 1 => i < a.next \/ i = a.next
  BY <1>4
<1>8. \A i \in 1 .. Inputs : i < b.next => i \in t.exact[a.pc]
  BY <1>1, <1>2, <1>3, <1>4, <1>5, <1>7 DEF Observing
<1> QED BY <1>1, <1>2, <1>3, <1>4, <1>5, <1>6, <1>8 DEF Observing, Reading

(* Once the last input is found exact, all of them have been. *)
LEMMA AllWereExact ==
  ASSUME OperatorInv, ReadingInv, NEW r \in Run,
         run[r].pc \in Reading, run[r].next \notin moved, ~(run[r].next < Inputs)
  PROVE  seen[r].exact[run[r].pc] = 1 .. Inputs
<1>1. Observing(run[r], seen[r], moved) /\ seen[r] \in Sighting
  BY DEF ReadingInv
<1>2. PICK a, x : a = run[r] /\ x = seen[r].exact[a.pc]
  OBVIOUS
<1>3. /\ x \subseteq 1 .. Inputs /\ a.next \in 1 .. Inputs /\ a.next \notin moved
      /\ (1 .. Inputs) \ moved \subseteq x /\ \A i \in 1 .. Inputs : i < a.next => i \in x
  <2>1. a \in RunRow
    BY <1>2, RunFacts
  <2>2. x \subseteq 1 .. Inputs
    BY <1>1, <1>2 DEF Sighting
  <2> QED BY <1>1, <1>2, <2>1, <2>2 DEF Observing, RunRow
<1>4. a.next = Inputs
  BY <1>2, <1>3, OperatorAssumption
<1>5. \A i \in 1 .. Inputs : i < a.next \/ i = a.next
  BY <1>4, OperatorAssumption
<1>6. \A i \in 1 .. Inputs : i \in x
  BY <1>3, <1>5
<1> QED BY <1>2, <1>3, <1>6

LEMMA ExecutingRunObserves ==
  ASSUME OperatorInv, OperatorInv', ReadingInv, Watch, NEW r \in Run, Execute(r)
  PROVE  Observing(run'[r], seen'[r], moved')
<1>1. /\ Observing(run[r], seen[r], moved) /\ run[r] \in RunRow /\ run \in [Run -> RunRow]
      /\ run[r].pc = "EXECUTE" /\ run[r].pc \in Reading /\ run[r].verdict = "NONE"
  BY DEF ReadingInv, OperatorInv, Execute, At, Judging, Reading
<1>2. ASSUME NEW result \in {"SUCCEEDED", "PRECONDITION_FAILED", "TRANSPORT_FAILED"},
             Goes(r, [run[r] EXCEPT !.pc = "RECORD", !.result = result]),
             result = "SUCCEEDED" => seen[r].exact["EXECUTE"] = 1 .. Inputs,
             result = "PRECONDITION_FAILED" => seen[r].away # {}
      PROVE  Observing(run'[r], seen'[r], moved')
  <2>1. PICK a, b : a = run[r] /\ b = [a EXCEPT !.pc = "RECORD", !.result = result]
    OBVIOUS
  <2>2. run'[r] = b
    BY <1>1, <1>2, <2>1 DEF Goes
  <2>3. b.pc = "RECORD" /\ b.result = result /\ b.verdict = "NONE"
    BY <1>1, <2>1 DEF RunRow
  <2>4. seen'[r] = seen[r]
    BY <2>2, <2>3, WatchedRun DEF Reading
  <2> QED BY <1>2, <2>2, <2>3, <2>4 DEF Observing, Reading
<1>3. CASE run[r].next \notin moved /\ run[r].next < Inputs
           /\ Goes(r, [run[r] EXCEPT !.next = @ + 1])
  <2>1. run'[r] = [run[r] EXCEPT !.next = @ + 1] /\ moved' = moved
    BY <1>1, <1>3 DEF Goes
  <2> QED BY <1>1, <1>3, <2>1, ReadingRunObserves
<1>4. CASE run[r].next \notin moved /\ ~(run[r].next < Inputs)
           /\ Goes(r, [run[r] EXCEPT !.pc = "RECORD", !.result = "SUCCEEDED"])
  BY <1>1, <1>2, <1>4, AllWereExact
<1>5. CASE run[r].next \in moved
           /\ Goes(r, [run[r] EXCEPT !.pc = "RECORD", !.result = "PRECONDITION_FAILED"])
  <2>1. seen[r].away # {}
    BY <1>1, <1>5 DEF Observing
  <2> QED BY <1>2, <1>5, <2>1
<1>6. CASE Goes(r, [run[r] EXCEPT !.pc = "RECORD", !.result = "TRANSPORT_FAILED"])
  BY <1>2, <1>6
<1> QED BY <1>3, <1>4, <1>5, <1>6 DEF Execute

(* A run that judges by what it has read. *)
LEMMA JudgingRunObserves ==
  ASSUME OperatorInv, OperatorInv', ReadingInv, Watch, NEW r \in Run, NEW b \in RunRow,
         run'[r] = b, b.pc \in {"FINALIZE", "NOTE"}, b.result = run[r].result,
         b.verdict = "COMPLETE" => run[r].pc = "VERIFY" /\ seen[r].exact["VERIFY"] = 1 .. Inputs,
         b.verdict = "SUPERSEDED" => seen[r].away # {}
  PROVE  Observing(run'[r], seen'[r], moved')
<1>1. Observing(run[r], seen[r], moved)
  BY DEF ReadingInv
<1>2. seen'[r] = seen[r]
  BY WatchedRun DEF Reading
<1> QED BY <1>1, <1>2 DEF Observing, Reading

LEMMA JudgedRow ==
  ASSUME OperatorInv, NEW r \in Run, NEW verdict \in Verdict
  PROVE  /\ Judged(r, verdict) \in RunRow /\ Judged(r, verdict).pc \in {"FINALIZE", "NOTE"}
         /\ Judged(r, verdict).result = run[r].result
         /\ Judged(r, verdict).verdict = verdict
<1>1. PICK a : a = run[r] /\ a \in RunRow
  BY RunFacts
<1> QED BY <1>1 DEF Judged, RunRow, Pc, Calls

LEMMA ReadClockObserves ==
  ASSUME OperatorInv, OperatorInv', ReadingInv, Watch, NEW r \in Run, ReadClock(r)
  PROVE  Observing(run'[r], seen'[r], moved')
<1>1. /\ Observing(run[r], seen[r], moved) /\ run[r] \in RunRow /\ run \in [Run -> RunRow]
      /\ run[r].pc = "CLOCK" /\ run[r].verdict = "NONE"
  BY DEF ReadingInv, OperatorInv, ReadClock, At, Judging
<1>2. CASE run[r].result = "SUCCEEDED"
  <2>1. PICK a, b : a = run[r]
                    /\ b = [[a EXCEPT !.pc = "VERIFY", !.next = 1] EXCEPT !.at = now]
    OBVIOUS
  <2>2. run'[r] = b
    BY <1>1, <1>2, <2>1 DEF ReadClock, Goes
  <2>3. /\ b.pc = "VERIFY" /\ b.next = 1 /\ b.verdict = "NONE" /\ b.result = "SUCCEEDED"
    BY <1>1, <1>2, <2>1 DEF RunRow
  <2> QED BY <1>1, <1>2, <2>2, <2>3, StartingRunObserves DEF Reading
<1>3. CASE run[r].result # "SUCCEEDED"
  <2>1. PICK j, b : j = Judged(r, Failed(run[r].result)) /\ b = [j EXCEPT !.at = now]
    OBVIOUS
  <2>2. run'[r] = b
    BY <1>1, <1>3, <2>1 DEF ReadClock, Goes
  <2>3. Failed(run[r].result) \in {"SUPERSEDED", "FAILED_DETERMINISTIC"}
        /\ (Failed(run[r].result) = "SUPERSEDED" => run[r].result = "PRECONDITION_FAILED")
    BY DEF Failed
  <2>4. /\ j \in RunRow /\ j.pc \in {"FINALIZE", "NOTE"} /\ j.result = run[r].result
        /\ j.verdict = Failed(run[r].result) /\ now \in Nat
    BY <2>1, <2>3, JudgedRow, RunFacts DEF Verdict, Terminal
  <2>5. /\ b \in RunRow /\ b.pc = j.pc /\ b.result = j.result /\ b.verdict = j.verdict
    BY <2>1, <2>4 DEF RunRow
  <2>6. b.verdict = "SUPERSEDED" => seen[r].away # {}
    BY <1>1, <2>3, <2>4, <2>5 DEF Observing
  <2>7. b.verdict # "COMPLETE"
    BY <2>3, <2>4, <2>5
  <2> QED BY <2>2, <2>4, <2>5, <2>6, <2>7, JudgingRunObserves
<1> QED BY <1>2, <1>3

LEMMA VerifyingRunObserves ==
  ASSUME OperatorInv, OperatorInv', ReadingInv, Watch, NEW r \in Run, Verify(r)
  PROVE  Observing(run'[r], seen'[r], moved')
<1>1. /\ Observing(run[r], seen[r], moved) /\ run[r] \in RunRow /\ run \in [Run -> RunRow]
      /\ run[r].pc = "VERIFY" /\ run[r].pc \in Reading
  BY DEF ReadingInv, OperatorInv, Verify, At, Reading
<1>2. ASSUME NEW verdict \in Verdict, Goes(r, Judged(r, verdict)),
             verdict = "COMPLETE" => seen[r].exact["VERIFY"] = 1 .. Inputs,
             verdict = "SUPERSEDED" => seen[r].away # {}
      PROVE  Observing(run'[r], seen'[r], moved')
  <2>1. PICK b : b = Judged(r, verdict)
    OBVIOUS
  <2>2. run'[r] = b
    BY <1>1, <1>2, <2>1 DEF Goes
  <2>3. /\ b \in RunRow /\ b.pc \in {"FINALIZE", "NOTE"} /\ b.result = run[r].result
        /\ b.verdict = verdict
    BY <2>1, JudgedRow
  <2> QED BY <1>1, <1>2, <2>2, <2>3, JudgingRunObserves
<1>3. {"COMPLETE", "SUPERSEDED", "OUTCOME_UNKNOWN"} \subseteq Verdict
  BY DEF Verdict, Terminal
<1>4. CASE Exact(r) /\ run[r].next < Inputs /\ Goes(r, [run[r] EXCEPT !.next = @ + 1])
  <2>1. run'[r] = [run[r] EXCEPT !.next = @ + 1] /\ moved' = moved /\ run[r].next \notin moved
    BY <1>1, <1>4 DEF Goes, Exact
  <2> QED BY <1>1, <2>1, ReadingRunObserves
<1>5. CASE Exact(r) /\ ~(run[r].next < Inputs) /\ Goes(r, Judged(r, "COMPLETE"))
  <2>1. seen[r].exact["VERIFY"] = 1 .. Inputs
    BY <1>1, <1>5, AllWereExact DEF Exact
  <2> QED BY <1>2, <1>3, <1>5, <2>1
<1>6. CASE ~Exact(r) /\ Goes(r, Judged(r, "SUPERSEDED"))
  <2>1. seen[r].away # {}
    BY <1>1, <1>6 DEF Exact, Observing
  <2> QED BY <1>2, <1>3, <1>6, <2>1
<1>7. CASE Goes(r, Judged(r, "OUTCOME_UNKNOWN"))
  BY <1>2, <1>3, <1>7
<1> QED BY <1>4, <1>5, <1>6, <1>7 DEF Verify

LEMMA CallObserves ==
  ASSUME OperatorInv, OperatorInv', ReadingInv, Watch, NEW r \in Run, Call(r) \/ Refuse(r)
  PROVE  Observing(run'[r], seen'[r], moved')
<1>1. /\ Observing(run[r], seen[r], moved) /\ run[r] \in RunRow /\ run \in [Run -> RunRow]
      /\ Judging(run[r])
  BY DEF ReadingInv, OperatorInv
<1>2. PICK a : a = run[r]
  OBVIOUS
<1>3. ASSUME NEW pc \in Calls \cup {"CLOCK", "DONE", "REFUSED"}, NEW b, run'[r] = b,
             b.pc = pc, b.next = a.next, b.result = a.result, b.verdict = a.verdict,
             pc \in {"ADMIT", "START"} => a.pc \in {"INITIALIZE", "ADMIT"},
             pc # "INITIALIZE"
      PROVE  Observing(run'[r], seen'[r], moved')
  BY <1>2, <1>3, CallingRunObserves DEF Calls, Reading
<1>4. ASSUME NEW pc \in Calls \cup {"CLOCK", "DONE", "EXECUTE"}, Goes(r, Advanced(r, pc))
      PROVE  \E b : /\ run'[r] = b /\ b.pc = pc /\ b.next = a.next /\ b.result = a.result
                    /\ b.verdict = a.verdict
  <2>1. PICK b : b = Advanced(r, pc)
    OBVIOUS
  <2>2. b.pc = pc /\ b.next = a.next /\ b.result = a.result /\ b.verdict = a.verdict
    BY <1>1, <1>2, <2>1 DEF Advanced, RunRow
  <2> QED BY <1>1, <1>4, <2>1, <2>2 DEF Goes
<1>5. ASSUME NEW pc \in Calls \cup {"REFUSED"}, Goes(r, [a EXCEPT !.pc = pc])
      PROVE  \E b : /\ run'[r] = b /\ b.pc = pc /\ b.next = a.next /\ b.result = a.result
                    /\ b.verdict = a.verdict
  <2>1. PICK b : b = [a EXCEPT !.pc = pc]
    OBVIOUS
  <2>2. b.pc = pc /\ b.next = a.next /\ b.result = a.result /\ b.verdict = a.verdict
    BY <1>1, <1>2, <2>1 DEF RunRow
  <2> QED BY <1>1, <1>5, <2>1, <2>2 DEF Goes
<1>6. CASE Initialize(r)
  <2>1. a.pc = "INITIALIZE" /\ Goes(r, Advanced(r, "ADMIT"))
    BY <1>2, <1>6 DEF Initialize, At
  <2> QED BY <1>3, <1>4, <2>1 DEF Calls
<1>7. ASSUME NEW clock \in Readings, AdmitRoot(r, clock)
      PROVE  Observing(run'[r], seen'[r], moved')
  <2>1. a.pc = "ADMIT" /\ Goes(r, [Advanced(r, "START") EXCEPT !.token = NextToken])
    BY <1>2, <1>7 DEF AdmitRoot, At
  <2>2. PICK c, b : c = Advanced(r, "START") /\ b = [c EXCEPT !.token = NextToken]
    OBVIOUS
  <2>3. c \in [pc : {"START"}, token : Nat, gen : Nat, next : {a.next}, result : {a.result},
               verdict : {a.verdict}, at : Nat]
    <3>1. a.gen + 1 \in Nat
      BY <1>1, <1>2 DEF RunRow
    <3> QED BY <1>1, <1>2, <2>2, <3>1 DEF Advanced, RunRow
  <2>4. b.pc = "START" /\ b.next = a.next /\ b.result = a.result /\ b.verdict = a.verdict
    BY <2>2, <2>3
  <2>5. run'[r] = b
    BY <1>1, <2>1, <2>2 DEF Goes
  <2> QED BY <1>3, <2>1, <2>4, <2>5 DEF Calls
<1>8. ASSUME NEW clock \in Readings, Start(r, clock)
      PROVE  Observing(run'[r], seen'[r], moved')
  <2>1. a.pc = "START" /\ Goes(r, Advanced(r, "EXECUTE"))
    BY <1>2, <1>8 DEF Start, Started, At
  <2>2. PICK b : /\ run'[r] = b /\ b.pc = "EXECUTE" /\ b.next = a.next /\ b.result = a.result
                 /\ b.verdict = a.verdict
    BY <1>4, <2>1
  <2>3. a.next = 1 /\ a.result = "NONE" /\ a.verdict = "NONE"
    BY <1>1, <1>2, <2>1 DEF Observing, Judging
  <2> QED BY <1>2, <2>1, <2>2, <2>3, StartingRunObserves DEF Reading
<1>9. ASSUME NEW clock \in Readings, Begin(r, clock)
      PROVE  Observing(run'[r], seen'[r], moved')
  <2>1. Goes(r, Advanced(r, "CLOCK"))
    BY <1>9 DEF Begin
  <2> QED BY <1>3, <1>4, <2>1 DEF Calls
<1>10. CASE Finalize(r) \/ Suspend(r)
  <2>1. Goes(r, Advanced(r, "DONE"))
    BY <1>10 DEF Finalize, Suspend
  <2> QED BY <1>3, <1>4, <2>1 DEF Calls
<1>11. CASE Record(r) \/ Note(r) \/ Refuse(r)
  <2>1. PICK pc \in {"BEGIN", "SUSPEND", "REFUSED"} : Goes(r, [a EXCEPT !.pc = pc])
    BY <1>2, <1>11 DEF Record, Note, Refuse
  <2> QED BY <1>3, <1>5, <2>1 DEF Calls
<1> QED BY <1>6, <1>7, <1>8, <1>9, <1>10, <1>11 DEF Call, ClockedCall, OtherCall

(* A step of a run leaves the other runs and the refs alone. *)
LEMMA OneRunSteps ==
  ASSUME OperatorInv, NEW r \in Run, Step(r)
  PROVE  moved' = moved /\ \A q \in Run : q # r => run'[q] = run[q]
<1>1. ASSUME NEW row, Goes(r, row)
      PROVE  moved' = moved /\ \A q \in Run : q # r => run'[q] = run[q]
  BY <1>1 DEF Goes, OperatorInv
<1>2. CASE Call(r)
  BY <1>1, <1>2 DEF Call, ClockedCall, OtherCall, Initialize, AdmitRoot, Start, Record, Begin,
                    Finalize, Note, Suspend
<1>3. CASE Refuse(r) \/ Execute(r)
  BY <1>1, <1>3 DEF Refuse, Execute
<1>4. CASE ReadClock(r) \/ Verify(r)
  BY <1>1, <1>4 DEF ReadClock, Verify
<1> QED BY <1>2, <1>3, <1>4 DEF Step

LEMMA InitReading == ReadingInit => ReadingInv
<1> SUFFICES ASSUME ReadingInit PROVE ReadingInv
  OBVIOUS
<1>1. /\ run = [r \in Run |-> Fresh] /\ moved = {} /\ seen = [r \in Run |-> Nothing]
  BY DEF ReadingInit, OperatorInit
<1>2. Nothing \in Sighting
  BY DEF Nothing, Sighting
<1>3. Observing(Fresh, Nothing, {})
  BY DEF Observing, Fresh, Reading
<1> QED BY <1>1, <1>2, <1>3 DEF ReadingInv

LEMMA NextReading ==
  ASSUME OperatorInv, ReadingInv, [ReadingNext]_readingVars
  PROVE  ReadingInv'
<1>1. OperatorInv'
  BY NextOperator DEF ReadingNext, readingVars
<1>2. CASE UNCHANGED readingVars
  BY <1>2 DEF readingVars, operatorVars, ReadingInv
<1>3. CASE ReadingNext
  <2>1. Watch /\ OperatorNext
    BY <1>3 DEF ReadingNext
  <2>2. seen' \in [Run -> Sighting]
    <3>1. \A r \in Run : seen'[r] \in Sighting
      BY <1>1, <2>1, WatchedRun
    <3> QED BY <2>1, <3>1 DEF Watch
  <2>3. ASSUME NEW r \in Run
        PROVE  Observing(run'[r], seen'[r], moved')
    <3>1. ASSUME NEW q \in Run, Step(q)
          PROVE  Observing(run'[r], seen'[r], moved')
      <4>1. CASE q # r
        BY <1>1, <2>1, <3>1, <4>1, OneRunSteps, StillRunObserves
      <4>2. CASE q = r
        BY <1>1, <2>1, <3>1, <4>2, CallObserves, ExecutingRunObserves, ReadClockObserves,
           VerifyingRunObserves DEF Step
      <4> QED BY <4>1, <4>2
    <3>2. CASE run' = run
      BY <1>1, <2>1, <3>2, StillRunObserves
    <3> QED BY <2>1, <3>1, <3>2 DEF OperatorNext, Move, Reconcile
  <2> QED BY <2>2, <2>3 DEF ReadingInv
<1> QED BY <1>2, <1>3

(* A verdict rests on two readings: what a run reports was so while it     *)
(* executed and while it verified, however the refs moved and returned.    *)
THEOREM VerdictsRestOnReadings == ReadingSpec => []VerdictsAreObserved
<1>1. ReadingSpec => OperatorSpec
  <2>1. ReadingInit => OperatorInit
    BY DEF ReadingInit
  <2>2. [ReadingNext]_readingVars => [OperatorNext]_operatorVars
    BY DEF ReadingNext, readingVars
  <2> QED BY <2>1, <2>2, PTL DEF ReadingSpec, OperatorSpec
<1>2. ReadingInv => VerdictsAreObserved
  BY DEF ReadingInv, Observing, VerdictsAreObserved, Reading
<1> QED BY <1>1, <1>2, OperatorInvariant, InitReading, NextReading, PTL DEF ReadingSpec
=============================================================================
