---------------------------- MODULE QueueConsumer ----------------------------
(***************************************************************************)
(* The processes that work the portfolio queue: consumers that run         *)
(* consume_next_queued_read_only_work (queue_consumer.py) and reference    *)
(* workers that run run_reference_read_worker_once (reference_worker.py),  *)
(* over the store of WorkQueue.tla.  Every store call is a transaction of  *)
(* its own and every read of a ref a network call; between any two a       *)
(* process may stall past its lease, die, or be overtaken.                 *)
(*                                                                         *)
(* The built-in inspection a consumer runs is OperatorRun.tla; here it is  *)
(* the record of its lineage, which starts OPEN and may become terminal.   *)
(***************************************************************************)
EXTENDS WorkQueue

CONSTANTS
  Consumer,           \* processes that consume the queue
  Worker,             \* processes that answer its routes
  ReferenceEndpoint,  \* the one worker and route they all answer for
  MaxFaults,          \* bounds: stalls past a lease, deaths and errors,
  MaxReconciliations  \* and decisions of reconcilers

ASSUME ProcessAssumption == MaxFaults \in Nat /\ MaxReconciliations \in Nat

VARIABLES
  consumers,  \* what each consumer is doing, and for which claim
  workers,    \* what each worker is doing, and for which delivery
  operators,  \* recursive_work_state of the lineage of an item and attempt
  faults

store == <<world, cycle, claims, routes, reconciliations>>
queueVars == <<vars, consumers, workers, operators, faults>>

Idle == [pc |-> "idle"]
At(k, pc) == consumers[k].pc = pc
WorkerAt(w, pc) == workers[w].pc = pc
Goes(k, row) == consumers' = [consumers EXCEPT ![k] = row]
GoesTo(k, pc) == Goes(k, [consumers[k] EXCEPT !.pc = pc])
WorkerGoes(w, row) == workers' = [workers EXCEPT ![w] = row]

QueueInit ==
  /\ Init
  /\ consumers = [k \in Consumer |-> Idle]
  /\ workers = [w \in Worker |-> Idle]
  /\ operators = <<>>
  /\ faults = 0

-----------------------------------------------------------------------------
(* One consumption.                                                        *)

Held(k) == consumers[k].item
Fence(k) == consumers[k].token
Lineage(k) == <<Held(k), consumers[k].generation>>
Started(k) == Lineage(k) \in DOMAIN operators

TakeItem(k, i) ==
  /\ ClaimRow(i)
  /\ Goes(k, [pc |-> IF claims[i].head = NoHead THEN "unbound" ELSE "bound",
              item |-> i, token |-> claims[i].token + 1,
              generation |-> claims[i].generation])
  /\ UNCHANGED <<workers, operators, faults>>

ReadTargetHead(k) ==
  /\ At(k, "unbound")
  /\ Goes(k, [pc |-> "read", item |-> Held(k), token |-> Fence(k),
              generation |-> consumers[k].generation, head |-> ItemTarget(Held(k))])
  /\ UNCHANGED <<store, workers, operators, faults>>

\* a store call that is refused raises, and the process is free again
Bind(k) ==
  /\ At(k, "read")
  /\ LET bind == BindTargetHead(Held(k), Fence(k), consumers[k].head) IN
       \/ bind /\ GoesTo(k, "bound")
       \/ /\ ~(Authorizes(Held(k), Fence(k)) /\ claims[Held(k)].head \in {NoHead, consumers[k].head})
          /\ Goes(k, Idle)
          /\ UNCHANGED store
  /\ UNCHANGED <<workers, operators, faults>>

HandOver(k) ==
  /\ At(k, "bound")
  /\ Routed(Held(k))
  /\ \/ RouteWorkerClaim(Held(k), Fence(k))
     \/ ~Authorizes(Held(k), Fence(k)) /\ UNCHANGED store
  /\ Goes(k, Idle)
  /\ UNCHANGED <<workers, operators, faults>>

QueueStateForOperator(status) ==
  IF status \in TerminalQueueStates THEN status ELSE "OUTCOME_UNKNOWN"

Settling(k, state) ==
  [pc |-> "settling", item |-> Held(k), token |-> Fence(k),
   generation |-> consumers[k].generation, outcome |-> state]

\* an earlier attempt's record decides without another execution
LookUpOperator(k) ==
  /\ At(k, "bound")
  /\ ~Routed(Held(k))
  /\ IF Started(k)
     THEN Goes(k, Settling(k, QueueStateForOperator(operators[Lineage(k)])))
     ELSE GoesTo(k, "running")
  /\ UNCHANGED <<store, workers, operators, faults>>

\* Mutant of InitializeRoot: the root is created or replaced.
ReplaceRoot(k) ==
  /\ At(k, "running")
  /\ GoesTo(k, "started")
  /\ operators' = [l \in DOMAIN operators \cup {Lineage(k)} |->
                     IF l = Lineage(k) THEN "OPEN" ELSE operators[l]]
  /\ UNCHANGED <<store, workers, faults>>

\* initialize_root creates the lineage's only root, or raises
InitializeRoot(k) ==
  /\ At(k, "running")
  /\ IF Started(k)
     THEN GoesTo(k, "failed") /\ UNCHANGED operators
     ELSE /\ GoesTo(k, "started")
          /\ operators' = [l \in DOMAIN operators \cup {Lineage(k)} |->
                             IF l = Lineage(k) THEN "OPEN" ELSE operators[l]]
  /\ UNCHANGED <<store, workers, faults>>

\* the run ends with a verdict or without one, and returns or raises
EndOperator(k, status, raised) ==
  /\ At(k, "started")
  /\ operators' = [operators EXCEPT ![Lineage(k)] = status]
  /\ IF raised THEN GoesTo(k, "failed")
     ELSE Goes(k, Settling(k, QueueStateForOperator(status)))
  /\ UNCHANGED <<store, workers, faults>>

Recover(k) ==
  /\ At(k, "failed")
  /\ Goes(k, Settling(k, IF Started(k) THEN QueueStateForOperator(operators[Lineage(k)])
                         ELSE "FAILED_RETRYABLE"))
  /\ UNCHANGED <<store, workers, operators, faults>>

\* when finalize is refused, the handler looks up again and is refused again:
\* a fence that was lost stays lost
Settle(k) ==
  /\ At(k, "settling")
  /\ \/ Finalize(Held(k), Fence(k), consumers[k].outcome)
     \/ ~Authorizes(Held(k), Fence(k)) /\ UNCHANGED store
  /\ Goes(k, Idle)
  /\ UNCHANGED <<workers, operators, faults>>

OperatorStatus == (Outcomes \cap TerminalQueueStates) \cup {"OPEN"}

ConsumerStep(k) ==
  \/ At(k, "idle") /\ \E c \in Config : \E i \in FirstClaimable(c) : TakeItem(k, i)
  \/ ReadTargetHead(k) \/ Bind(k) \/ HandOver(k)
  \/ LookUpOperator(k) \/ InitializeRoot(k)
  \/ \E status \in OperatorStatus, raised \in BOOLEAN : EndOperator(k, status, raised)
  \/ Recover(k) \/ Settle(k)

-----------------------------------------------------------------------------
(* One delivery to a reference worker.                                     *)

TakeDelivery(w, offered, r, before) ==
  /\ DeliverRoute(offered, r, before)
  /\ WorkerGoes(w, [pc |-> "reading", route |-> r, token |-> routes[r].token + 1])
  /\ UNCHANGED <<consumers, operators, faults>>

Delivery(w) == workers[w].route

\* the provider's ref is read first, the target's after it
ReadProvider(w) ==
  /\ WorkerAt(w, "reading")
  /\ WorkerGoes(w, [pc |-> "halfway", route |-> Delivery(w), token |-> workers[w].token,
                    exact |-> ItemSubject(Delivery(w)[1]) \in heads])
  /\ UNCHANGED <<store, consumers, operators, faults>>

ReadTarget(w) ==
  /\ WorkerAt(w, "halfway")
  /\ LET i == Delivery(w)[1]
         same == workers[w].exact /\ claims[i].head = ItemTarget(i)
     IN WorkerGoes(w, [pc |-> "answering", route |-> Delivery(w), token |-> workers[w].token,
                       class |-> IF same THEN "SUCCEEDED" ELSE "SUPERSEDED"])
  /\ UNCHANGED <<store, consumers, operators, faults>>

\* either read fails
FailRead(w) ==
  /\ WorkerAt(w, "reading") \/ WorkerAt(w, "halfway")
  /\ WorkerGoes(w, [pc |-> "answering", route |-> Delivery(w), token |-> workers[w].token,
                    class |-> "FAILED_RETRYABLE"])
  /\ UNCHANGED <<store, consumers, operators, faults>>

Answer(w) ==
  /\ WorkerAt(w, "answering")
  /\ \/ RecordReceipt(Delivery(w), workers[w].token, workers[w].class)
     \/ ~Accepts(Delivery(w), workers[w].token) /\ UNCHANGED store
  /\ WorkerGoes(w, Idle)
  /\ UNCHANGED <<consumers, operators, faults>>

\* the reference worker is offered the envelopes of its registry and route,
\* none PRIVATE
OfferedUnder(c) ==
  Offered(RoutesInState({"PENDING", "CLAIMED"}), WorkersOf[c], ReferenceEndpoint, FALSE)

FindNothing(w, offered) ==
  /\ DeliverNothing(offered)
  /\ UNCHANGED <<consumers, workers, operators, faults>>

WorkerStep(w) ==
  \/ /\ WorkerAt(w, "idle")
     /\ \E c \in Config :
       LET offered == OfferedUnder(c) IN
       \/ \E r \in offered : \E before \in SUBSET offered : TakeDelivery(w, offered, r, before)
       \/ FindNothing(w, offered)
  \/ ReadProvider(w) \/ ReadTarget(w) \/ FailRead(w) \/ Answer(w)

-----------------------------------------------------------------------------
(* Faults, and what else moves.                                            *)

Fault == faults < MaxFaults /\ faults' = faults + 1

\* the process dies, or an error ends its call and leaves its claim behind
StopConsumer(k) ==
  /\ ~At(k, "idle") /\ Fault
  /\ Goes(k, Idle)
  /\ UNCHANGED <<store, workers, operators>>

StopWorker(w) ==
  /\ ~WorkerAt(w, "idle") /\ Fault
  /\ WorkerGoes(w, Idle)
  /\ UNCHANGED <<store, consumers, operators>>

\* the operator refuses its arguments before it initializes the root
RaiseBeforeRoot(k) ==
  /\ At(k, "running") /\ Fault
  /\ GoesTo(k, "failed")
  /\ UNCHANGED <<store, workers, operators>>

ClaimIsHeld(i) == \E k \in Consumer : ~At(k, "idle") /\ Held(k) = i /\ Fence(k) = claims[i].token
DeliveryIsHeld(r) ==
  \E w \in Worker : ~WorkerAt(w, "idle") /\ Delivery(w) = r /\ workers[w].token = routes[r].token

\* the holder stalls past its lease; an abandoned lease just runs out
OverrunClaim(i) == ClaimIsHeld(i) /\ Fault /\ LapseClaim(i) /\ UNCHANGED <<consumers, workers, operators>>
OverrunDelivery(r) ==
  DeliveryIsHeld(r) /\ Fault /\ LapseDelivery(r) /\ UNCHANGED <<consumers, workers, operators>>

ExpireClaim(i) ==
  ~ClaimIsHeld(i) /\ LapseClaim(i) /\ UNCHANGED <<consumers, workers, operators, faults>>
ExpireDelivery(r) ==
  ~DeliveryIsHeld(r) /\ LapseDelivery(r) /\ UNCHANGED <<consumers, workers, operators, faults>>

FaultStep ==
  \/ \E k \in Consumer : StopConsumer(k) \/ RaiseBeforeRoot(k)
  \/ \E w \in Worker : StopWorker(w)
  \/ \E i \in InState({"CLAIMED"}) : OverrunClaim(i)
  \/ \E r \in RoutesInState({"CLAIMED"}) : OverrunDelivery(r)

ExpireStep ==
  \/ \E i \in InState({"CLAIMED"}) : ExpireClaim(i)
  \/ \E r \in RoutesInState({"CLAIMED"}) : ExpireDelivery(r)

OtherStep ==
  /\ \/ CycleStep
     \/ MoveProvider
     \/ \E p \in Project : MoveTarget(p)
     \/ Cardinality(reconciliations) < MaxReconciliations /\ ReconcileStep
  /\ UNCHANGED <<consumers, workers, operators, faults>>

QueueNext ==
  \/ \E k \in Consumer : ConsumerStep(k)
  \/ \E w \in Worker : WorkerStep(w)
  \/ FaultStep \/ ExpireStep \/ OtherStep

QueueSpec == QueueInit /\ [][QueueNext]_queueVars

\* Running processes go on and leases run out.  Nothing makes a cycle run, a
\* reconciler decide or a ref move.
FairQueueSpec ==
  /\ QueueSpec
  /\ \A k \in Consumer : WF_queueVars(ConsumerStep(k))
  /\ \A w \in Worker : WF_queueVars(WorkerStep(w))
  /\ WF_queueVars(ExpireStep)

-----------------------------------------------------------------------------
(* Properties.                                                             *)

\* What the queue says of an inspection is what its operator's record says,
\* unless a reconciler said so: no late, repeated or failed consumption makes
\* an item terminal on its own.
QueueFollowsOperator ==
  \A i \in InState(TerminalQueueStates) :
    ~Routed(i) =>
      \/ \E x \in reconciliations : x.item = i /\ x.token = claims[i].token
      \/ /\ <<i, claims[i].generation>> \in DOMAIN operators
         /\ operators[<<i, claims[i].generation>>] = claims[i].state

RowsOf(f) == {i \in Item : FrontierOf(i) = f}
\* claimed rows whose subject is current; a later cycle may have listed the
\* same frontier again under the same configuration
ClaimedRows(f) == {i \in RowsOf(f) \cap InState({"CLAIMED"}) : ProviderSubjectCurrent(i)}
Relisted(i) == \E j \in QueuedRows(ConfigOf(i)) \cap RowsOf(FrontierOf(i)) : SnapshotOf(j) > SnapshotOf(i)

\* Work is not lost with the process that claimed it: a claim is settled, or
\* taken over until it is, as long as its subject is current and no later
\* cycle has listed the frontier again.
AbandonedClaimIsResumed ==
  \A f \in Frontier : ClaimedRows(f) # {} ~> \A i \in ClaimedRows(f) : Relisted(i)

\* An envelope for the reference workers that may be delivered again is
\* answered in the end, whatever worker dies with it, unless its subject is no
\* longer current.
UnansweredRoutes(f) ==
  {r \in RoutesInState({"PENDING", "CLAIMED"}) :
     /\ FrontierOf(r[1]) = f /\ ItemEndpoint(r[1]) = ReferenceEndpoint
     /\ Safe(r) /\ ~Stale(r)}
RoutedWorkIsAnswered ==
  \A f \in {g \in Frontier : \E c \in Config : PolicyUnder[c][g] = "SAFE"} :
    UnansweredRoutes(f) # {} ~> UnansweredRoutes(f) = {}

\* docs/OPERATOR_EXECUTION_V1.md:89: "queue consumption can recover compatible
\* historical queue rows when their exact provider subject is still current".
HistoricalRowsAreRecovered ==
  \A f \in Frontier : ClaimedRows(f) # {} ~> ClaimedRows(f) = {}

=============================================================================
