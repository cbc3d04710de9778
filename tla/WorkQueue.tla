------------------------------ MODULE WorkQueue ------------------------------
(***************************************************************************)
(* The portfolio's durable work queue: the snapshots a currentness cycle   *)
(* commits (portfolio.py), the queue claims on their frontiers             *)
(* (queue_consumer.py) and the outbox of worker routes                     *)
(* (worker_routing.py).  Every action is one BEGIN IMMEDIATE transaction,  *)
(* or one of the readings a cycle makes before its transaction.            *)
(*                                                                         *)
(* A caller of the store holds what an earlier call returned, the fencing  *)
(* token of an item or of a delivery, and may use it at any later time:    *)
(* processes that stall, die or come back are callers that call late or    *)
(* never.  QueueConsumer.tla adds the program of one such caller.          *)
(*                                                                         *)
(* A frontier stands for its fingerprint, which covers its exact subject,  *)
(* project, work type and collision keys.  Every ready frontier gets the   *)
(* same priority inputs (frontier.py), so rows are ordered by snapshot.    *)
(* The time to live is the caller's, so claims lapse in any order: a row   *)
(* keeps whether it has lapsed instead of the time when it will.           *)
(***************************************************************************)
EXTENDS Integers, Sequences, FiniteSets

CONSTANTS
  Subject,        \* exact subjects: a commit of a registered ref
  Locus,          \* registered refs
  LocusOf,        \* the ref of a subject
  Project,        \* consuming projects, each with one execution target
  Frontier,       \* frontier fingerprints
  SubjectOf,      \* the exact subject a frontier is about
  ProjectOf,      \* the project a frontier belongs to
  CollisionKeys,  \* the keys a frontier's work excludes others by
  Private,        \* frontiers whose packets are PRIVATE
  Inspection,     \* frontiers of work type INSPECT
  Endpoint,       \* a worker and one of its invocation routes
  Unrouted,
  Config,         \* scheduling configurations: registry, topology, workers
  EndpointUnder,  \* where a configuration routes a frontier, and under which
  PolicyUnder,    \* replay policy; Unrouted for the built-in inspection
  TopologyOf,     \* dependency digest of a configuration
  WorkersOf,      \* worker registry digest of a configuration
  ReadyUnder,     \* frontiers a configuration finds READY
  Planner,        \* processes that run currentness cycles
  RunsUnder,      \* the configurations the files of a planner may hold
  Outcomes,       \* states the built-in inspection leaves its items in
  Answers,        \* receipt classes the workers report
  MaxSnapshots,   \* bounds: snapshots committed, queue claims and deliveries
  MaxToken,       \* handed out over all rows, versions of a target's head
  MaxDelivery,
  MaxHead

ASSUME ScheduleAssumption ==
  /\ LocusOf \in [Subject -> Locus]
  /\ SubjectOf \in [Frontier -> Subject]
  /\ ProjectOf \in [Frontier -> Project]
  /\ IsFiniteSet(Frontier)
  /\ Config # {}
  /\ \A f \in Frontier : CollisionKeys[f] # {}
  /\ EndpointUnder \in [Config -> [Frontier -> Endpoint \cup {Unrouted}]]
  /\ PolicyUnder \in [Config -> [Frontier -> {"SAFE", "RECONCILE_REQUIRED", "NEVER", Unrouted}]]
  \* a registry gives each route of a worker one policy
  /\ \A c, d \in Config : \A f, g \in Frontier :
       WorkersOf[c] = WorkersOf[d] /\ EndpointUnder[c][f] = EndpointUnder[d][g]
         => PolicyUnder[c][f] = PolicyUnder[d][g]
  /\ ReadyUnder \in [Config -> SUBSET Frontier]
  \* other work is not READY without a route
  /\ \A c \in Config : \A f \in ReadyUnder[c] : PolicyUnder[c][f] = Unrouted => f \in Inspection
  /\ RunsUnder \in [Planner -> SUBSET Config]
  /\ Outcomes \subseteq {"COMPLETE", "FAILED_DETERMINISTIC", "SUPERSEDED",
                          "FAILED_RETRYABLE", "OUTCOME_UNKNOWN"}
  /\ Answers \subseteq {"SUCCEEDED", "FAILED_RETRYABLE", "FAILED_DETERMINISTIC",
                         "OUTCOME_UNKNOWN", "SUPERSEDED"}

ASSUME BoundAssumption ==
  /\ MaxSnapshots \in Nat /\ MaxToken \in Nat /\ MaxDelivery \in Nat
  /\ MaxHead \in Nat \ {0}

VARIABLES
  heads,      \* what the providers publish: one subject per locus
  targets,    \* version of the head of each project's execution target
  plans,      \* cycle in progress of each planner
  snapshots,  \* committed portfolio snapshots, in order
  claims,     \* portfolio_queue_claims
  routes,     \* worker_route_outbox: the envelope of an item and queue fence
  reconciliations  \* portfolio_queue_reconciliations

world == <<heads, targets>>
cycle == <<plans, snapshots>>
vars == <<heads, targets, plans, snapshots, claims, routes, reconciliations>>

NoHead == 0
NoSnapshot == 0
NoReceipt == "NONE"
Item == (1 .. MaxSnapshots) \X Frontier
SnapshotOf(i) == i[1]
FrontierOf(i) == i[2]
ItemSubject(i) == SubjectOf[FrontierOf(i)]
ItemKeys(i) == CollisionKeys[FrontierOf(i)]
ItemTarget(i) == targets[ProjectOf[FrontierOf(i)]]
\* the configuration that scheduled an item, and the route it gave it
ConfigOf(i) == snapshots[SnapshotOf(i)].config
ItemPolicy(i) == PolicyUnder[ConfigOf(i)][FrontierOf(i)]
ItemEndpoint(i) == EndpointUnder[ConfigOf(i)][FrontierOf(i)]
Routed(i) == ItemPolicy(i) # Unrouted
View == {o \in SUBSET Subject : \A l \in Locus : Cardinality({s \in o : LocusOf[s] = l}) = 1}

TerminalQueueStates == {"COMPLETE", "FAILED_DETERMINISTIC", "SUPERSEDED"}
ReservedQueueStates == {"CLAIMED", "OUTCOME_UNKNOWN", "ROUTED"}
NonclaimableQueueStates == TerminalQueueStates \cup {"OUTCOME_UNKNOWN", "ROUTED"}
QueueState == {"NONE", "FAILED_RETRYABLE"} \cup ReservedQueueStates \cup TerminalQueueStates
OpenRouteStates == {"PENDING", "CLAIMED", "RECEIPT_RECORDED", "OUTCOME_UNKNOWN"}
RouteState == {"RECONCILED_RETRY"} \cup OpenRouteStates \cup TerminalQueueStates
ReceiptClass == {"SUCCEEDED", "FAILED_RETRYABLE", "FAILED_DETERMINISTIC",
                 "OUTCOME_UNKNOWN", "SUPERSEDED"}
Resolution == {"CONFIRM_COMPLETE", "CONFIRM_SUPERSEDED",
               "CONFIRM_FAILED_DETERMINISTIC", "RELEASE_RETRY_READ_ONLY"}

Snapshot == [config : Config, observed : SUBSET Subject,
             listed : SUBSET Frontier, queued : SUBSET Frontier]
\* live: the row's expires_at is still ahead
Claim == [state : QueueState, token : 0 .. MaxToken, live : BOOLEAN,
          head : NoHead .. MaxHead, generation : 1 .. MaxToken + 1]
\* by: the delivery fence its receipt was recorded under
Route == [state : RouteState, token : 0 .. MaxDelivery, live : BOOLEAN,
          receipt : ReceiptClass \cup {NoReceipt}, by : 0 .. MaxDelivery]
Plan == [stage : {"idle", "collected", "planned"}, config : Config,
         observed : SUBSET Subject, ofConfig : 0 .. MaxSnapshots,
         ofTopology : 0 .. MaxSnapshots, listed : SUBSET Frontier]

NoClaim == [state |-> "NONE", token |-> 0, live |-> FALSE, head |-> NoHead, generation |-> 1]
NewRoute == [state |-> "PENDING", token |-> 0, live |-> FALSE, receipt |-> NoReceipt, by |-> 0]
IdlePlan == [stage |-> "idle", config |-> CHOOSE c \in Config : TRUE, observed |-> {},
             ofConfig |-> NoSnapshot, ofTopology |-> NoSnapshot, listed |-> {}]

Init ==
  /\ heads \in View
  /\ targets = [p \in Project |-> 1]
  /\ plans = [p \in Planner |-> IdlePlan]
  /\ snapshots = <<>>
  /\ claims = [i \in Item |-> NoClaim]
  /\ routes = <<>>
  /\ reconciliations = {}

-----------------------------------------------------------------------------
(* What the snapshots say.                                                 *)

Committed == DOMAIN snapshots
Newest(S) == IF S = {} THEN NoSnapshot ELSE CHOOSE n \in S : \A m \in S : m <= n
LatestOfConfig(c) == Newest({n \in Committed : snapshots[n].config = c})
LatestOfTopology(d) == Newest({n \in Committed : TopologyOf[snapshots[n].config] = d})
Observed(n) == IF n = NoSnapshot THEN {} ELSE snapshots[n].observed
CurrentSubjects(c) == Observed(LatestOfConfig(c))
\* the latest snapshot of the item's topology still names its exact subject
ProviderSubjectCurrent(i) ==
  ItemSubject(i) \in Observed(LatestOfTopology(TopologyOf[ConfigOf(i)]))

\* the rows a scan in descending snapshot order meets first, one per fingerprint
FirstSeen(rows) ==
  {i \in rows : \A j \in rows : FrontierOf(j) = FrontierOf(i) => SnapshotOf(j) <= SnapshotOf(i)}

-----------------------------------------------------------------------------
(* A currentness cycle: read the refs, read the predecessor and the        *)
(* unresolved work, commit against that predecessor.                       *)

\* the refs are read, over the network, before the store is opened
CollectObservations(p, c) ==
  /\ plans[p].stage = "idle"
  /\ Len(snapshots) < MaxSnapshots
  /\ plans' = [plans EXCEPT ![p] = [IdlePlan EXCEPT !.stage = "collected",
                                                     !.config = c, !.observed = heads]]
  /\ UNCHANGED <<world, snapshots, claims, routes, reconciliations>>

DerivedFrontiers(previous, observed) == {f \in Frontier : SubjectOf[f] \in observed \ previous}

ListedRows(d) ==
  UNION {{n} \X snapshots[n].listed : n \in {m \in Committed : TopologyOf[snapshots[m].config] = d}}

\* only work never claimed or released for retry is unresolved
UnresolvedFrontiers(d) ==
  {FrontierOf(i) : i \in {j \in FirstSeen(ListedRows(d)) :
                            claims[j].state \in {"NONE", "FAILED_RETRYABLE"}}}

CarriedFrontiers(d, observed) == {f \in UnresolvedFrontiers(d) : SubjectOf[f] \in observed}

\* the first cycle of a topology is a baseline and lists nothing
PlanCycle(p) ==
  LET plan == plans[p]
      topology == TopologyOf[plan.config]
      previous == LatestOfTopology(topology)
  IN /\ plan.stage = "collected"
     /\ plans' = [plans EXCEPT ![p] =
          [plan EXCEPT !.stage = "planned",
                       !.ofConfig = LatestOfConfig(plan.config),
                       !.ofTopology = previous,
                       !.listed = IF previous = NoSnapshot THEN {}
                                  ELSE DerivedFrontiers(Observed(previous), plan.observed)
                                         \cup CarriedFrontiers(topology, plan.observed)]]
     /\ UNCHANGED <<world, snapshots, claims, routes, reconciliations>>

\* Mutant of Predecessors: only cycles of the same configuration are noticed.
OwnPredecessor(plan) == plan.ofConfig = LatestOfConfig(plan.config)

\* the predecessors the cycle planned against are still the latest
Predecessors(plan) ==
  /\ plan.ofConfig = LatestOfConfig(plan.config)
  /\ plan.ofTopology = LatestOfTopology(TopologyOf[plan.config])

\* a refused cycle raises, and its caller starts over or gives up
CommitCycle(p) ==
  LET plan == plans[p] IN
  /\ plan.stage = "planned"
  /\ snapshots' = IF Predecessors(plan) /\ Len(snapshots) < MaxSnapshots
                  THEN Append(snapshots,
                         [config |-> plan.config, observed |-> plan.observed,
                          listed |-> plan.listed,
                          queued |-> plan.listed \cap ReadyUnder[plan.config]])
                  ELSE snapshots
  /\ plans' = [plans EXCEPT ![p] = IdlePlan]
  /\ UNCHANGED <<world, claims, routes, reconciliations>>

-----------------------------------------------------------------------------
(* Queue claims.                                                           *)

QueuedRows(c) == UNION {{n} \X snapshots[n].queued : n \in {m \in Committed : snapshots[m].config = c}}

Reserved(i) == claims[i].state \in ReservedQueueStates

\* Mutant of HeldKeys: the reservations of other configurations are not seen.
HeldKeysUnder(i, c) ==
  UNION {ItemKeys(j) : j \in {k \in Item : /\ k # i
                                           /\ Reserved(k)
                                           /\ ConfigOf(k) = c
                                           /\ ItemSubject(k) \in CurrentSubjects(c)}}

\* the keys of the other reserved rows, whatever their snapshot, that are
\* about a subject this configuration still observes
HeldKeys(i, c) ==
  UNION {ItemKeys(j) : j \in {k \in Item : /\ k # i
                                           /\ Reserved(k)
                                           /\ ItemSubject(k) \in CurrentSubjects(c)}}

\* Mutant of Claimable: a row that is CLAIMED stays so.
ClaimableOnce(c) ==
  {i \in FirstSeen(QueuedRows(c)) :
     /\ ItemSubject(i) \in CurrentSubjects(c)
     /\ claims[i].state \in {"NONE", "FAILED_RETRYABLE"}
     /\ ItemKeys(i) \cap HeldKeys(i, c) = {}}

\* the rows a scan of the candidates does not pass over
Claimable(c) ==
  {i \in FirstSeen(QueuedRows(c)) :
     /\ ItemSubject(i) \in CurrentSubjects(c)
     /\ claims[i].state \notin NonclaimableQueueStates
     /\ ~(claims[i].state = "CLAIMED" /\ claims[i].live)
     /\ ItemKeys(i) \cap HeldKeys(i, c) = {}}

\* the newest of them: the scan claims the first it does not pass over
FirstClaimable(c) ==
  LET rows == Claimable(c) IN {i \in rows : \A j \in rows : SnapshotOf(j) <= SnapshotOf(i)}

\* claims handed out so far, over all rows
Issued == {x \in Item \X (1 .. MaxToken) : x[2] <= claims[x[1]].token}

\* the binding of the target and the attempt generation stay with the row
ClaimRow(i) ==
  /\ Cardinality(Issued) < MaxToken
  /\ claims' = [claims EXCEPT ![i].state = "CLAIMED", ![i].token = @ + 1, ![i].live = TRUE]
  /\ UNCHANGED <<world, cycle, routes, reconciliations>>

ClaimNext(c) == \E i \in FirstClaimable(c) : ClaimRow(i)

\* Mutant of Authorizes: any claim of the row will do.
AuthorizesRow(i, t) == claims[i].state = "CLAIMED" /\ claims[i].live /\ t \in 1 .. claims[i].token

\* the fence check that bind_target_head, finalize and route_worker_claim share
Authorizes(i, t) ==
  /\ claims[i].state = "CLAIMED"
  /\ claims[i].token = t
  /\ claims[i].live

BindTargetHead(i, t, h) ==
  /\ Authorizes(i, t)
  /\ claims[i].head \in {NoHead, h}
  /\ claims' = [claims EXCEPT ![i].head = h]
  /\ UNCHANGED <<world, cycle, routes, reconciliations>>

\* only the built-in operator's outcomes are finalized here: work with a
\* route leaves CLAIMED through RouteWorkerClaim
Finalize(i, t, s) ==
  /\ Authorizes(i, t)
  /\ claims' = [claims EXCEPT ![i].state = s, ![i].live = FALSE]
  /\ UNCHANGED <<world, cycle, routes, reconciliations>>

\* the caller runs under the worker registry its row was scheduled with, so
\* that check always passes; the row and its envelope change together
RouteWorkerClaim(i, t) ==
  /\ Authorizes(i, t)
  /\ Routed(i)
  /\ claims[i].head # NoHead
  /\ routes' = [r \in DOMAIN routes \cup {<<i, t>>} |->
                IF r \in DOMAIN routes THEN routes[r] ELSE NewRoute]
  /\ claims' = [claims EXCEPT ![i].state = "ROUTED", ![i].live = FALSE]
  /\ UNCHANGED <<world, cycle, reconciliations>>

-----------------------------------------------------------------------------
(* Deliveries of routed work to workers.                                   *)

Safe(r) == ItemPolicy(r[1]) = "SAFE"
RoutesInState(S) == {r \in DOMAIN routes : routes[r].state \in S}
\* the envelopes that worker and route e may be offered under registry w
Offered(rows, w, e, allowPrivate) ==
  {r \in rows : /\ WorkersOf[ConfigOf(r[1])] = w
                /\ ItemEndpoint(r[1]) = e
                /\ FrontierOf(r[1]) \in Private => allowPrivate}
Stale(r) == ~ProviderSubjectCurrent(r[1])
LapsedDelivery(r) == routes[r].state = "CLAIMED" /\ ~routes[r].live
Ambiguous(r) == ~Stale(r) /\ LapsedDelivery(r) /\ ~Safe(r)

\* Mutant of Deliverable: what lapsed is delivered again, whatever the policy.
DeliverableAgain(r) == ~Stale(r) /\ (routes[r].state = "PENDING" \/ LapsedDelivery(r))

\* Mutant of Deliverable: an envelope is delivered once.
DeliverableOnce(r) == ~Stale(r) /\ routes[r].state = "PENDING"

Deliverable(r) ==
  /\ ~Stale(r)
  /\ routes[r].state = "PENDING" \/ (LapsedDelivery(r) /\ Safe(r))

\* rows the scan met on its way are superseded when stale, and frozen when a
\* delivery of theirs lapsed without an answer and may not be repeated
ScannedRoute(r, scanned) ==
  CASE r \in scanned /\ Stale(r) -> [routes[r] EXCEPT !.state = "SUPERSEDED", !.live = FALSE]
    [] r \in scanned /\ Ambiguous(r) ->
         [routes[r] EXCEPT !.state = "OUTCOME_UNKNOWN", !.live = FALSE]
    [] OTHER -> routes[r]

\* a superseded route takes along the queue row it was made for
ScannedClaim(i, scanned) ==
  IF /\ claims[i].state = "ROUTED"
     /\ <<i, claims[i].token>> \in scanned
     /\ Stale(<<i, claims[i].token>>)
  THEN [claims[i] EXCEPT !.state = "SUPERSEDED", !.live = FALSE]
  ELSE claims[i]

Scan(scanned, given) ==
  /\ routes' = [r \in DOMAIN routes |->
       IF r \in given
       THEN [routes[r] EXCEPT !.state = "CLAIMED", !.token = @ + 1, !.live = TRUE]
       ELSE ScannedRoute(r, scanned)]
  /\ claims' = [i \in Item |-> ScannedClaim(i, scanned)]
  /\ UNCHANGED <<world, cycle, reconciliations>>

\* rows are met in order of creation; the scan stops at the first it delivers.
\* Any set of rows that leaves out the other deliverable ones may precede r.
DeliverRoute(offered, r, before) ==
  /\ r \in offered
  /\ Deliverable(r)
  /\ Cardinality({x \in (DOMAIN routes) \X (1 .. MaxDelivery) : x[2] <= routes[x[1]].token})
       < MaxDelivery
  /\ before \subseteq {x \in offered : ~Deliverable(x)}
  /\ Scan(before, {r})

\* nothing to deliver, but the scan has met every row
DeliverNothing(offered) ==
  /\ ~\E r \in offered : Deliverable(r)
  /\ \E r \in offered : Stale(r) \/ Ambiguous(r)
  /\ Scan(offered, {})

\* d: the delivery fence the worker was given
Accepts(r, d) ==
  /\ routes[r].state = "CLAIMED"
  /\ routes[r].token = d
  /\ routes[r].live

\* a replay of the receipt already recorded is answered and changes nothing
RecordReceipt(r, d, class) ==
  /\ Accepts(r, d)
  /\ routes' = [routes EXCEPT ![r].state = "RECEIPT_RECORDED", ![r].receipt = class,
                              ![r].by = d, ![r].live = FALSE]
  /\ UNCHANGED <<world, cycle, claims, reconciliations>>

-----------------------------------------------------------------------------
(* Explicit reconciliation of OUTCOME_UNKNOWN and ROUTED items.            *)

\* receipts that allow a resolution
Compatible(resolution) ==
  CASE resolution = "CONFIRM_COMPLETE" -> {"SUCCEEDED"}
    [] resolution = "CONFIRM_SUPERSEDED" -> {"SUPERSEDED"}
    [] resolution = "CONFIRM_FAILED_DETERMINISTIC" -> {"FAILED_DETERMINISTIC"}
    [] resolution = "RELEASE_RETRY_READ_ONLY" -> {"FAILED_RETRYABLE", "OUTCOME_UNKNOWN"}

FinalState(resolution) ==
  CASE resolution = "CONFIRM_COMPLETE" -> "COMPLETE"
    [] resolution = "CONFIRM_SUPERSEDED" -> "SUPERSEDED"
    [] resolution = "CONFIRM_FAILED_DETERMINISTIC" -> "FAILED_DETERMINISTIC"
    [] resolution = "RELEASE_RETRY_READ_ONLY" -> "FAILED_RETRYABLE"

\* what a reader of the policy is told of row i under token t: an inspection
\* may be retried as long as it has no envelope, other work never without one
RetryAllowed(i, t) ==
  /\ claims[i].token = t
  /\ IF <<i, t>> \in DOMAIN routes THEN ItemPolicy(i) # "NEVER"
     ELSE FrontierOf(i) \in Inspection

\* The reader uses the answer in a transaction of its own, at any later time.
\* An answer is TRUE if it would be now, as envelopes stay and keep their
\* policy; or, for an inspection, if it was given between the claim under t
\* and its envelope.  Before that claim every answer is FALSE.
RetryReadings(i, t) ==
  {answer \in BOOLEAN : answer => RetryAllowed(i, t) \/ FrontierOf(i) \in Inspection}

\* read live, after the snapshot's own observations
RoutedSubjectsCurrent(i) ==
  /\ ProviderSubjectCurrent(i)
  /\ ItemSubject(i) \in heads
  /\ claims[i].head = ItemTarget(i)

\* Mutant of RouteSettles: any receipt allows any resolution.
RouteSettlesOnReceipt(i, t, resolution) ==
  /\ <<i, t>> \in RoutesInState({"RECEIPT_RECORDED", "OUTCOME_UNKNOWN"})
  /\ resolution = "CONFIRM_COMPLETE" => RoutedSubjectsCurrent(i)

RouteSettles(i, t, resolution) ==
  /\ <<i, t>> \in DOMAIN routes
  /\ \/ /\ routes[<<i, t>>].state = "RECEIPT_RECORDED"
        /\ routes[<<i, t>>].receipt \in Compatible(resolution)
     \/ routes[<<i, t>>].state = "OUTCOME_UNKNOWN"
  /\ resolution = "CONFIRM_COMPLETE" => RoutedSubjectsCurrent(i)

\* retryAllowed: what the caller read before
Reconcile(i, t, resolution, retryAllowed) ==
  LET retry == resolution = "RELEASE_RETRY_READ_ONLY" IN
  /\ claims[i].state \in {"OUTCOME_UNKNOWN", "ROUTED"}
  /\ claims[i].token = t
  /\ retry => retryAllowed
  /\ claims[i].state = "ROUTED" => RouteSettles(i, t, resolution)
  /\ claims' = [claims EXCEPT ![i].state = FinalState(resolution), ![i].live = FALSE,
                              ![i].generation = IF retry THEN @ + 1 ELSE @]
  /\ routes' = IF claims[i].state = "ROUTED"
               THEN [routes EXCEPT ![<<i, t>>].state = IF retry THEN "RECONCILED_RETRY"
                                                   ELSE FinalState(resolution)]
               ELSE routes
  /\ reconciliations' = reconciliations \cup {[item |-> i, token |-> t, resolution |-> resolution]}
  /\ UNCHANGED <<world, cycle>>

-----------------------------------------------------------------------------
(* The world: refs move, leases lapse.                                     *)

MoveProvider ==
  /\ heads' \in View \ {heads}
  /\ UNCHANGED <<targets, cycle, claims, routes, reconciliations>>

MoveTarget(p) ==
  /\ targets[p] < MaxHead
  /\ targets' = [targets EXCEPT ![p] = @ + 1]
  /\ UNCHANGED <<heads, cycle, claims, routes, reconciliations>>

LapseClaim(i) ==
  /\ claims[i].state = "CLAIMED" /\ claims[i].live
  /\ claims' = [claims EXCEPT ![i].live = FALSE]
  /\ UNCHANGED <<world, cycle, routes, reconciliations>>

LapseDelivery(r) ==
  /\ routes[r].state = "CLAIMED" /\ routes[r].live
  /\ routes' = [routes EXCEPT ![r].live = FALSE]
  /\ UNCHANGED <<world, cycle, claims, reconciliations>>

\* the callers whose call is refused anyway are left out
InState(S) == {i \in Item : claims[i].state \in S}

CycleStep ==
  \/ \E p \in Planner : \E c \in RunsUnder[p] : CollectObservations(p, c)
  \/ \E p \in Planner : PlanCycle(p) \/ CommitCycle(p)

ClaimStep ==
  \/ \E c \in Config : ClaimNext(c)
  \/ \E i \in InState({"CLAIMED"}), t \in 1 .. MaxToken :
       \/ \E h \in 1 .. ItemTarget(i) : BindTargetHead(i, t, h)
       \/ \E s \in Outcomes : ~Routed(i) /\ Finalize(i, t, s)
       \/ RouteWorkerClaim(i, t)

DeliveryStep ==
  \/ LET open == RoutesInState({"PENDING", "CLAIMED"}) IN
     /\ open # {}
     /\ \E c \in Config, e \in Endpoint, allowPrivate \in BOOLEAN :
          LET offered == Offered(open, WorkersOf[c], e, allowPrivate) IN
          \/ \E r \in offered : \E before \in SUBSET offered : DeliverRoute(offered, r, before)
          \/ DeliverNothing(offered)
  \/ \E r \in RoutesInState({"CLAIMED"}), d \in 1 .. MaxDelivery, class \in Answers :
       RecordReceipt(r, d, class)

ReconcileStep ==
  \E i \in InState({"OUTCOME_UNKNOWN", "ROUTED"}), t \in 1 .. MaxToken,
     resolution \in Resolution :
    \E retryAllowed \in RetryReadings(i, t) : Reconcile(i, t, resolution, retryAllowed)

WorldStep ==
  \/ MoveProvider
  \/ \E p \in Project : MoveTarget(p)
  \/ \E i \in InState({"CLAIMED"}) : LapseClaim(i)
  \/ \E r \in RoutesInState({"CLAIMED"}) : LapseDelivery(r)

Next == CycleStep \/ ClaimStep \/ DeliveryStep \/ ReconcileStep \/ WorldStep

Spec == Init /\ [][Next]_vars

-----------------------------------------------------------------------------
(* Properties.                                                             *)

TypeOK ==
  /\ heads \in View
  /\ targets \in [Project -> 1 .. MaxHead]
  /\ plans \in [Planner -> Plan]
  /\ snapshots \in Seq(Snapshot) /\ Len(snapshots) <= MaxSnapshots
  /\ claims \in [Item -> Claim]
  /\ DOMAIN routes \subseteq Item \X (1 .. MaxToken)
  /\ \A r \in DOMAIN routes : routes[r] \in Route
  /\ reconciliations \subseteq [item : Item, token : 1 .. MaxToken, resolution : Resolution]

\* Work on one exact subject is exclusive per collision key, whatever the
\* snapshots and configurations it was scheduled by, while it is claimed,
\* routed or of unknown outcome, however often the subject goes and returns.
SameSubjectIsExclusive ==
  LET reserved == {i \in Item : Reserved(i)} IN
  \A i, j \in reserved :
    i # j /\ ItemSubject(i) = ItemSubject(j) => ItemKeys(i) \cap ItemKeys(j) = {}

\* The outbox and the queue never disagree: an open envelope is the one of the
\* queue row that is ROUTED under its fence, and a settled one has settled it.
OutboxMirrorsQueue ==
  /\ \A i \in Item : claims[i].state = "ROUTED" =>
       <<i, claims[i].token>> \in RoutesInState(OpenRouteStates)
  /\ \A r \in RoutesInState(OpenRouteStates) :
       claims[r[1]].state = "ROUTED" /\ claims[r[1]].token = r[2]
  /\ \A r \in RoutesInState(TerminalQueueStates) :
       claims[r[1]].state = routes[r].state /\ claims[r[1]].token = r[2]

\* Only a SAFE delivery is repeated without a reconciler, and work other than
\* an inspection whose route is NEVER to be replayed is handed to a worker once
\* in the life of its row.  (The policy of an inspection may have been read
\* before its route was made.)
DeliveriesFollowPolicy ==
  \A r \in DOMAIN routes :
    /\ ~Safe(r) => routes[r].token <= 1
    /\ ItemPolicy(r[1]) = "NEVER" /\ FrontierOf(r[1]) \notin Inspection =>
         \A x \in DOMAIN routes : x[1] = r[1] /\ x # r => routes[x].token = 0 \/ routes[r].token = 0

\* A receipt is the latest delivery's, and the state its route is settled in is
\* one that receipt allows: no late or contradicted answer decides anything.
ReceiptsDecide ==
  \A x \in DOMAIN routes :
    LET r == routes[x] IN
    r.receipt # NoReceipt =>
      /\ r.by = r.token
      /\ \/ r.state = "RECEIPT_RECORDED"
         \/ \E resolution \in Resolution :
              /\ r.receipt \in Compatible(resolution)
              /\ r.state = IF resolution = "RELEASE_RETRY_READ_ONLY" THEN "RECONCILED_RETRY"
                           ELSE FinalState(resolution)

\* No move of a ref falls between two snapshots of a topology, whoever raced to
\* commit them: what the later one observes and the earlier did not is listed.
NoChangeIsMissed ==
  \A n \in Committed :
    LET previous == Newest({m \in Committed : m < n /\
                      TopologyOf[snapshots[m].config] = TopologyOf[snapshots[n].config]})
    IN previous # NoSnapshot =>
         DerivedFrontiers(Observed(previous), Observed(n)) \subseteq snapshots[n].listed

\* Nothing that was decided is undone: a terminal row stays as it is, the
\* target a row was bound to is the target of all its attempts, a receipt is
\* never replaced, and a row that may have run is only claimed again as a new
\* attempt.
DecisionsStand ==
  [][/\ \A r \in DOMAIN routes :
          routes[r].receipt # NoReceipt => routes'[r].receipt = routes[r].receipt
     /\ \A i \in Item :
       /\ claims[i].state \in TerminalQueueStates => claims'[i] = claims[i]
       /\ claims[i].head # NoHead => claims'[i].head = claims[i].head
       /\ claims[i].state \in {"OUTCOME_UNKNOWN", "ROUTED"}
            => \/ claims'[i].state \in {claims[i].state} \cup TerminalQueueStates
               \/ claims'[i].generation = claims[i].generation + 1]_vars

\* docs/OPERATOR_EXECUTION_V1.md:80: a claim "refuses collision domains already
\* held by another live queue claim, including claims from older snapshots".
LiveClaimsExclude ==
  \A i, j \in Item :
    i # j /\ (\A k \in {i, j} : claims[k].state = "CLAIMED" /\ claims[k].live)
      => ItemKeys(i) \cap ItemKeys(j) = {}

=============================================================================
