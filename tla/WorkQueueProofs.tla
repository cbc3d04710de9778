--------------------------- MODULE WorkQueueProofs ---------------------------
(***************************************************************************)
(* Proofs about the portfolio's work queue, for every set of subjects,     *)
(* frontiers, configurations and planners, and every bound.  The steps of  *)
(* the store are described by what they do to one row of the queue and to  *)
(* the envelopes of the outbox (the footprints); the invariants are proved *)
(* of the footprints.                                                      *)
(***************************************************************************)
EXTENDS WorkQueue, FiniteSetTheorems, SequenceTheorems, TLAPS

---------------------------------------------------------------------------
(* The inductive invariant *)

(* Only rows of committed snapshots are claimed, and only routed ones have *)
(* an envelope, so that what scheduled a row never changes under it.       *)
RowsAreCommitted ==
  /\ \A i \in Item : claims[i].state # "NONE" => SnapshotOf(i) \in Committed
  /\ \A r \in DOMAIN routes : claims[r[1]].state # "NONE" /\ Routed(r[1])

(* An envelope's fence was issued, and while its row is claimed again it   *)
(* is an older one.                                                        *)
EnvelopesAreIssued ==
  \A r \in DOMAIN routes :
    /\ r[2] <= claims[r[1]].token
    /\ claims[r[1]].state = "CLAIMED" => r[2] < claims[r[1]].token

(* An attempt generation begins with a claim. *)
AttemptsAreClaimed ==
  \A i \in Item :
    /\ claims[i].generation <= claims[i].token + 1
    /\ Reserved(i) => claims[i].generation <= claims[i].token

(* What is PENDING was never delivered, and a delivery that is not SAFE to *)
(* repeat was made once.                                                   *)
UnsafeIsDeliveredOnce ==
  \A r \in DOMAIN routes :
    /\ routes[r].state = "PENDING" => routes[r].token = 0
    /\ ~Safe(r) => routes[r].token <= 1

(* A route that is NEVER to be replayed, of work other than an inspection, *)
(* is the last one of its row.                                             *)
NeverIsRoutedOnce ==
  \A r \in DOMAIN routes :
    ItemPolicy(r[1]) = "NEVER" /\ FrontierOf(r[1]) \notin Inspection =>
      /\ claims[r[1]].state \in {"ROUTED"} \cup TerminalQueueStates
      /\ r[2] = claims[r[1]].token

(* A planned cycle lists what changed since the snapshot it follows. *)
PlansListChanges ==
  \A p \in Planner :
    plans[p].stage = "planned" /\ plans[p].ofTopology # NoSnapshot =>
      /\ plans[p].ofTopology \in Committed
      /\ DerivedFrontiers(Observed(plans[p].ofTopology), plans[p].observed)
           \subseteq plans[p].listed

RowInv ==
  /\ RowsAreCommitted
  /\ EnvelopesAreIssued
  /\ AttemptsAreClaimed
  /\ SameSubjectIsExclusive
  /\ OutboxMirrorsQueue
  /\ UnsafeIsDeliveredOnce
  /\ NeverIsRoutedOnce
  /\ ReceiptsDecide

CycleInv == PlansListChanges /\ NoChangeIsMissed

Inv == TypeOK /\ RowInv /\ CycleInv

---------------------------------------------------------------------------
(* What the updates write *)

Taken(f, i) == [f EXCEPT ![i].state = "CLAIMED", ![i].token = @ + 1, ![i].live = TRUE]

LEMMA TakenRow ==
  ASSUME NEW f \in [Item -> Claim], NEW i \in Item, f[i].token < MaxToken, NEW g, g = Taken(f, i)
  PROVE  /\ g \in [Item -> Claim]
         /\ \A j \in Item : j # i => g[j] = f[j]
         /\ g[i].state = "CLAIMED" /\ g[i].token = f[i].token + 1
         /\ g[i].head = f[i].head /\ g[i].generation = f[i].generation
<1>1. f[i] \in Claim /\ f[i].token + 1 \in 0 .. MaxToken
  BY BoundAssumption DEF Claim
<1>2. "CLAIMED" \in QueueState
  BY DEF QueueState, ReservedQueueStates
<1> QED BY <1>1, <1>2 DEF Taken, Claim

Bound(f, i, h) == [f EXCEPT ![i].head = h]

LEMMA BoundRow ==
  ASSUME NEW f \in [Item -> Claim], NEW i \in Item, NEW h \in 1 .. MaxHead, NEW g, g = Bound(f, i, h)
  PROVE  /\ g \in [Item -> Claim]
         /\ \A j \in Item : j # i => g[j] = f[j]
         /\ g[i].state = f[i].state /\ g[i].token = f[i].token
         /\ g[i].head = h /\ g[i].generation = f[i].generation
<1>1. f[i] \in Claim /\ h \in NoHead .. MaxHead
  BY BoundAssumption DEF Claim, NoHead
<1> QED BY <1>1 DEF Bound, Claim

Ended(f, i, s) == [f EXCEPT ![i].state = s, ![i].live = FALSE]

LEMMA EndedRow ==
  ASSUME NEW f \in [Item -> Claim], NEW i \in Item, NEW s \in QueueState, NEW g, g = Ended(f, i, s)
  PROVE  /\ g \in [Item -> Claim]
         /\ \A j \in Item : j # i => g[j] = f[j]
         /\ g[i].state = s /\ g[i].token = f[i].token
         /\ g[i].head = f[i].head /\ g[i].generation = f[i].generation
<1>1. f[i] \in Claim
  OBVIOUS
<1> QED BY <1>1 DEF Ended, Claim

Lapsed(f, i) == [f EXCEPT ![i].live = FALSE]

LEMMA LapsedRow ==
  ASSUME NEW f \in [Item -> Claim], NEW i \in Item, NEW g, g = Lapsed(f, i)
  PROVE  /\ g \in [Item -> Claim]
         /\ \A j \in Item : j # i => g[j] = f[j]
         /\ g[i].state = f[i].state /\ g[i].token = f[i].token
         /\ g[i].head = f[i].head /\ g[i].generation = f[i].generation
<1>1. f[i] \in Claim
  OBVIOUS
<1> QED BY <1>1 DEF Lapsed, Claim

Superseded(c) == [c EXCEPT !.state = "SUPERSEDED", !.live = FALSE]

LEMMA SupersededRow ==
  ASSUME NEW c \in Claim, NEW d, d = Superseded(c)
  PROVE  /\ d \in Claim
         /\ d.state = "SUPERSEDED" /\ d.token = c.token
         /\ d.head = c.head /\ d.generation = c.generation
<1>1. "SUPERSEDED" \in QueueState
  BY DEF QueueState, TerminalQueueStates
<1> QED BY <1>1 DEF Superseded, Claim

Settled(f, i, s, retry) == [f EXCEPT ![i].state = s, ![i].live = FALSE,
                                     ![i].generation = IF retry THEN @ + 1 ELSE @]

LEMMA SettledRow ==
  ASSUME NEW f \in [Item -> Claim], NEW i \in Item, NEW s \in QueueState, NEW retry \in BOOLEAN,
         retry => f[i].generation <= MaxToken, NEW g, g = Settled(f, i, s, retry)
  PROVE  /\ g \in [Item -> Claim]
         /\ \A j \in Item : j # i => g[j] = f[j]
         /\ g[i].state = s /\ g[i].token = f[i].token /\ g[i].head = f[i].head
         /\ g[i].generation = IF retry THEN f[i].generation + 1 ELSE f[i].generation
<1>1. f[i] \in Claim
  OBVIOUS
<1>2. (IF retry THEN f[i].generation + 1 ELSE f[i].generation) \in 1 .. MaxToken + 1
  BY <1>1, BoundAssumption DEF Claim
<1> QED BY <1>1, <1>2 DEF Settled, Claim

Answered(f, r, d, class) == [f EXCEPT ![r].state = "RECEIPT_RECORDED", ![r].receipt = class,
                                      ![r].by = d, ![r].live = FALSE]

LEMMA AnsweredRoute ==
  ASSUME NEW f, NEW r \in DOMAIN f, f[r] \in Route, NEW d \in 0 .. MaxDelivery,
         NEW class \in ReceiptClass, NEW g, g = Answered(f, r, d, class)
  PROVE  /\ DOMAIN g = DOMAIN f
         /\ \A x \in DOMAIN f : x # r => g[x] = f[x]
         /\ g[r] \in Route
         /\ g[r].state = "RECEIPT_RECORDED" /\ g[r].token = f[r].token
         /\ g[r].receipt = class /\ g[r].by = d
<1>1. "RECEIPT_RECORDED" \in RouteState
  BY DEF RouteState, OpenRouteStates
<1> QED BY <1>1 DEF Answered, Route

RouteSet(f, r, s) == [f EXCEPT ![r].state = s]

LEMMA SettledRoute ==
  ASSUME NEW f, NEW r \in DOMAIN f, f[r] \in Route, NEW s \in RouteState, NEW g, g = RouteSet(f, r, s)
  PROVE  /\ DOMAIN g = DOMAIN f
         /\ \A x \in DOMAIN f : x # r => g[x] = f[x]
         /\ g[r] \in Route
         /\ g[r].state = s /\ g[r].token = f[r].token
         /\ g[r].receipt = f[r].receipt /\ g[r].by = f[r].by
  BY DEF RouteSet, Route

RouteLapsed(f, r) == [f EXCEPT ![r].live = FALSE]

LEMMA LapsedRoute ==
  ASSUME NEW f, NEW r \in DOMAIN f, f[r] \in Route, NEW g, g = RouteLapsed(f, r)
  PROVE  /\ DOMAIN g = DOMAIN f
         /\ \A x \in DOMAIN f : x # r => g[x] = f[x]
         /\ g[r] \in Route
         /\ g[r].state = f[r].state /\ g[r].token = f[r].token
         /\ g[r].receipt = f[r].receipt /\ g[r].by = f[r].by
  BY DEF RouteLapsed, Route

RouteEnded(e, s) == [e EXCEPT !.state = s, !.live = FALSE]

LEMMA EndedRoute ==
  ASSUME NEW e \in Route, NEW s \in RouteState, NEW a, a = RouteEnded(e, s)
  PROVE  /\ a \in Route
         /\ a.state = s /\ a.token = e.token /\ a.receipt = e.receipt /\ a.by = e.by
  BY DEF RouteEnded, Route

Delivered(e) == [e EXCEPT !.state = "CLAIMED", !.token = @ + 1, !.live = TRUE]

LEMMA DeliveredRoute ==
  ASSUME NEW e \in Route, e.token < MaxDelivery, NEW a, a = Delivered(e)
  PROVE  /\ a \in Route
         /\ a.state = "CLAIMED" /\ a.token = e.token + 1 /\ a.receipt = e.receipt /\ a.by = e.by
<1>1. "CLAIMED" \in RouteState /\ e.token + 1 \in 0 .. MaxDelivery
  BY BoundAssumption DEF RouteState, OpenRouteStates, Route
<1> QED BY <1>1 DEF Delivered, Route

LEMMA NewRouteType == NewRoute \in Route /\ NewRoute.state = "PENDING" /\ NewRoute.token = 0
                      /\ NewRoute.receipt = NoReceipt
  BY BoundAssumption DEF NewRoute, Route, RouteState, OpenRouteStates

---------------------------------------------------------------------------
(* Footprints: what a step does to a row i of the queue, ... *)

SameFence(i) ==
  /\ claims'[i].token = claims[i].token
  /\ claims'[i].head = claims[i].head
  /\ claims'[i].generation = claims[i].generation

RowTaken(i) ==
  /\ claims[i].state \notin NonclaimableQueueStates
  /\ SnapshotOf(i) \in Committed
  /\ claims'[i].state = "CLAIMED"
  /\ claims'[i].token = claims[i].token + 1
  /\ claims'[i].head = claims[i].head
  /\ claims'[i].generation = claims[i].generation
  /\ \A j \in Item : j # i =>
       /\ claims'[j] = claims[j]
       /\ Reserved(j) /\ ItemSubject(j) = ItemSubject(i) => ItemKeys(i) \cap ItemKeys(j) = {}

RowKept(i) ==
  /\ claims[i].state = "CLAIMED"
  /\ claims'[i].state = "CLAIMED"
  /\ claims'[i].token = claims[i].token
  /\ claims[i].head # NoHead => claims'[i].head = claims[i].head
  /\ claims'[i].generation = claims[i].generation

RowEnded(i) ==
  /\ ~Routed(i)
  /\ claims[i].state = "CLAIMED"
  /\ claims'[i].state \in TerminalQueueStates \cup {"FAILED_RETRYABLE", "OUTCOME_UNKNOWN"}
  /\ SameFence(i)

RowRouted(i) ==
  /\ Routed(i)
  /\ claims[i].state = "CLAIMED"
  /\ claims'[i].state = "ROUTED"
  /\ SameFence(i)
  /\ <<i, claims[i].token>> \in DOMAIN routes'

RowDecided(i) ==
  /\ claims[i].state \in {"OUTCOME_UNKNOWN", "ROUTED"}
  /\ claims'[i].state \in TerminalQueueStates
  /\ SameFence(i)
  /\ claims[i].state = "ROUTED" =>
       /\ <<i, claims[i].token>> \in DOMAIN routes
       /\ routes'[<<i, claims[i].token>>].state = claims'[i].state

RowReleased(i) ==
  /\ ItemPolicy(i) # "NEVER" \/ FrontierOf(i) \in Inspection
  /\ claims[i].state \in {"OUTCOME_UNKNOWN", "ROUTED"}
  /\ claims'[i].state = "FAILED_RETRYABLE"
  /\ claims'[i].token = claims[i].token
  /\ claims'[i].head = claims[i].head
  /\ claims'[i].generation = claims[i].generation + 1
  /\ claims[i].state = "ROUTED" =>
       /\ <<i, claims[i].token>> \in DOMAIN routes
       /\ routes'[<<i, claims[i].token>>].state = "RECONCILED_RETRY"

RowMoves(i) ==
  \/ claims'[i] = claims[i]
  \/ RowTaken(i) \/ RowKept(i) \/ RowEnded(i) \/ RowRouted(i) \/ RowDecided(i) \/ RowReleased(i)

(* ... and what it does to an envelope r of the outbox. *)

SameReceipt(r) == routes'[r].receipt = routes[r].receipt /\ routes'[r].by = routes[r].by

RouteDelivered(r) ==
  /\ \/ routes[r].state = "PENDING"
     \/ routes[r].state = "CLAIMED" /\ Safe(r)
  /\ routes'[r].state = "CLAIMED"
  /\ routes'[r].token = routes[r].token + 1
  /\ SameReceipt(r)

RouteStays(r) ==
  /\ routes[r].state = "CLAIMED"
  /\ routes'[r].state \in {"CLAIMED", "OUTCOME_UNKNOWN"}
  /\ routes'[r].token = routes[r].token
  /\ SameReceipt(r)

RouteAnswered(r) ==
  /\ routes[r].state = "CLAIMED"
  /\ routes'[r].state = "RECEIPT_RECORDED"
  /\ routes'[r].token = routes[r].token
  /\ routes'[r].by = routes[r].token
  /\ routes'[r].receipt # NoReceipt

(* A receipt allows the state its route is settled in. *)
Allowed(receipt, state) ==
  \E resolution \in Resolution :
    /\ receipt \in Compatible(resolution)
    /\ state = IF resolution = "RELEASE_RETRY_READ_ONLY" THEN "RECONCILED_RETRY"
               ELSE FinalState(resolution)

RouteSettled(r) ==
  /\ routes[r].state \in OpenRouteStates
  /\ claims[r[1]].state = "ROUTED"
  /\ claims[r[1]].token = r[2]
  /\ claims'[r[1]].token = r[2]
  /\ \/ routes'[r].state \in TerminalQueueStates /\ claims'[r[1]].state = routes'[r].state
     \/ routes'[r].state = "RECONCILED_RETRY"
  /\ claims'[r[1]].state # "ROUTED"
  /\ routes'[r].token = routes[r].token
  /\ SameReceipt(r)
  /\ routes[r].receipt # NoReceipt => Allowed(routes[r].receipt, routes'[r].state)

RouteMoves(r) ==
  \/ routes'[r] = routes[r]
  \/ RouteDelivered(r) \/ RouteStays(r) \/ RouteAnswered(r) \/ RouteSettled(r)

NewEnvelope(r) ==
  /\ r \notin DOMAIN routes
  /\ r = <<r[1], claims[r[1]].token>>
  /\ RowRouted(r[1])
  /\ routes'[r] = NewRoute

RowsTyped ==
  /\ claims \in [Item -> Claim]
  /\ DOMAIN routes \subseteq Item \X (1 .. MaxToken)
  /\ \A r \in DOMAIN routes : routes[r] \in Route

RowFootprint ==
  /\ \A i \in Item : RowMoves(i)
  /\ \A r \in DOMAIN routes : r \in DOMAIN routes' /\ RouteMoves(r)
  /\ \A r \in DOMAIN routes' : r \in DOMAIN routes \/ NewEnvelope(r)
  /\ RowsTyped'

(* Snapshots are only added. *)
SnapshotsStand == \A n \in Committed : n \in Committed' /\ snapshots'[n] = snapshots[n]

(* One row moves. *)
LEMMA OneRow ==
  ASSUME RowsTyped, NEW i \in Item, claims' \in [Item -> Claim],
         \A j \in Item : j # i => claims'[j] = claims[j],
         RowMoves(i), routes' = routes
  PROVE  RowFootprint
  BY DEF RowsTyped, RowFootprint, RowMoves, RouteMoves

(* One envelope moves. *)
LEMMA OneRoute ==
  ASSUME RowsTyped, NEW r \in DOMAIN routes, claims' = claims,
         DOMAIN routes' = DOMAIN routes,
         \A x \in DOMAIN routes : x # r => routes'[x] = routes[x],
         routes'[r] \in Route, RouteMoves(r)
  PROVE  RowFootprint
<1>1. \A i \in Item : RowMoves(i)
  BY DEF RowMoves
<1>2. \A x \in DOMAIN routes : RouteMoves(x)
  BY DEF RouteMoves
<1>3. RowsTyped'
  BY DEF RowsTyped
<1> QED BY <1>1, <1>2, <1>3 DEF RowFootprint

LEMMA NoRow ==
  ASSUME RowsTyped, claims' = claims, routes' = routes
  PROVE  RowFootprint
  BY DEF RowsTyped, RowFootprint, RowMoves, RouteMoves

---------------------------------------------------------------------------
(* Counting: a bound on the fences handed out bounds every one of them. *)

LEMMA BelowBound ==
  ASSUME NEW Z, IsFiniteSet(Z), NEW n \in Nat, Cardinality(Z) < n, NEW x
  PROVE  ~({x} \X (1 .. n) \subseteq Z)
<1>1. IsFiniteSet(1 .. n) /\ Cardinality(1 .. n) = n
  <2>1. n \in Int /\ 1 \in Int
    OBVIOUS
  <2>2. IsFiniteSet(1 .. n) /\ Cardinality(1 .. n) = IF 1 > n THEN 0 ELSE n - 1 + 1
    BY <2>1, FS_Interval
  <2> QED BY <2>2
<1>2. IsFiniteSet({x}) /\ Cardinality({x}) = 1
  BY FS_Singleton
<1>3. Cardinality({x} \X (1 .. n)) = n
  <2>1. Cardinality({x} \X (1 .. n)) = Cardinality({x}) * Cardinality(1 .. n)
    BY <1>1, <1>2, FS_Product
  <2> QED BY <1>1, <1>2, <2>1
<1>4. Cardinality(Z) \in Nat
  BY FS_CardinalityType
<1>5. ASSUME {x} \X (1 .. n) \subseteq Z
      PROVE  Cardinality({x} \X (1 .. n)) <= Cardinality(Z)
  BY <1>5, FS_Subset
<1>6. ASSUME {x} \X (1 .. n) \subseteq Z
      PROVE  FALSE
  <2>1. Cardinality({x} \X (1 .. n)) <= Cardinality(Z)
    BY <1>5, <1>6
  <2> QED BY <1>3, <1>4, <2>1
<1> QED BY <1>6

LEMMA ItemsAreFinite == IsFiniteSet(Item) /\ IsFiniteSet(Item \X (1 .. MaxToken))
<1>1. IsFiniteSet(1 .. MaxSnapshots) /\ IsFiniteSet(1 .. MaxToken)
  <2>1. MaxSnapshots \in Int /\ MaxToken \in Int /\ 1 \in Int
    BY BoundAssumption
  <2> QED BY <2>1, FS_Interval
<1>2. IsFiniteSet((1 .. MaxSnapshots) \X Frontier)
  BY <1>1, ScheduleAssumption, FS_Product
<1>3. IsFiniteSet(Item)
  BY <1>2 DEF Item
<1> QED BY <1>1, <1>3, FS_Product

LEMMA TokenLeft ==
  ASSUME RowsTyped, NEW i \in Item, Cardinality(Issued) < MaxToken
  PROVE  claims[i].token < MaxToken
<1>1. claims[i].token \in Nat /\ MaxToken \in Nat
  BY BoundAssumption DEF RowsTyped, Claim
<1>2. IsFiniteSet(Issued)
  BY ItemsAreFinite, FS_Subset DEF Issued
<1>3. ~({i} \X (1 .. MaxToken) \subseteq Issued)
  BY <1>1, <1>2, BelowBound
<1>4. ASSUME claims[i].token >= MaxToken
      PROVE  {i} \X (1 .. MaxToken) \subseteq Issued
  <2>1. ASSUME NEW z \in {i} \X (1 .. MaxToken)
        PROVE  z \in Issued
    <3>1. z[1] = i /\ z[2] \in 1 .. MaxToken /\ z \in Item \X (1 .. MaxToken)
      OBVIOUS
    <3>2. z[2] <= claims[z[1]].token
      BY <1>1, <1>4, <3>1
    <3> QED BY <3>1, <3>2 DEF Issued
  <2> QED BY <2>1
<1> QED BY <1>1, <1>3, <1>4

LEMMA DeliveryLeft ==
  ASSUME RowsTyped, NEW r \in DOMAIN routes,
         Cardinality({x \in (DOMAIN routes) \X (1 .. MaxDelivery) : x[2] <= routes[x[1]].token})
           < MaxDelivery
  PROVE  routes[r].token < MaxDelivery
<1> DEFINE Z == {x \in (DOMAIN routes) \X (1 .. MaxDelivery) : x[2] <= routes[x[1]].token}
<1>1. routes[r].token \in Nat /\ MaxDelivery \in Nat
  BY BoundAssumption DEF RowsTyped, Route
<1>2. IsFiniteSet(Z)
  <2>1. IsFiniteSet(DOMAIN routes)
    BY ItemsAreFinite, FS_Subset DEF RowsTyped
  <2>2. MaxDelivery \in Int /\ 1 \in Int
    BY <1>1
  <2>3. IsFiniteSet(1 .. MaxDelivery)
    BY <2>2, FS_Interval
  <2>4. IsFiniteSet((DOMAIN routes) \X (1 .. MaxDelivery))
    BY <2>1, <2>3, FS_Product
  <2> QED BY <2>4, FS_Subset
<1>3. ASSUME routes[r].token >= MaxDelivery
      PROVE  {r} \X (1 .. MaxDelivery) \subseteq Z
  <2>1. ASSUME NEW z \in {r} \X (1 .. MaxDelivery)
        PROVE  z \in Z
    <3>1. z[1] = r /\ z[2] \in 1 .. MaxDelivery /\ z \in (DOMAIN routes) \X (1 .. MaxDelivery)
      OBVIOUS
    <3>2. z[2] <= routes[z[1]].token
      BY <1>1, <1>3, <3>1
    <3> QED BY <3>1, <3>2
  <2> QED BY <2>1
<1>4. Cardinality(Z) < MaxDelivery
  OBVIOUS
<1> HIDE DEF Z
<1>5. ~({r} \X (1 .. MaxDelivery) \subseteq Z)
  BY <1>1, <1>2, <1>4, BelowBound
<1> QED BY <1>1, <1>3, <1>5

(* Induction over the subsets of a finite set: a smallest counterexample.  *)
LEMMA MinimalSubset ==
  ASSUME NEW S, IsFiniteSet(S), NEW F \in SUBSET SUBSET S, F # {}
  PROVE  \E T \in F : \A x \in T : T \ {x} \notin F
<1>1. IsWellFoundedOn(StrictSubsetOrdering(S), SUBSET S)
  <2>1. FiniteSubsetsOf(S) = SUBSET S
    BY FS_FiniteSubsetsOfFinite
  <2>2. IsWellFoundedOn(StrictSubsetOrdering(S), FiniteSubsetsOf(S))
    BY FS_StrictSubsetOrderingWellFounded
  <2> QED BY <2>1, <2>2
<1>2. PICK T \in F : \A U \in F : <<U, T>> \notin StrictSubsetOrdering(S)
  BY <1>1, WFMin
<1> QED BY <1>2 DEF StrictSubsetOrdering

(* A non-empty finite set of numbers has a greatest one. *)
LEMMA FiniteMax ==
  ASSUME NEW S \in SUBSET Int, IsFiniteSet(S), S # {}
  PROVE  \E n \in S : \A m \in S : m <= n
<1> DEFINE F == {T \in SUBSET S : T # {} /\ ~\E n \in T : \A m \in T : m <= n}
<1>1. SUFFICES ASSUME F # {} PROVE FALSE
  OBVIOUS
<1>2. PICK T \in F : \A x \in T : T \ {x} \notin F
  BY <1>1, MinimalSubset
<1>3. PICK x \in T : TRUE
  BY <1>2
<1>4. T \ {x} \notin F
  BY <1>2, <1>3
<1>5. CASE T \ {x} = {}
  BY <1>2, <1>3, <1>5
<1>6. CASE \E n \in T \ {x} : \A m \in T \ {x} : m <= n
  BY <1>2, <1>3, <1>6
<1> QED BY <1>2, <1>4, <1>5, <1>6

(* Newest(S) is the newest of the snapshots S, if there are any. *)
LEMMA NewestOf ==
  ASSUME NEW k \in Nat, NEW S \in SUBSET (1 .. k)
  PROVE  /\ Newest(S) \in S \cup {NoSnapshot}
         /\ S # {} => Newest(S) \in S /\ \A m \in S : m <= Newest(S)
         /\ S = {} => Newest(S) = NoSnapshot
<1>1. CASE S = {}
  BY <1>1 DEF Newest
<1>2. CASE S # {}
  <2>1. IsFiniteSet(S)
    <3>1. k \in Int /\ 1 \in Int
      OBVIOUS
    <3>2. IsFiniteSet(1 .. k)
      BY <3>1, FS_Interval
    <3> QED BY <3>2, FS_Subset
  <2>2. \E n \in S : \A m \in S : m <= n
    BY <1>2, <2>1, FiniteMax
  <2> QED BY <1>2, <2>2 DEF Newest
<1> QED BY <1>1, <1>2

---------------------------------------------------------------------------
(* What the operations do *)

LEMMA RowsHaveTypes == ASSUME TypeOK PROVE RowsTyped
  BY DEF TypeOK, RowsTyped

(* The rows a configuration may claim from are rows of its snapshots. *)
LEMMA QueuedRowsAreItems ==
  ASSUME TypeOK, NEW c, NEW i \in QueuedRows(c)
  PROVE  i \in Item /\ SnapshotOf(i) \in Committed
<1>1. PICK n \in Committed : i \in {n} \X snapshots[n].queued
  BY DEF QueuedRows
<1>2. Committed = 1 .. Len(snapshots) /\ Len(snapshots) \in Nat
  BY DEF TypeOK, Committed
<1>3. n \in 1 .. MaxSnapshots
  BY <1>2, BoundAssumption DEF TypeOK
<1>4. snapshots[n] \in Snapshot
  BY <1>2 DEF TypeOK
<1>5. snapshots[n].queued \subseteq Frontier
  BY <1>4 DEF Snapshot
<1> QED BY <1>1, <1>3, <1>5 DEF Item, SnapshotOf

(* claim_next takes a row whose keys no other row on its subject holds. *)
LEMMA ClaimRowTakes ==
  ASSUME TypeOK, NEW c, NEW i \in FirstClaimable(c), ClaimRow(i)
  PROVE  /\ i \in Item /\ claims[i].token < MaxToken /\ RowTaken(i)
         /\ RowFootprint /\ UNCHANGED <<world, cycle, reconciliations>>
<1>1. i \in Claimable(c)
  BY DEF FirstClaimable
<1>2. i \in QueuedRows(c)
  BY <1>1 DEF Claimable, FirstSeen
<1>3. i \in Item /\ SnapshotOf(i) \in Committed
  BY <1>2, QueuedRowsAreItems
<1>4. RowsTyped
  BY RowsHaveTypes
<1>5. claims[i].token < MaxToken
  BY <1>3, <1>4, TokenLeft DEF ClaimRow
<1>6. claims' = Taken(claims, i)
  BY DEF ClaimRow, Taken
<1>7. /\ claims' \in [Item -> Claim]
      /\ \A j \in Item : j # i => claims'[j] = claims[j]
      /\ claims'[i].state = "CLAIMED" /\ claims'[i].token = claims[i].token + 1
      /\ claims'[i].head = claims[i].head /\ claims'[i].generation = claims[i].generation
  <2>1. claims \in [Item -> Claim]
    BY <1>4 DEF RowsTyped
  <2> QED BY <1>3, <1>5, <1>6, <2>1, TakenRow
<1>8. /\ ItemSubject(i) \in CurrentSubjects(c)
      /\ claims[i].state \notin NonclaimableQueueStates
      /\ ItemKeys(i) \cap HeldKeys(i, c) = {}
  BY <1>1 DEF Claimable
<1>9. ASSUME NEW j \in Item, j # i, Reserved(j), ItemSubject(j) = ItemSubject(i)
       PROVE  ItemKeys(i) \cap ItemKeys(j) = {}
  <2>1. ItemKeys(j) \subseteq HeldKeys(i, c)
    BY <1>8, <1>9 DEF HeldKeys
  <2> QED BY <1>8, <2>1
<1>10. RowTaken(i)
  BY <1>3, <1>7, <1>8, <1>9 DEF RowTaken
<1>11. routes' = routes /\ UNCHANGED <<world, cycle, reconciliations>>
  BY DEF ClaimRow
<1> QED BY <1>3, <1>4, <1>5, <1>7, <1>10, <1>11, OneRow DEF RowMoves

LEMMA ClaimNextRow ==
  ASSUME TypeOK, NEW c, ClaimNext(c)
  PROVE  RowFootprint /\ UNCHANGED <<world, cycle, reconciliations>>
  BY ClaimRowTakes DEF ClaimNext

LEMMA BindTargetHeadRow ==
  ASSUME TypeOK, NEW i \in Item, NEW t, NEW h \in 1 .. MaxHead, BindTargetHead(i, t, h)
  PROVE  RowFootprint /\ UNCHANGED <<world, cycle, reconciliations>>
<1>1. RowsTyped
  BY RowsHaveTypes
<1>2. claims \in [Item -> Claim]
  BY <1>1 DEF RowsTyped
<1>3. claims' = Bound(claims, i, h)
  BY DEF BindTargetHead, Bound
<1>4. /\ claims' \in [Item -> Claim]
      /\ \A j \in Item : j # i => claims'[j] = claims[j]
      /\ claims'[i].state = claims[i].state /\ claims'[i].token = claims[i].token
      /\ claims'[i].head = h /\ claims'[i].generation = claims[i].generation
  BY <1>2, <1>3, BoundRow
<1>5. RowKept(i)
  BY <1>4 DEF RowKept, BindTargetHead, Authorizes
<1>6. routes' = routes /\ UNCHANGED <<world, cycle, reconciliations>>
  BY DEF BindTargetHead
<1> QED BY <1>1, <1>4, <1>5, <1>6, OneRow DEF RowMoves

(* What a finalization may leave a row in. *)
FinalizedStates == TerminalQueueStates \cup {"FAILED_RETRYABLE", "OUTCOME_UNKNOWN"}

LEMMA FinalizeRow ==
  ASSUME TypeOK, NEW i \in Item, NEW t, NEW s \in FinalizedStates, ~Routed(i), Finalize(i, t, s)
  PROVE  RowFootprint /\ UNCHANGED <<world, cycle, reconciliations>>
<1>1. RowsTyped
  BY RowsHaveTypes
<1>2. claims \in [Item -> Claim]
  BY <1>1 DEF RowsTyped
<1>3. s \in TerminalQueueStates \cup {"FAILED_RETRYABLE", "OUTCOME_UNKNOWN"}
  BY DEF FinalizedStates
<1>4. s \in QueueState
  BY <1>3 DEF QueueState, ReservedQueueStates
<1>5. claims' = Ended(claims, i, s)
  BY DEF Finalize, Ended
<1>6. /\ claims' \in [Item -> Claim]
      /\ \A j \in Item : j # i => claims'[j] = claims[j]
      /\ claims'[i].state = s /\ claims'[i].token = claims[i].token
      /\ claims'[i].head = claims[i].head /\ claims'[i].generation = claims[i].generation
  BY <1>2, <1>4, <1>5, EndedRow
<1>7. RowEnded(i)
  BY <1>3, <1>6 DEF RowEnded, SameFence, Finalize, Authorizes
<1>8. routes' = routes /\ UNCHANGED <<world, cycle, reconciliations>>
  BY DEF Finalize
<1> QED BY <1>1, <1>6, <1>7, <1>8, OneRow DEF RowMoves

LEMMA LapseClaimRow ==
  ASSUME TypeOK, NEW i \in Item, LapseClaim(i)
  PROVE  RowFootprint /\ UNCHANGED <<world, cycle, reconciliations>>
<1>1. RowsTyped
  BY RowsHaveTypes
<1>2. claims \in [Item -> Claim]
  BY <1>1 DEF RowsTyped
<1>3. claims' = Lapsed(claims, i)
  BY DEF LapseClaim, Lapsed
<1>4. /\ claims' \in [Item -> Claim]
      /\ \A j \in Item : j # i => claims'[j] = claims[j]
      /\ claims'[i].state = claims[i].state /\ claims'[i].token = claims[i].token
      /\ claims'[i].head = claims[i].head /\ claims'[i].generation = claims[i].generation
  BY <1>2, <1>3, LapsedRow
<1>5. RowKept(i)
  BY <1>4 DEF RowKept, LapseClaim
<1>6. routes' = routes /\ UNCHANGED <<world, cycle, reconciliations>>
  BY DEF LapseClaim
<1> QED BY <1>1, <1>4, <1>5, <1>6, OneRow DEF RowMoves

LEMMA LapseDeliveryRoute ==
  ASSUME TypeOK, NEW r \in DOMAIN routes, LapseDelivery(r)
  PROVE  RowFootprint /\ UNCHANGED <<world, cycle, reconciliations>>
<1>1. RowsTyped
  BY RowsHaveTypes
<1>2. routes[r] \in Route
  BY <1>1 DEF RowsTyped
<1>3. routes' = RouteLapsed(routes, r)
  BY DEF LapseDelivery, RouteLapsed
<1>4. /\ DOMAIN routes' = DOMAIN routes
      /\ \A x \in DOMAIN routes : x # r => routes'[x] = routes[x]
      /\ routes'[r] \in Route
      /\ routes'[r].state = routes[r].state /\ routes'[r].token = routes[r].token
      /\ routes'[r].receipt = routes[r].receipt /\ routes'[r].by = routes[r].by
  BY <1>2, <1>3, LapsedRoute
<1>5. RouteStays(r)
  BY <1>4 DEF RouteStays, SameReceipt, LapseDelivery
<1>6. claims' = claims /\ UNCHANGED <<world, cycle, reconciliations>>
  BY DEF LapseDelivery
<1> QED BY <1>1, <1>4, <1>5, <1>6, OneRoute DEF RouteMoves

LEMMA RecordReceiptRoute ==
  ASSUME TypeOK, NEW r \in DOMAIN routes, NEW d \in 0 .. MaxDelivery, NEW class \in ReceiptClass,
         RecordReceipt(r, d, class)
  PROVE  RowFootprint /\ UNCHANGED <<world, cycle, reconciliations>>
<1>1. RowsTyped
  BY RowsHaveTypes
<1>2. routes[r] \in Route
  BY <1>1 DEF RowsTyped
<1>3. routes' = Answered(routes, r, d, class)
  BY DEF RecordReceipt, Answered
<1>4. class \in ReceiptClass /\ class # NoReceipt
  BY DEF ReceiptClass, NoReceipt
<1>5. /\ DOMAIN routes' = DOMAIN routes
      /\ \A x \in DOMAIN routes : x # r => routes'[x] = routes[x]
      /\ routes'[r] \in Route
      /\ routes'[r].state = "RECEIPT_RECORDED" /\ routes'[r].token = routes[r].token
      /\ routes'[r].receipt = class /\ routes'[r].by = d
  BY <1>2, <1>3, <1>4, AnsweredRoute
<1>6. RouteAnswered(r)
  BY <1>4, <1>5 DEF RouteAnswered, RecordReceipt, Accepts
<1>7. claims' = claims /\ UNCHANGED <<world, cycle, reconciliations>>
  BY DEF RecordReceipt
<1> QED BY <1>1, <1>5, <1>6, <1>7, OneRoute DEF RouteMoves

(* route_worker_claim ends the claim and writes an envelope of its own. *)
LEMMA RouteWorkerClaimRow ==
  ASSUME TypeOK, RowInv, NEW i \in Item, NEW t \in 1 .. MaxToken, RouteWorkerClaim(i, t)
  PROVE  RowFootprint /\ UNCHANGED <<world, cycle, reconciliations>>
<1>1. RowsTyped
  BY RowsHaveTypes
<1>2. claims \in [Item -> Claim]
  BY <1>1 DEF RowsTyped
<1>3. "ROUTED" \in QueueState
  BY DEF QueueState, ReservedQueueStates
<1>4. claims' = Ended(claims, i, "ROUTED")
  BY DEF RouteWorkerClaim, Ended
<1>5. /\ claims' \in [Item -> Claim]
      /\ \A j \in Item : j # i => claims'[j] = claims[j]
      /\ claims'[i].state = "ROUTED" /\ claims'[i].token = claims[i].token
      /\ claims'[i].head = claims[i].head /\ claims'[i].generation = claims[i].generation
  BY <1>2, <1>3, <1>4, EndedRow
<1>6. /\ claims[i].state = "CLAIMED" /\ claims[i].token = t /\ Routed(i)
      /\ routes' = [r \in DOMAIN routes \cup {<<i, t>>} |->
                    IF r \in DOMAIN routes THEN routes[r] ELSE NewRoute]
  BY DEF RouteWorkerClaim, Authorizes
<1>7. <<i, t>> \notin DOMAIN routes
  <2>1. ASSUME <<i, t>> \in DOMAIN routes PROVE FALSE
    <3>1. <<i, t>>[1] = i /\ <<i, t>>[2] = t
      OBVIOUS
    <3>2. t < claims[i].token
      BY <1>6, <2>1, <3>1 DEF RowInv, EnvelopesAreIssued
    <3> QED BY <1>6, <3>2
  <2> QED BY <2>1
<1>8. /\ DOMAIN routes' = DOMAIN routes \cup {<<i, t>>}
      /\ \A r \in DOMAIN routes : routes'[r] = routes[r]
      /\ routes'[<<i, t>>] = NewRoute
  BY <1>6, <1>7
<1>9. RowRouted(i)
  BY <1>5, <1>6, <1>8 DEF RowRouted, SameFence
<1>10. \A j \in Item : RowMoves(j)
  BY <1>5, <1>9 DEF RowMoves
<1>11. NewEnvelope(<<i, t>>)
  BY <1>6, <1>7, <1>8, <1>9 DEF NewEnvelope
<1>12. RowsTyped'
  <2>1. <<i, t>> \in Item \X (1 .. MaxToken)
    OBVIOUS
  <2>2. DOMAIN routes' \subseteq Item \X (1 .. MaxToken)
    BY <1>1, <1>8, <2>1 DEF RowsTyped
  <2>3. \A r \in DOMAIN routes' : routes'[r] \in Route
    BY <1>1, <1>8, NewRouteType DEF RowsTyped
  <2> QED BY <1>5, <2>2, <2>3 DEF RowsTyped
<1>13. \A r \in DOMAIN routes : r \in DOMAIN routes' /\ RouteMoves(r)
  BY <1>8 DEF RouteMoves
<1>14. \A r \in DOMAIN routes' : r \in DOMAIN routes \/ NewEnvelope(r)
  BY <1>8, <1>11
<1>15. UNCHANGED <<world, cycle, reconciliations>>
  BY DEF RouteWorkerClaim
<1> QED BY <1>10, <1>12, <1>13, <1>14, <1>15 DEF RowFootprint

LEMMA FinalStates ==
  ASSUME NEW resolution \in Resolution
  PROVE  /\ resolution # "RELEASE_RETRY_READ_ONLY" => FinalState(resolution) \in TerminalQueueStates
         /\ resolution = "RELEASE_RETRY_READ_ONLY" => FinalState(resolution) = "FAILED_RETRYABLE"
  BY DEF Resolution, FinalState, TerminalQueueStates

(* A state a receipt allows is a settled one. *)
LEMMA AllowedIsSettled ==
  ASSUME NEW receipt, NEW state, Allowed(receipt, state)
  PROVE  state \in TerminalQueueStates \cup {"RECONCILED_RETRY"}
<1>1. PICK resolution \in Resolution :
         state = IF resolution = "RELEASE_RETRY_READ_ONLY" THEN "RECONCILED_RETRY"
                 ELSE FinalState(resolution)
  BY DEF Allowed
<1> QED BY <1>1, FinalStates

LEMMA ReceiptsOf ==
  ASSUME ReceiptsDecide, NEW r \in DOMAIN routes, routes[r].receipt # NoReceipt
  PROVE  /\ routes[r].by = routes[r].token
         /\ routes[r].state = "RECEIPT_RECORDED" \/ Allowed(routes[r].receipt, routes[r].state)
  BY DEF ReceiptsDecide, Allowed

LEMMA EnvelopeOf ==
  ASSUME RowsTyped, NEW r \in DOMAIN routes
  PROVE  r[1] \in Item /\ r[2] \in 1 .. MaxToken /\ r = <<r[1], r[2]>> /\ routes[r] \in Route
  BY DEF RowsTyped

(* A row or envelope of a scan. *)
ScanGives(given) ==
  \A r \in given : r \in DOMAIN routes /\ Deliverable(r) /\ routes[r].token < MaxDelivery

LEMMA ScanMovesRow ==
  ASSUME RowsTyped, NEW scanned \in SUBSET DOMAIN routes, NEW given, ScanGives(given),
         Scan(scanned, given), NEW i \in Item
  PROVE  RowMoves(i) /\ claims'[i] \in Claim
<1>1. claims[i] \in Claim
  BY DEF RowsTyped
<1>2. claims'[i] = ScannedClaim(i, scanned)
  BY DEF Scan
<1> DEFINE r == <<i, claims[i].token>>
<1>3. CASE claims[i].state = "ROUTED" /\ r \in scanned /\ Stale(r)
  <2>1. claims'[i] = Superseded(claims[i])
    BY <1>2, <1>3 DEF ScannedClaim, Superseded
  <2>2. /\ claims'[i] \in Claim
        /\ claims'[i].state = "SUPERSEDED" /\ claims'[i].token = claims[i].token
        /\ claims'[i].head = claims[i].head /\ claims'[i].generation = claims[i].generation
    BY <1>1, <2>1, SupersededRow
  <2>3. r \notin given
    BY <1>3 DEF ScanGives, Deliverable
  <2>4. r \in DOMAIN routes /\ routes[r] \in Route
    BY <1>3, EnvelopeOf
  <2>5. routes'[r] = RouteEnded(routes[r], "SUPERSEDED")
    BY <1>3, <2>3, <2>4 DEF Scan, ScannedRoute, RouteEnded, Ambiguous
  <2>6. "SUPERSEDED" \in RouteState /\ "SUPERSEDED" \in TerminalQueueStates
    BY DEF RouteState, TerminalQueueStates
  <2>7. routes'[r].state = "SUPERSEDED"
    BY <2>4, <2>5, <2>6, EndedRoute
  <2>8. RowDecided(i)
    BY <1>3, <2>2, <2>4, <2>6, <2>7 DEF RowDecided, SameFence
  <2> QED BY <2>2, <2>8 DEF RowMoves
<1>4. CASE ~(claims[i].state = "ROUTED" /\ r \in scanned /\ Stale(r))
  <2>1. claims'[i] = claims[i]
    BY <1>2, <1>4 DEF ScannedClaim
  <2> QED BY <1>1, <2>1 DEF RowMoves
<1> QED BY <1>3, <1>4

LEMMA ScanMovesRoute ==
  ASSUME RowsTyped, RowInv,
         NEW scanned \in SUBSET RoutesInState({"PENDING", "CLAIMED"}), NEW given,
         ScanGives(given), Scan(scanned, given), NEW r \in DOMAIN routes
  PROVE  RouteMoves(r) /\ routes'[r] \in Route
<1>1. /\ r[1] \in Item /\ r = <<r[1], r[2]>> /\ routes[r] \in Route
  BY EnvelopeOf
<1>2. routes'[r] = IF r \in given THEN Delivered(routes[r]) ELSE ScannedRoute(r, scanned)
  BY DEF Scan, Delivered
<1>3. CASE r \in given
  <2>1. routes'[r] = Delivered(routes[r]) /\ routes[r].token < MaxDelivery /\ Deliverable(r)
    BY <1>2, <1>3 DEF ScanGives
  <2>2. /\ routes'[r] \in Route
        /\ routes'[r].state = "CLAIMED" /\ routes'[r].token = routes[r].token + 1
        /\ routes'[r].receipt = routes[r].receipt /\ routes'[r].by = routes[r].by
    BY <1>1, <2>1, DeliveredRoute
  <2>3. RouteDelivered(r)
    BY <2>1, <2>2 DEF RouteDelivered, Deliverable, LapsedDelivery, SameReceipt
  <2> QED BY <2>2, <2>3 DEF RouteMoves
<1>4. CASE r \notin given /\ r \in scanned /\ Stale(r)
  <2>1. routes'[r] = RouteEnded(routes[r], "SUPERSEDED")
    BY <1>2, <1>4 DEF ScannedRoute, RouteEnded, Ambiguous
  <2>2. "SUPERSEDED" \in RouteState /\ "SUPERSEDED" \in TerminalQueueStates
    BY DEF RouteState, TerminalQueueStates
  <2>3. /\ routes'[r] \in Route
        /\ routes'[r].state = "SUPERSEDED" /\ routes'[r].token = routes[r].token
        /\ routes'[r].receipt = routes[r].receipt /\ routes'[r].by = routes[r].by
    BY <1>1, <2>1, <2>2, EndedRoute
  <2>4. routes[r].state \in {"PENDING", "CLAIMED"}
    BY <1>4 DEF RoutesInState
  <2>5. r \in RoutesInState(OpenRouteStates)
    BY <2>4 DEF RoutesInState, OpenRouteStates
  <2>6. claims[r[1]].state = "ROUTED" /\ claims[r[1]].token = r[2]
    BY <2>5 DEF RowInv, OutboxMirrorsQueue
  <2>7. ScannedClaim(r[1], scanned) = Superseded(claims[r[1]])
    BY <1>1, <1>4, <2>6 DEF ScannedClaim, Superseded
  <2>8. claims'[r[1]] = Superseded(claims[r[1]])
    BY <1>1, <2>7 DEF Scan
  <2>9. claims[r[1]] \in Claim
    BY <1>1 DEF RowsTyped
  <2>10. claims'[r[1]].state = "SUPERSEDED" /\ claims'[r[1]].token = r[2]
    BY <2>6, <2>8, <2>9, SupersededRow
  <2>11. routes[r].receipt = NoReceipt
    BY <2>4, ReceiptsOf, AllowedIsSettled DEF RowInv, TerminalQueueStates
  <2>12. routes[r].state \in OpenRouteStates
    BY <2>4 DEF OpenRouteStates
  <2>13. RouteSettled(r)
    BY <2>2, <2>3, <2>6, <2>10, <2>11, <2>12 DEF RouteSettled, SameReceipt
  <2> QED BY <2>3, <2>13 DEF RouteMoves
<1>5. CASE r \notin given /\ r \in scanned /\ Ambiguous(r)
  <2>1. routes'[r] = RouteEnded(routes[r], "OUTCOME_UNKNOWN")
    BY <1>2, <1>5 DEF ScannedRoute, RouteEnded, Ambiguous
  <2>2. "OUTCOME_UNKNOWN" \in RouteState
    BY DEF RouteState, OpenRouteStates
  <2>3. /\ routes'[r] \in Route
        /\ routes'[r].state = "OUTCOME_UNKNOWN" /\ routes'[r].token = routes[r].token
        /\ routes'[r].receipt = routes[r].receipt /\ routes'[r].by = routes[r].by
    BY <1>1, <2>1, <2>2, EndedRoute
  <2>4. RouteStays(r)
    BY <1>5, <2>3 DEF RouteStays, SameReceipt, Ambiguous, LapsedDelivery
  <2> QED BY <2>3, <2>4 DEF RouteMoves
<1>6. CASE r \notin given /\ ~(r \in scanned /\ Stale(r)) /\ ~(r \in scanned /\ Ambiguous(r))
  <2>1. routes'[r] = routes[r]
    BY <1>2, <1>6 DEF ScannedRoute
  <2> QED BY <1>1, <2>1 DEF RouteMoves
<1> QED BY <1>3, <1>4, <1>5, <1>6

LEMMA ScanRows ==
  ASSUME TypeOK, RowInv,
         NEW scanned \in SUBSET RoutesInState({"PENDING", "CLAIMED"}), NEW given,
         ScanGives(given), Scan(scanned, given)
  PROVE  RowFootprint /\ UNCHANGED <<world, cycle, reconciliations>>
<1>1. RowsTyped
  BY RowsHaveTypes
<1>2. scanned \in SUBSET DOMAIN routes
  BY DEF RoutesInState
<1>3. DOMAIN routes' = DOMAIN routes
  BY DEF Scan
<1>4. \A i \in Item : RowMoves(i) /\ claims'[i] \in Claim
  BY <1>1, <1>2, ScanMovesRow
<1>5. \A r \in DOMAIN routes : RouteMoves(r) /\ routes'[r] \in Route
  BY <1>1, ScanMovesRoute
<1>6. claims' \in [Item -> Claim]
  <2>1. claims' = [i \in Item |-> ScannedClaim(i, scanned)]
    BY DEF Scan
  <2> QED BY <1>4, <2>1
<1>7. RowsTyped'
  BY <1>1, <1>3, <1>5, <1>6 DEF RowsTyped
<1>8. UNCHANGED <<world, cycle, reconciliations>>
  BY DEF Scan
<1> QED BY <1>3, <1>4, <1>5, <1>7, <1>8 DEF RowFootprint

(* Both ways a worker asks for work. *)
LEMMA DeliverRouteRows ==
  ASSUME TypeOK, RowInv, NEW offered \in SUBSET RoutesInState({"PENDING", "CLAIMED"}),
         NEW r, NEW before, DeliverRoute(offered, r, before)
  PROVE  RowFootprint /\ UNCHANGED <<world, cycle, reconciliations>>
<1>1. r \in DOMAIN routes
  BY DEF DeliverRoute, RoutesInState
<1>2. routes[r].token < MaxDelivery
  BY <1>1, RowsHaveTypes, DeliveryLeft DEF DeliverRoute
<1>3. ScanGives({r})
  BY <1>1, <1>2 DEF ScanGives, DeliverRoute
<1>4. before \in SUBSET RoutesInState({"PENDING", "CLAIMED"})
  BY DEF DeliverRoute
<1>5. Scan(before, {r})
  BY DEF DeliverRoute
<1> QED BY <1>3, <1>4, <1>5, ScanRows

LEMMA DeliverNothingRows ==
  ASSUME TypeOK, RowInv, NEW offered \in SUBSET RoutesInState({"PENDING", "CLAIMED"}),
         DeliverNothing(offered)
  PROVE  RowFootprint /\ UNCHANGED <<world, cycle, reconciliations>>
<1>1. ScanGives({}) /\ Scan(offered, {})
  BY DEF ScanGives, DeliverNothing
<1> QED BY <1>1, ScanRows

(* A reconciliation settles the row, and the envelope of a routed one. *)
LEMMA ReconcileRows ==
  ASSUME TypeOK, RowInv, NEW i \in Item, NEW t \in 1 .. MaxToken, NEW resolution \in Resolution,
         NEW retryAllowed \in RetryReadings(i, t), Reconcile(i, t, resolution, retryAllowed)
  PROVE  /\ RowFootprint /\ UNCHANGED <<world, cycle>>
         /\ reconciliations' \subseteq [item : Item, token : 1 .. MaxToken, resolution : Resolution]
<1>1. RowsTyped
  BY RowsHaveTypes
<1>2. claims \in [Item -> Claim]
  BY <1>1 DEF RowsTyped
<1>3. PICK retry \in BOOLEAN : retry <=> resolution = "RELEASE_RETRY_READ_ONLY"
  OBVIOUS
<1>4. /\ claims[i].state \in {"OUTCOME_UNKNOWN", "ROUTED"}
      /\ claims[i].token = t
      /\ retry => ItemPolicy(i) # "NEVER" \/ FrontierOf(i) \in Inspection
      /\ claims[i].state = "ROUTED" => RouteSettles(i, t, resolution)
  BY <1>3 DEF Reconcile, RetryReadings, RetryAllowed
<1>5. claims' = Settled(claims, i, FinalState(resolution), retry)
  <2>1. CASE retry
    <3>1. resolution = "RELEASE_RETRY_READ_ONLY"
      BY <1>3, <2>1
    <3>2. claims' = [claims EXCEPT ![i].state = FinalState(resolution), ![i].live = FALSE,
                                   ![i].generation = @ + 1]
      BY <3>1 DEF Reconcile
    <3>3. Settled(claims, i, FinalState(resolution), retry)
            = [claims EXCEPT ![i].state = FinalState(resolution), ![i].live = FALSE,
                             ![i].generation = @ + 1]
      BY <2>1 DEF Settled
    <3> QED BY <3>2, <3>3
  <2>2. CASE ~retry
    <3>1. resolution # "RELEASE_RETRY_READ_ONLY"
      BY <1>3, <2>2
    <3>2. claims' = [claims EXCEPT ![i].state = FinalState(resolution), ![i].live = FALSE,
                                   ![i].generation = @]
      BY <3>1 DEF Reconcile
    <3>3. Settled(claims, i, FinalState(resolution), retry)
            = [claims EXCEPT ![i].state = FinalState(resolution), ![i].live = FALSE,
                             ![i].generation = @]
      BY <2>2 DEF Settled
    <3> QED BY <3>2, <3>3
  <2> QED BY <2>1, <2>2
<1>6. FinalState(resolution) \in QueueState
  BY FinalStates DEF QueueState
<1>7. claims[i].generation <= MaxToken
  <2>1. Reserved(i)
    BY <1>4 DEF Reserved, ReservedQueueStates
  <2>2. claims[i].generation <= claims[i].token
    BY <2>1 DEF RowInv, AttemptsAreClaimed
  <2>3. claims[i] \in Claim
    BY <1>2
  <2> QED BY <2>2, <2>3, BoundAssumption DEF Claim
<1>8. /\ claims' \in [Item -> Claim]
      /\ \A j \in Item : j # i => claims'[j] = claims[j]
      /\ claims'[i].state = FinalState(resolution) /\ claims'[i].token = claims[i].token
      /\ claims'[i].head = claims[i].head
      /\ claims'[i].generation = IF retry THEN claims[i].generation + 1 ELSE claims[i].generation
  BY <1>2, <1>5, <1>6, <1>7, SettledRow
<1> DEFINE r == <<i, t>>
           settled == IF retry THEN "RECONCILED_RETRY" ELSE FinalState(resolution)
<1>9. ASSUME claims[i].state = "OUTCOME_UNKNOWN"
      PROVE  RowFootprint
  <2>1. routes' = routes
    BY <1>9 DEF Reconcile
  <2>2. RowDecided(i) \/ RowReleased(i)
    BY <1>3, <1>4, <1>8, <1>9, FinalStates DEF RowDecided, RowReleased, SameFence
  <2>3. RowFootprint
    BY <1>1, <1>8, <2>1, <2>2, OneRow DEF RowMoves
  <2> QED BY <2>3
<1>10. ASSUME claims[i].state = "ROUTED"
       PROVE  RowFootprint
  <2>1. r \in DOMAIN routes /\ routes[r] \in Route
    BY <1>1, <1>4, <1>10, EnvelopeOf DEF RouteSettles
  <2>2. routes' = RouteSet(routes, r, settled)
    <3>1. routes' = [routes EXCEPT ![r].state = IF retry THEN "RECONCILED_RETRY"
                                               ELSE FinalState(resolution)]
      BY <1>3, <1>10 DEF Reconcile
    <3> QED BY <3>1 DEF RouteSet
  <2>3. settled \in RouteState
    BY <1>3, FinalStates DEF RouteState
  <2>4. /\ DOMAIN routes' = DOMAIN routes
        /\ \A x \in DOMAIN routes : x # r => routes'[x] = routes[x]
        /\ routes'[r] \in Route
        /\ routes'[r].state = settled /\ routes'[r].token = routes[r].token
        /\ routes'[r].receipt = routes[r].receipt /\ routes'[r].by = routes[r].by
    <3> HIDE DEF settled
    <3> QED BY <2>1, <2>2, <2>3, SettledRoute
  <2>5. RowDecided(i) \/ RowReleased(i)
    BY <1>3, <1>4, <1>8, <1>10, <2>1, <2>4, FinalStates DEF RowDecided, RowReleased, SameFence
  <2>6. r[1] = i /\ r[2] = t
    OBVIOUS
  <2>7. routes[r].receipt # NoReceipt => Allowed(routes[r].receipt, settled)
    <3>1. CASE routes[r].state = "RECEIPT_RECORDED"
      <4>1. routes[r].receipt \in Compatible(resolution)
        BY <1>4, <1>10, <3>1 DEF RouteSettles
      <4> QED BY <1>3, <4>1 DEF Allowed
    <3>2. CASE routes[r].state = "OUTCOME_UNKNOWN"
      BY <2>1, <3>2, ReceiptsOf, AllowedIsSettled DEF RowInv, TerminalQueueStates
    <3> QED BY <1>4, <1>10, <3>1, <3>2 DEF RouteSettles
  <2>8. routes[r].state \in OpenRouteStates
    BY <1>4, <1>10 DEF RouteSettles, OpenRouteStates
  <2>9. claims'[i].state # "ROUTED"
    BY <1>3, <1>8, FinalStates DEF TerminalQueueStates
  <2>10. \/ settled \in TerminalQueueStates /\ claims'[i].state = settled
         \/ settled = "RECONCILED_RETRY"
    BY <1>3, <1>8, FinalStates
  <2>11. RouteSettled(r)
    BY <1>4, <1>8, <1>10, <2>4, <2>6, <2>7, <2>8, <2>9, <2>10 DEF RouteSettled, SameReceipt
  <2>12. \A j \in Item : RowMoves(j)
    BY <1>8, <2>5 DEF RowMoves
  <2>13. \A x \in DOMAIN routes : x \in DOMAIN routes' /\ RouteMoves(x)
    BY <2>4, <2>11 DEF RouteMoves
  <2>14. RowsTyped'
    BY <1>1, <1>8, <2>4 DEF RowsTyped
  <2> QED BY <2>4, <2>12, <2>13, <2>14 DEF RowFootprint
<1>11. UNCHANGED <<world, cycle>>
  BY DEF Reconcile
<1>12. reconciliations' \subseteq [item : Item, token : 1 .. MaxToken, resolution : Resolution]
  BY DEF Reconcile, TypeOK
<1>13. RowFootprint
  BY <1>4, <1>9, <1>10
<1> QED BY <1>11, <1>12, <1>13

---------------------------------------------------------------------------
(* The footprints keep the invariant *)

LEMMA TerminalIsFinal ==
  /\ TerminalQueueStates \cap ({"NONE", "FAILED_RETRYABLE"} \cup ReservedQueueStates) = {}
  /\ TerminalQueueStates \cap OpenRouteStates = {}
  /\ "RECONCILED_RETRY" \notin OpenRouteStates \cup TerminalQueueStates
  /\ TerminalQueueStates \subseteq NonclaimableQueueStates
  /\ ReservedQueueStates = {"CLAIMED", "OUTCOME_UNKNOWN", "ROUTED"}
  /\ NonclaimableQueueStates = TerminalQueueStates \cup {"OUTCOME_UNKNOWN", "ROUTED"}
  BY DEF TerminalQueueStates, ReservedQueueStates, OpenRouteStates, NonclaimableQueueStates

(* What scheduled a claimed row is not rewritten. *)
LEMMA PolicyStands ==
  ASSUME SnapshotsStand, NEW i \in Item, SnapshotOf(i) \in Committed
  PROVE  /\ SnapshotOf(i) \in Committed'
         /\ ItemPolicy(i)' = ItemPolicy(i)
         /\ Routed(i)' <=> Routed(i)
<1>1. SnapshotOf(i) \in Committed' /\ snapshots'[SnapshotOf(i)] = snapshots[SnapshotOf(i)]
  BY DEF SnapshotsStand
<1> QED BY <1>1 DEF ItemPolicy, ConfigOf, Routed, SnapshotOf, FrontierOf

LEMMA ClaimsAreTyped ==
  ASSUME RowsTyped, NEW i \in Item
  PROVE  /\ claims[i] \in Claim
         /\ claims[i].token \in Nat /\ claims[i].generation \in Nat
  BY BoundAssumption DEF RowsTyped, Claim

(* Envelopes of committed rows are those of claimed ones. *)
LEMMA EnvelopeRow ==
  ASSUME RowsTyped, RowsAreCommitted, SnapshotsStand, NEW r \in DOMAIN routes
  PROVE  /\ r[1] \in Item /\ r = <<r[1], r[2]>> /\ routes[r] \in Route
         /\ claims[r[1]].state # "NONE" /\ Routed(r[1])
         /\ ItemPolicy(r[1])' = ItemPolicy(r[1])
         /\ Safe(r)' <=> Safe(r)
<1>1. r[1] \in Item /\ r = <<r[1], r[2]>> /\ routes[r] \in Route
  BY EnvelopeOf
<1>2. claims[r[1]].state # "NONE" /\ Routed(r[1]) /\ SnapshotOf(r[1]) \in Committed
  BY <1>1 DEF RowsAreCommitted
<1>3. ItemPolicy(r[1])' = ItemPolicy(r[1])
  BY <1>1, <1>2, PolicyStands
<1> QED BY <1>1, <1>2, <1>3 DEF Safe

LEMMA RowsStayCommitted ==
  ASSUME RowsTyped, RowsAreCommitted, RowFootprint, SnapshotsStand
  PROVE  RowsAreCommitted'
<1>1. ASSUME NEW i \in Item, claims'[i].state # "NONE"
      PROVE  SnapshotOf(i) \in Committed'
  <2>1. claims[i].state # "NONE" \/ RowTaken(i)
    BY <1>1 DEF RowFootprint, RowMoves, RowKept, RowEnded, RowRouted, RowDecided, RowReleased
  <2>2. SnapshotOf(i) \in Committed
    BY <2>1 DEF RowsAreCommitted, RowTaken
  <2> QED BY <2>2, PolicyStands
<1>2. ASSUME NEW i \in Item, claims[i].state # "NONE"
      PROVE  claims'[i].state # "NONE" /\ (Routed(i) => Routed(i)')
  <2>1. claims'[i].state # "NONE"
    BY <1>2, TerminalIsFinal
       DEF RowFootprint, RowMoves, RowTaken, RowKept, RowEnded, RowRouted, RowDecided, RowReleased
  <2> QED BY <1>2, <2>1, PolicyStands DEF RowsAreCommitted
<1>3. ASSUME NEW r \in DOMAIN routes'
      PROVE  claims'[r[1]].state # "NONE" /\ Routed(r[1])'
  <2>1. CASE r \in DOMAIN routes
    BY <1>2, <2>1, EnvelopeRow
  <2>2. CASE NewEnvelope(r)
    <3>1. r[1] \in Item
      BY <1>3 DEF RowFootprint, RowsTyped
    <3>2. claims[r[1]].state # "NONE" /\ Routed(r[1])
      BY <2>2 DEF NewEnvelope, RowRouted
    <3> QED BY <1>2, <3>1, <3>2
  <2> QED BY <1>3, <2>1, <2>2 DEF RowFootprint
<1> QED BY <1>1, <1>3 DEF RowsAreCommitted

LEMMA EnvelopesStayIssued ==
  ASSUME RowsTyped, EnvelopesAreIssued, RowFootprint
  PROVE  EnvelopesAreIssued'
<1> SUFFICES ASSUME NEW r \in DOMAIN routes'
             PROVE  /\ r[2] <= claims'[r[1]].token
                    /\ claims'[r[1]].state = "CLAIMED" => r[2] < claims'[r[1]].token
  BY DEF EnvelopesAreIssued
<1>1. CASE r \in DOMAIN routes
  <2>1. r[1] \in Item /\ r[2] \in Nat
    BY <1>1, EnvelopeOf
  <2>2. claims[r[1]].token \in Nat
    BY <2>1, ClaimsAreTyped
  <2>3. /\ r[2] <= claims[r[1]].token
        /\ claims[r[1]].state = "CLAIMED" => r[2] < claims[r[1]].token
    BY <1>1 DEF EnvelopesAreIssued
  <2>4. RowMoves(r[1])
    BY <2>1 DEF RowFootprint
  <2>5. CASE RowTaken(r[1])
    BY <2>1, <2>2, <2>3, <2>5 DEF RowTaken
  <2>6. CASE ~RowTaken(r[1])
    <3>1. claims'[r[1]].token = claims[r[1]].token
      BY <2>4, <2>6 DEF RowMoves, SameFence, RowKept, RowEnded, RowRouted, RowDecided, RowReleased
    <3>2. claims'[r[1]].state = "CLAIMED" => claims[r[1]].state = "CLAIMED"
      BY <2>4, <2>6, TerminalIsFinal DEF RowMoves, RowKept, RowEnded, RowRouted, RowDecided, RowReleased
    <3> QED BY <2>3, <3>1, <3>2
  <2> QED BY <2>5, <2>6
<1>2. CASE NewEnvelope(r)
  <2>1. r[1] \in Item
    BY DEF RowFootprint, RowsTyped
  <2>2. r[2] = claims[r[1]].token
    BY <1>2 DEF NewEnvelope
  <2>3. claims[r[1]].token \in Nat
    BY <2>1, ClaimsAreTyped
  <2>4. claims'[r[1]].token = claims[r[1]].token /\ claims'[r[1]].state = "ROUTED"
    BY <1>2 DEF NewEnvelope, RowRouted, SameFence
  <2> QED BY <2>2, <2>3, <2>4
<1> QED BY <1>1, <1>2 DEF RowFootprint

LEMMA AttemptsStayClaimed ==
  ASSUME RowsTyped, AttemptsAreClaimed, RowFootprint
  PROVE  AttemptsAreClaimed'
<1> SUFFICES ASSUME NEW i \in Item
             PROVE  /\ claims'[i].generation <= claims'[i].token + 1
                    /\ Reserved(i)' => claims'[i].generation <= claims'[i].token
  BY DEF AttemptsAreClaimed
<1>1. claims[i].token \in Nat /\ claims[i].generation \in Nat
  BY ClaimsAreTyped
<1>2. /\ claims[i].generation <= claims[i].token + 1
      /\ Reserved(i) => claims[i].generation <= claims[i].token
  BY DEF AttemptsAreClaimed
<1>3. RowMoves(i)
  BY DEF RowFootprint
<1>4. CASE RowTaken(i)
  BY <1>1, <1>2, <1>4 DEF RowTaken
<1>5. CASE RowReleased(i)
  <2>1. Reserved(i)
    BY <1>5 DEF RowReleased, Reserved, ReservedQueueStates
  <2>2. ~Reserved(i)'
    BY <1>5 DEF RowReleased, Reserved, ReservedQueueStates
  <2> QED BY <1>1, <1>2, <1>5, <2>1, <2>2 DEF RowReleased
<1>6. CASE ~RowTaken(i) /\ ~RowReleased(i)
  <2>1. claims'[i].token = claims[i].token /\ claims'[i].generation = claims[i].generation
    BY <1>3, <1>6 DEF RowMoves, SameFence, RowKept, RowEnded, RowRouted, RowDecided
  <2>2. Reserved(i)' => Reserved(i)
    BY <1>3, <1>6, TerminalIsFinal
       DEF RowMoves, RowKept, RowEnded, RowRouted, RowDecided, Reserved
  <2> QED BY <1>2, <2>1, <2>2
<1> QED BY <1>4, <1>5, <1>6

LEMMA SubjectsStayExclusive ==
  ASSUME SameSubjectIsExclusive, RowFootprint
  PROVE  SameSubjectIsExclusive'
<1> SUFFICES ASSUME NEW i \in Item, NEW j \in Item, Reserved(i)', Reserved(j)',
                    i # j, ItemSubject(i) = ItemSubject(j)
             PROVE  ItemKeys(i) \cap ItemKeys(j) = {}
  BY DEF SameSubjectIsExclusive, ItemSubject, ItemKeys
<1>1. ASSUME NEW k \in Item, Reserved(k)', ~RowTaken(k) PROVE Reserved(k)
  <2>1. RowMoves(k)
    BY DEF RowFootprint
  <2> QED BY <1>1, <2>1, TerminalIsFinal
          DEF RowMoves, RowKept, RowEnded, RowRouted, RowDecided, RowReleased, Reserved
<1>2. ASSUME NEW k \in Item, NEW l \in Item, Reserved(l)', k # l,
             ItemSubject(k) = ItemSubject(l), RowTaken(k)
      PROVE  ItemKeys(k) \cap ItemKeys(l) = {}
  <2>1. claims'[l] = claims[l]
    BY <1>2 DEF RowTaken
  <2>2. Reserved(l)
    BY <1>2, <2>1 DEF Reserved
  <2> QED BY <1>2, <2>2 DEF RowTaken
<1>3. CASE RowTaken(i)
  BY <1>2, <1>3
<1>4. CASE RowTaken(j)
  BY <1>2, <1>4
<1>5. CASE ~RowTaken(i) /\ ~RowTaken(j)
  <2>1. Reserved(i) /\ Reserved(j)
    BY <1>1, <1>5
  <2> QED BY <2>1 DEF SameSubjectIsExclusive
<1> QED BY <1>3, <1>4, <1>5

LEMMA OutboxStillMirrors ==
  ASSUME RowsTyped, EnvelopesAreIssued, OutboxMirrorsQueue, RowFootprint
  PROVE  OutboxMirrorsQueue'
<1>1. ASSUME NEW i \in Item, claims'[i].state = "ROUTED"
      PROVE  /\ <<i, claims'[i].token>> \in DOMAIN routes'
             /\ routes'[<<i, claims'[i].token>>].state \in OpenRouteStates
  <2> DEFINE r == <<i, claims[i].token>>
  <2>1. r[1] = i /\ r[2] = claims[i].token
    OBVIOUS
  <2>2. RowMoves(i)
    BY DEF RowFootprint
  <2>3. CASE RowRouted(i)
    <3>1. r \in DOMAIN routes' /\ claims'[i].token = claims[i].token /\ claims[i].state = "CLAIMED"
      BY <2>3 DEF RowRouted, SameFence
    <3>2. r \notin DOMAIN routes
      <4>1. claims[i].token \in Nat
        BY ClaimsAreTyped
      <4>2. ASSUME r \in DOMAIN routes PROVE claims[i].token < claims[i].token
        BY <2>1, <3>1, <4>2 DEF EnvelopesAreIssued
      <4> QED BY <4>1, <4>2
    <3>3. NewEnvelope(r)
      BY <3>1, <3>2 DEF RowFootprint
    <3>4. routes'[r].state = "PENDING"
      BY <3>3, NewRouteType DEF NewEnvelope
    <3> QED BY <3>1, <3>4 DEF OpenRouteStates
  <2>4. CASE ~RowRouted(i)
    <3>1. claims'[i] = claims[i]
      BY <1>1, <2>2, <2>4, TerminalIsFinal
         DEF RowMoves, RowTaken, RowKept, RowEnded, RowDecided, RowReleased
    <3>2. r \in DOMAIN routes /\ routes[r].state \in OpenRouteStates
      BY <1>1, <3>1 DEF OutboxMirrorsQueue, RoutesInState
    <3>3. r \in DOMAIN routes' /\ RouteMoves(r)
      BY <3>2 DEF RowFootprint
    <3>4. ~RouteSettled(r)
      BY <1>1, <2>1 DEF RouteSettled
    <3>5. routes'[r].state \in OpenRouteStates
      BY <3>2, <3>3, <3>4 DEF RouteMoves, RouteDelivered, RouteStays, RouteAnswered, OpenRouteStates
    <3> QED BY <3>1, <3>3, <3>5
  <2> QED BY <2>3, <2>4
<1>2. ASSUME NEW r \in DOMAIN routes', routes'[r].state \in OpenRouteStates
      PROVE  claims'[r[1]].state = "ROUTED" /\ claims'[r[1]].token = r[2]
  <2>1. CASE r \in DOMAIN routes
    <3>1. r[1] \in Item /\ r = <<r[1], r[2]>>
      BY <2>1, EnvelopeOf
    <3>2. RouteMoves(r)
      BY <2>1 DEF RowFootprint
    <3>3. routes[r].state \in OpenRouteStates
      BY <1>2, <3>2, TerminalIsFinal
         DEF RouteMoves, RouteDelivered, RouteStays, RouteAnswered, RouteSettled, OpenRouteStates
    <3>4. claims[r[1]].state = "ROUTED" /\ claims[r[1]].token = r[2]
      BY <2>1, <3>3 DEF OutboxMirrorsQueue, RoutesInState
    <3>5. RowMoves(r[1])
      BY <3>1 DEF RowFootprint
    <3>6. ~RowDecided(r[1]) /\ ~RowReleased(r[1])
      BY <1>2, <3>1, <3>4, TerminalIsFinal DEF RowDecided, RowReleased
    <3>7. claims'[r[1]] = claims[r[1]]
      BY <3>4, <3>5, <3>6, TerminalIsFinal
         DEF RowMoves, RowTaken, RowKept, RowEnded, RowRouted
    <3> QED BY <3>4, <3>7
  <2>2. CASE NewEnvelope(r)
    <3>1. r[2] = claims[r[1]].token
      BY <2>2 DEF NewEnvelope
    <3> QED BY <2>2, <3>1 DEF NewEnvelope, RowRouted, SameFence
  <2> QED BY <1>2, <2>1, <2>2 DEF RowFootprint
<1>3. ASSUME NEW r \in DOMAIN routes', routes'[r].state \in TerminalQueueStates
      PROVE  claims'[r[1]].state = routes'[r].state /\ claims'[r[1]].token = r[2]
  <2>1. r \in DOMAIN routes
    <3>1. ~NewEnvelope(r)
      BY <1>3, NewRouteType DEF NewEnvelope, TerminalQueueStates
    <3> QED BY <1>3, <3>1 DEF RowFootprint
  <2>2. r[1] \in Item /\ RouteMoves(r) /\ RowMoves(r[1])
    BY <2>1, EnvelopeOf DEF RowFootprint
  <2>3. CASE RouteSettled(r)
    BY <1>3, <2>3, TerminalIsFinal DEF RouteSettled
  <2>4. CASE ~RouteSettled(r)
    <3>1. routes'[r] = routes[r]
      BY <1>3, <2>2, <2>4
         DEF RouteMoves, RouteDelivered, RouteStays, RouteAnswered, TerminalQueueStates
    <3>2. claims[r[1]].state = routes[r].state /\ claims[r[1]].token = r[2]
      BY <1>3, <2>1, <3>1 DEF OutboxMirrorsQueue, RoutesInState
    <3>3. claims'[r[1]] = claims[r[1]]
      BY <1>3, <2>2, <3>1, <3>2, TerminalIsFinal
         DEF RowMoves, RowTaken, RowKept, RowEnded, RowRouted, RowDecided, RowReleased
    <3> QED BY <3>1, <3>2, <3>3
  <2> QED BY <2>3, <2>4
<1> QED BY <1>1, <1>2, <1>3 DEF OutboxMirrorsQueue, RoutesInState

LEMMA UnsafeStaysDeliveredOnce ==
  ASSUME RowsTyped, RowsAreCommitted, UnsafeIsDeliveredOnce, RowFootprint, SnapshotsStand
  PROVE  UnsafeIsDeliveredOnce'
<1> SUFFICES ASSUME NEW r \in DOMAIN routes'
             PROVE  /\ routes'[r].state = "PENDING" => routes'[r].token = 0
                    /\ ~Safe(r)' => routes'[r].token <= 1
  BY DEF UnsafeIsDeliveredOnce
<1>1. CASE r \in DOMAIN routes
  <2>1. RouteMoves(r)
    BY <1>1 DEF RowFootprint
  <2>2. Safe(r)' <=> Safe(r)
    BY <1>1, EnvelopeRow
  <2>3. /\ routes[r].state = "PENDING" => routes[r].token = 0
        /\ ~Safe(r) => routes[r].token <= 1
    BY <1>1 DEF UnsafeIsDeliveredOnce
  <2>4. CASE RouteDelivered(r)
    BY <2>2, <2>3, <2>4 DEF RouteDelivered
  <2>5. CASE ~RouteDelivered(r)
    <3>1. routes'[r].token = routes[r].token
      BY <2>1, <2>5 DEF RouteMoves, RouteStays, RouteAnswered, RouteSettled
    <3>2. routes'[r].state = "PENDING" => routes[r].state = "PENDING"
      BY <2>1, <2>5 DEF RouteMoves, RouteStays, RouteAnswered, RouteSettled, TerminalQueueStates
    <3> QED BY <2>2, <2>3, <3>1, <3>2
  <2> QED BY <2>4, <2>5
<1>2. CASE NewEnvelope(r)
  <2>1. routes'[r].token = 0
    BY <1>2, NewRouteType DEF NewEnvelope
  <2> QED BY <2>1
<1> QED BY <1>1, <1>2 DEF RowFootprint

LEMMA NeverStaysRoutedOnce ==
  ASSUME RowsTyped, RowsAreCommitted, NeverIsRoutedOnce, RowFootprint, SnapshotsStand
  PROVE  NeverIsRoutedOnce'
<1> SUFFICES ASSUME NEW r \in DOMAIN routes', ItemPolicy(r[1])' = "NEVER",
                    FrontierOf(r[1]) \notin Inspection
             PROVE  /\ claims'[r[1]].state \in {"ROUTED"} \cup TerminalQueueStates
                    /\ r[2] = claims'[r[1]].token
  BY DEF NeverIsRoutedOnce
<1>1. CASE r \in DOMAIN routes
  <2>1. r[1] \in Item /\ ItemPolicy(r[1]) = "NEVER"
    BY <1>1, EnvelopeRow
  <2>2. claims[r[1]].state \in {"ROUTED"} \cup TerminalQueueStates /\ r[2] = claims[r[1]].token
    BY <1>1, <2>1 DEF NeverIsRoutedOnce
  <2>3. RowMoves(r[1])
    BY <2>1 DEF RowFootprint
  <2>4. claims'[r[1]] = claims[r[1]] \/ RowDecided(r[1])
    BY <2>1, <2>2, <2>3, TerminalIsFinal
       DEF RowMoves, RowTaken, RowKept, RowEnded, RowRouted, RowReleased
  <2> QED BY <2>2, <2>4 DEF RowDecided, SameFence
<1>2. CASE NewEnvelope(r)
  <2>1. r[2] = claims[r[1]].token
    BY <1>2 DEF NewEnvelope
  <2> QED BY <1>2, <2>1 DEF NewEnvelope, RowRouted, SameFence
<1> QED BY <1>1, <1>2 DEF RowFootprint

LEMMA ReceiptsStillDecide ==
  ASSUME RowsTyped, ReceiptsDecide, RowFootprint
  PROVE  ReceiptsDecide'
<1>1. ASSUME NEW r \in DOMAIN routes', routes'[r].receipt # NoReceipt
      PROVE  /\ routes'[r].by = routes'[r].token
             /\ \/ routes'[r].state = "RECEIPT_RECORDED"
                \/ Allowed(routes'[r].receipt, routes'[r].state)
  <2>1. r \in DOMAIN routes
    <3>1. ~NewEnvelope(r)
      BY <1>1, NewRouteType DEF NewEnvelope
    <3> QED BY <3>1 DEF RowFootprint
  <2>2. RouteMoves(r)
    BY <2>1 DEF RowFootprint
  <2>3. CASE RouteAnswered(r)
    BY <2>3 DEF RouteAnswered
  <2>4. CASE ~RouteAnswered(r)
    <3>1. routes'[r].receipt = routes[r].receipt
      BY <2>2, <2>4 DEF RouteMoves, RouteDelivered, RouteStays, RouteSettled, SameReceipt
    <3>2. /\ routes[r].by = routes[r].token
          /\ routes[r].state = "RECEIPT_RECORDED" \/ Allowed(routes[r].receipt, routes[r].state)
      BY <1>1, <2>1, <3>1, ReceiptsOf
    <3>3. CASE routes'[r] = routes[r]
      BY <3>2, <3>3
    <3>4. CASE RouteSettled(r)
      BY <1>1, <3>1, <3>2, <3>4 DEF RouteSettled, SameReceipt
    <3>5. routes[r].state \notin {"PENDING", "CLAIMED"}
      BY <3>2, AllowedIsSettled DEF TerminalQueueStates
    <3>6. ~RouteDelivered(r) /\ ~RouteStays(r)
      BY <3>5 DEF RouteDelivered, RouteStays
    <3> QED BY <2>2, <2>4, <3>3, <3>4, <3>6 DEF RouteMoves
  <2> QED BY <2>3, <2>4
<1> QED BY <1>1 DEF ReceiptsDecide, Allowed

(* Whatever the step, if that is all it does. *)
LEMMA RowInvStays ==
  ASSUME RowsTyped, RowInv, RowFootprint, SnapshotsStand
  PROVE  RowsTyped' /\ RowInv'
<1>1. /\ RowsAreCommitted' /\ EnvelopesAreIssued' /\ AttemptsAreClaimed'
      /\ SameSubjectIsExclusive' /\ OutboxMirrorsQueue'
  BY RowsStayCommitted, EnvelopesStayIssued, AttemptsStayClaimed, SubjectsStayExclusive,
     OutboxStillMirrors DEF RowInv
<1>2. UnsafeIsDeliveredOnce' /\ NeverIsRoutedOnce' /\ ReceiptsDecide'
  BY UnsafeStaysDeliveredOnce, NeverStaysRoutedOnce, ReceiptsStillDecide DEF RowInv
<1>3. RowsTyped'
  BY DEF RowFootprint
<1> QED BY <1>1, <1>2, <1>3 DEF RowInv

---------------------------------------------------------------------------
(* Cycles *)

(* The predecessor of a snapshot in its topology, and whether the snapshot *)
(* misses something that changed since, in either state of the table.      *)
Before(table, n) ==
  Newest({m \in DOMAIN table : m < n /\ TopologyOf[table[m].config] = TopologyOf[table[n].config]})
ObservedIn(table, n) == IF n = NoSnapshot THEN {} ELSE table[n].observed
ListsChanges(table, n) ==
  Before(table, n) # NoSnapshot =>
    DerivedFrontiers(ObservedIn(table, Before(table, n)), ObservedIn(table, n)) \subseteq table[n].listed

LEMMA NoChangeOfTable ==
  /\ NoChangeIsMissed <=> \A n \in DOMAIN snapshots : ListsChanges(snapshots, n)
  /\ NoChangeIsMissed' <=> \A n \in DOMAIN snapshots' : ListsChanges(snapshots', n)
<1>1. NoChangeIsMissed <=> \A n \in DOMAIN snapshots : ListsChanges(snapshots, n)
  BY DEF NoChangeIsMissed, ListsChanges, Before, ObservedIn, Observed, Committed
<1>2. NoChangeIsMissed' <=> \A n \in DOMAIN snapshots' : ListsChanges(snapshots', n)
  BY DEF NoChangeIsMissed, ListsChanges, Before, ObservedIn, Observed, Committed
<1> QED BY <1>1, <1>2

LEMMA PlansOfTable ==
  PlansListChanges' <=>
    \A p \in Planner :
      plans'[p].stage = "planned" /\ plans'[p].ofTopology # NoSnapshot =>
        /\ plans'[p].ofTopology \in DOMAIN snapshots'
        /\ DerivedFrontiers(ObservedIn(snapshots', plans'[p].ofTopology), plans'[p].observed)
             \subseteq plans'[p].listed
  BY DEF PlansListChanges, ObservedIn, Observed, Committed

LEMMA CommittedNumbers ==
  ASSUME TypeOK
  PROVE  /\ Committed = 1 .. Len(snapshots) /\ Len(snapshots) \in Nat
         /\ Len(snapshots) <= MaxSnapshots /\ MaxSnapshots \in Nat
         /\ \A n \in Committed : snapshots[n] \in Snapshot
  BY BoundAssumption DEF TypeOK, Committed

LEMMA LatestIsCommitted ==
  ASSUME TypeOK, NEW S \in SUBSET Committed
  PROVE  /\ Newest(S) \in S \cup {NoSnapshot}
         /\ S # {} => Newest(S) \in S /\ \A m \in S : m <= Newest(S)
         /\ S = {} => Newest(S) = NoSnapshot
         /\ Newest(S) \in 0 .. MaxSnapshots
<1>1. S \in SUBSET (1 .. Len(snapshots)) /\ Len(snapshots) \in Nat
  BY CommittedNumbers
<1>2. /\ Newest(S) \in S \cup {NoSnapshot}
      /\ S # {} => Newest(S) \in S /\ \A m \in S : m <= Newest(S)
      /\ S = {} => Newest(S) = NoSnapshot
  BY <1>1, NewestOf
<1>3. \A n \in S \cup {NoSnapshot} : n \in 0 .. MaxSnapshots
  BY <1>1, CommittedNumbers DEF NoSnapshot
<1> QED BY <1>2, <1>3

LEMMA IdlePlanType == IdlePlan \in Plan /\ IdlePlan.stage = "idle" /\ IdlePlan.ofTopology = NoSnapshot
<1>1. (CHOOSE c \in Config : TRUE) \in Config
  BY ScheduleAssumption
<1>2. 0 \in 0 .. MaxSnapshots
  BY BoundAssumption
<1> QED BY <1>1, <1>2 DEF IdlePlan, Plan, NoSnapshot

Collected(c, observed) == [IdlePlan EXCEPT !.stage = "collected", !.config = c, !.observed = observed]

LEMMA CollectedPlan ==
  ASSUME NEW c \in Config, NEW observed \in SUBSET Subject
  PROVE  Collected(c, observed) \in Plan /\ Collected(c, observed).stage = "collected"
  BY IdlePlanType DEF Collected, Plan

Planned(plan, config, previous, listed) ==
  [plan EXCEPT !.stage = "planned", !.ofConfig = config, !.ofTopology = previous, !.listed = listed]

LEMMA PlannedPlan ==
  ASSUME NEW plan \in Plan, NEW config \in 0 .. MaxSnapshots, NEW previous \in 0 .. MaxSnapshots,
         NEW listed \in SUBSET Frontier, NEW q, q = Planned(plan, config, previous, listed)
  PROVE  /\ q \in Plan /\ q.stage = "planned" /\ q.config = plan.config
         /\ q.observed = plan.observed /\ q.ofTopology = previous /\ q.listed = listed
  BY DEF Planned, Plan

CycleTyped == plans \in [Planner -> Plan] /\ snapshots \in Seq(Snapshot) /\ Len(snapshots) <= MaxSnapshots

LEMMA CollectObservationsCycle ==
  ASSUME TypeOK, CycleInv, NEW p \in Planner, NEW c \in RunsUnder[p], CollectObservations(p, c)
  PROVE  CycleTyped' /\ CycleInv' /\ SnapshotsStand
<1>1. c \in Config
  BY ScheduleAssumption
<1>2. heads \in SUBSET Subject
  BY DEF TypeOK, View
<1>3. Collected(c, heads) \in Plan /\ Collected(c, heads).stage = "collected"
  BY <1>1, <1>2, CollectedPlan
<1>4. plans' = [plans EXCEPT ![p] = Collected(c, heads)] /\ snapshots' = snapshots
  BY DEF CollectObservations, Collected
<1>5. plans \in [Planner -> Plan]
  BY DEF TypeOK
<1>6. /\ plans' \in [Planner -> Plan]
      /\ plans'[p].stage = "collected"
      /\ \A q \in Planner : q # p => plans'[q] = plans[q]
  BY <1>3, <1>4, <1>5
<1>7. PlansListChanges'
  BY <1>4, <1>6 DEF CycleInv, PlansListChanges, Committed, Observed, DerivedFrontiers
<1>8. NoChangeIsMissed'
  BY <1>4, NoChangeOfTable DEF CycleInv
<1>9. CycleTyped' /\ SnapshotsStand
  <2>1. snapshots \in Seq(Snapshot) /\ Len(snapshots) <= MaxSnapshots
    BY DEF TypeOK
  <2>2. CycleTyped'
    BY <1>4, <1>6, <2>1 DEF CycleTyped
  <2>3. SnapshotsStand
    BY <1>4 DEF SnapshotsStand, Committed
  <2> QED BY <2>2, <2>3
<1> QED BY <1>7, <1>8, <1>9 DEF CycleInv

LEMMA UnresolvedAreFrontiers ==
  ASSUME TypeOK, NEW d
  PROVE  UnresolvedFrontiers(d) \subseteq Frontier
<1>1. ASSUME NEW i \in ListedRows(d) PROVE FrontierOf(i) \in Frontier
  <2>1. PICK n \in Committed : i \in {n} \X snapshots[n].listed
    BY DEF ListedRows
  <2>2. snapshots[n].listed \subseteq Frontier
    BY CommittedNumbers DEF Snapshot
  <2> QED BY <2>1, <2>2 DEF FrontierOf
<1> QED BY <1>1 DEF UnresolvedFrontiers, FirstSeen

LEMMA PlanCycleCycle ==
  ASSUME TypeOK, CycleInv, NEW p \in Planner, PlanCycle(p)
  PROVE  CycleTyped' /\ CycleInv' /\ SnapshotsStand
<1> DEFINE plan == plans[p]
           topology == TopologyOf[plan.config]
           previous == LatestOfTopology(topology)
           listed == IF previous = NoSnapshot THEN {}
                     ELSE DerivedFrontiers(Observed(previous), plan.observed)
                            \cup CarriedFrontiers(topology, plan.observed)
<1>1. plan \in Plan
  BY DEF TypeOK
<1>2. LatestOfConfig(plan.config) \in 0 .. MaxSnapshots
  <2>1. {n \in Committed : snapshots[n].config = plan.config} \in SUBSET Committed
    OBVIOUS
  <2> QED BY <2>1, LatestIsCommitted DEF LatestOfConfig
<1>3. previous \in 0 .. MaxSnapshots /\ previous \in Committed \cup {NoSnapshot}
  <2>1. {n \in Committed : TopologyOf[snapshots[n].config] = topology} \in SUBSET Committed
    OBVIOUS
  <2>2. /\ previous \in {n \in Committed : TopologyOf[snapshots[n].config] = topology} \cup {NoSnapshot}
        /\ previous \in 0 .. MaxSnapshots
    BY <2>1, LatestIsCommitted DEF LatestOfTopology
  <2> QED BY <2>2
<1>4. listed \in SUBSET Frontier
  <2>1. CarriedFrontiers(topology, plan.observed) \subseteq Frontier
    BY UnresolvedAreFrontiers DEF CarriedFrontiers
  <2> QED BY <2>1 DEF DerivedFrontiers
<1>5. plans' = [plans EXCEPT ![p] = Planned(plan, LatestOfConfig(plan.config), previous, listed)]
  BY DEF PlanCycle, Planned
<1>6. snapshots' = snapshots
  BY DEF PlanCycle
<1>7. plans \in [Planner -> Plan]
  BY DEF TypeOK
<1>8. previous # NoSnapshot =>
        DerivedFrontiers(Observed(previous), plan.observed) \subseteq listed
  OBVIOUS
<1> HIDE DEF plan, topology, previous, listed
<1>9. PICK q : q = Planned(plan, LatestOfConfig(plan.config), previous, listed)
  OBVIOUS
<1>10. /\ q \in Plan /\ q.observed = plan.observed /\ q.ofTopology = previous /\ q.listed = listed
  BY <1>1, <1>2, <1>3, <1>4, <1>9, PlannedPlan
<1>11. /\ plans' \in [Planner -> Plan]
       /\ plans'[p] = q
       /\ \A x \in Planner : x # p => plans'[x] = plans[x]
  BY <1>5, <1>7, <1>9, <1>10
<1>12. Committed' = Committed /\ \A n : Observed(n)' = Observed(n)
  BY <1>6 DEF Committed, Observed
<1>13. PlansListChanges'
  <2> SUFFICES ASSUME NEW x \in Planner, plans'[x].stage = "planned",
                      plans'[x].ofTopology # NoSnapshot
               PROVE  /\ plans'[x].ofTopology \in Committed
                      /\ DerivedFrontiers(Observed(plans'[x].ofTopology), plans'[x].observed)
                           \subseteq plans'[x].listed
    BY <1>12 DEF PlansListChanges, DerivedFrontiers
  <2>1. CASE x = p
    BY <1>3, <1>8, <1>10, <1>11, <2>1
  <2>2. CASE x # p
    BY <1>11, <2>2 DEF CycleInv, PlansListChanges
  <2> QED BY <2>1, <2>2
<1>14. NoChangeIsMissed'
  BY <1>6, NoChangeOfTable DEF CycleInv
<1>15. CycleTyped' /\ SnapshotsStand
  <2>1. snapshots \in Seq(Snapshot) /\ Len(snapshots) <= MaxSnapshots
    BY DEF TypeOK
  <2>2. CycleTyped'
    BY <1>6, <1>11, <2>1 DEF CycleTyped
  <2>3. SnapshotsStand
    BY <1>6 DEF SnapshotsStand, Committed
  <2> QED BY <2>2, <2>3
<1> QED BY <1>13, <1>14, <1>15 DEF CycleInv

(* A refused cycle forgets its plan and leaves the snapshots. *)
LEMMA PlanForgotten ==
  ASSUME TypeOK, NEW p \in Planner, plans' = [plans EXCEPT ![p] = IdlePlan]
  PROVE  /\ plans' \in [Planner -> Plan]
         /\ \A x \in Planner : plans'[x].stage = "planned" => plans'[x] = plans[x]
<1>1. plans \in [Planner -> Plan] /\ IdlePlan \in Plan /\ IdlePlan.stage = "idle"
  BY IdlePlanType DEF TypeOK
<1> QED BY <1>1

LEMMA SnapshotAppended ==
  ASSUME TypeOK, Len(snapshots) < MaxSnapshots, NEW e \in Snapshot, snapshots' = Append(snapshots, e)
  PROVE  LET k == Len(snapshots) + 1 IN
         /\ snapshots' \in Seq(Snapshot) /\ Len(snapshots') <= MaxSnapshots
         /\ Committed' = Committed \cup {k} /\ k \notin Committed
         /\ \A n \in Committed : n < k /\ snapshots'[n] = snapshots[n]
         /\ snapshots'[k] = e
         /\ SnapshotsStand
<1>1. snapshots \in Seq(Snapshot) /\ Len(snapshots) \in Nat /\ MaxSnapshots \in Nat
  BY CommittedNumbers DEF TypeOK
<1>2. /\ snapshots' \in Seq(Snapshot) /\ Len(snapshots') = Len(snapshots) + 1
      /\ \A n \in 1 .. Len(snapshots) : snapshots'[n] = snapshots[n]
      /\ snapshots'[Len(snapshots) + 1] = e
  BY <1>1
<1>3. Committed' = 1 .. Len(snapshots) + 1 /\ Committed = 1 .. Len(snapshots)
  BY <1>1, <1>2 DEF Committed
<1>4. Len(snapshots') <= MaxSnapshots
  BY <1>1, <1>2
<1>5. /\ 1 .. Len(snapshots) + 1 = 1 .. Len(snapshots) \cup {Len(snapshots) + 1}
      /\ Len(snapshots) + 1 \notin 1 .. Len(snapshots)
      /\ \A n \in 1 .. Len(snapshots) : n < Len(snapshots) + 1
  BY <1>1
<1>6. SnapshotsStand
  BY <1>2, <1>3, <1>5 DEF SnapshotsStand
<1> QED BY <1>2, <1>3, <1>4, <1>5, <1>6

(* A cycle commits against the newest snapshot of its topology, and so     *)
(* lists whatever changed since that one.                                  *)
LEMMA CommitCycleCycle ==
  ASSUME TypeOK, CycleInv, NEW p \in Planner, CommitCycle(p)
  PROVE  CycleTyped' /\ CycleInv' /\ SnapshotsStand
<1> DEFINE plan == plans[p]
           e == [config |-> plan.config, observed |-> plan.observed, listed |-> plan.listed,
                 queued |-> plan.listed \cap ReadyUnder[plan.config]]
           k == Len(snapshots) + 1
<1>1. plan \in Plan
  BY DEF TypeOK
<1>2. e \in Snapshot
  BY <1>1 DEF Plan, Snapshot
<1>3. plans' = [plans EXCEPT ![p] = IdlePlan] /\ plan.stage = "planned"
  BY DEF CommitCycle
<1>4. /\ plans' \in [Planner -> Plan]
      /\ \A x \in Planner : plans'[x].stage = "planned" => plans'[x] = plans[x]
  BY <1>3, PlanForgotten
<1>5. CASE ~(Predecessors(plan) /\ Len(snapshots) < MaxSnapshots)
  <2>1. snapshots' = snapshots
    BY <1>5 DEF CommitCycle
  <2>2. Committed' = Committed /\ \A n : Observed(n)' = Observed(n)
    BY <2>1 DEF Committed, Observed
  <2>3. PlansListChanges'
    BY <1>4, <2>2 DEF CycleInv, PlansListChanges, DerivedFrontiers
  <2>4. NoChangeIsMissed'
    BY <2>1, NoChangeOfTable DEF CycleInv
  <2>5. snapshots \in Seq(Snapshot) /\ Len(snapshots) <= MaxSnapshots
    BY DEF TypeOK
  <2>6. CycleTyped'
    BY <1>4, <2>1, <2>5 DEF CycleTyped
  <2>7. SnapshotsStand
    BY <2>1 DEF SnapshotsStand, Committed
  <2> QED BY <2>3, <2>4, <2>6, <2>7 DEF CycleInv
<1>6. CASE Predecessors(plan) /\ Len(snapshots) < MaxSnapshots
  <2>1. snapshots' = Append(snapshots, e)
    BY <1>6 DEF CommitCycle
  <2>2. /\ snapshots' \in Seq(Snapshot) /\ Len(snapshots') <= MaxSnapshots
        /\ Committed' = Committed \cup {k} /\ k \notin Committed
        /\ \A n \in Committed : n < k /\ snapshots'[n] = snapshots[n]
        /\ snapshots'[k] = e
        /\ SnapshotsStand
    <3> HIDE DEF e
    <3> QED BY <1>2, <1>6, <2>1, SnapshotAppended
  <2>3. plan.ofTopology = LatestOfTopology(TopologyOf[plan.config])
    BY <1>6 DEF Predecessors
  <2>4. e.config = plan.config /\ e.observed = plan.observed /\ e.listed = plan.listed
    OBVIOUS
  <2> HIDE DEF e, k, plan
  <2>5. NoSnapshot \notin Committed
    BY CommittedNumbers DEF NoSnapshot
  <2>6. \A n \in Committed \cup {NoSnapshot} : ObservedIn(snapshots', n) = Observed(n)
    BY <2>2 DEF Observed, ObservedIn
  <2>7. PlansListChanges'
    <3> SUFFICES ASSUME NEW x \in Planner, plans'[x].stage = "planned",
                        plans'[x].ofTopology # NoSnapshot
                 PROVE  /\ plans'[x].ofTopology \in DOMAIN snapshots'
                        /\ DerivedFrontiers(ObservedIn(snapshots', plans'[x].ofTopology),
                                            plans'[x].observed)
                             \subseteq plans'[x].listed
      BY PlansOfTable
    <3>1. plans'[x] = plans[x]
      BY <1>4
    <3>2. /\ plans[x].ofTopology \in Committed
          /\ DerivedFrontiers(Observed(plans[x].ofTopology), plans[x].observed)
               \subseteq plans[x].listed
      BY <3>1 DEF CycleInv, PlansListChanges
    <3>3. plans[x].ofTopology \in DOMAIN snapshots'
      BY <2>2, <3>2 DEF Committed
    <3> QED BY <2>6, <3>1, <3>2, <3>3
  <2>8. NoChangeIsMissed'
    <3> SUFFICES ASSUME NEW n \in DOMAIN snapshots' PROVE ListsChanges(snapshots', n)
      BY NoChangeOfTable
    <3>1. CASE n \in Committed
      <4> DEFINE S == {m \in DOMAIN snapshots : m < n /\
                         TopologyOf[snapshots[m].config] = TopologyOf[snapshots[n].config]}
      <4>1. {m \in DOMAIN snapshots' : m < n /\
               TopologyOf[snapshots'[m].config] = TopologyOf[snapshots'[n].config]} = S
        <5>1. ~(k < n)
          BY <3>1, CommittedNumbers DEF k
        <5> QED BY <2>2, <3>1, <5>1 DEF Committed
      <4>2. Before(snapshots', n) = Newest(S) /\ Before(snapshots, n) = Newest(S)
        BY <4>1 DEF Before
      <4>3. Newest(S) \in Committed \cup {NoSnapshot}
        <5>1. S \in SUBSET Committed
          BY DEF Committed
        <5> HIDE DEF S
        <5> QED BY <5>1, LatestIsCommitted
      <4>4. ListsChanges(snapshots, n)
        BY <3>1, NoChangeOfTable DEF CycleInv, Committed
      <4>5. ObservedIn(snapshots, n) = Observed(n) /\ ObservedIn(snapshots, Newest(S)) = Observed(Newest(S))
        BY DEF ObservedIn, Observed
      <4> HIDE DEF S
      <4> QED BY <2>2, <2>6, <3>1, <4>2, <4>3, <4>4, <4>5 DEF ListsChanges
    <3>2. CASE n = k
      <4>1. {m \in DOMAIN snapshots' : m < n /\
               TopologyOf[snapshots'[m].config] = TopologyOf[snapshots'[n].config]}
              = {m \in Committed : TopologyOf[snapshots[m].config] = TopologyOf[plan.config]}
        <5>1. \A m \in Committed : m < k
          BY <2>2
        <5>2. ~(k < k)
          BY CommittedNumbers DEF k
        <5> QED BY <2>2, <2>4, <3>2, <5>1, <5>2 DEF Committed
      <4>2. Before(snapshots', n) = plan.ofTopology
        BY <2>3, <4>1 DEF LatestOfTopology, Before
      <4>3. plan.ofTopology # NoSnapshot =>
              /\ plan.ofTopology \in Committed
              /\ DerivedFrontiers(Observed(plan.ofTopology), plan.observed) \subseteq plan.listed
        BY <1>3 DEF CycleInv, PlansListChanges, plan
      <4>4. ObservedIn(snapshots', n) = plan.observed
        <5>1. n # NoSnapshot
          BY <3>2, CommittedNumbers DEF k, NoSnapshot
        <5> QED BY <2>2, <2>4, <3>2, <5>1 DEF ObservedIn
      <4>5. snapshots'[n].listed = plan.listed
        BY <2>2, <2>4, <3>2
      <4> QED BY <2>6, <4>2, <4>3, <4>4, <4>5 DEF ListsChanges
    <3> QED BY <2>2, <3>1, <3>2 DEF Committed
  <2>9. CycleTyped'
    BY <1>4, <2>2 DEF CycleTyped
  <2> QED BY <2>2, <2>7, <2>8, <2>9 DEF CycleInv
<1> QED BY <1>5, <1>6

(* The other steps leave the cycles alone. *)
LEMMA CyclesStand ==
  ASSUME TypeOK, CycleInv, UNCHANGED cycle
  PROVE  CycleTyped' /\ CycleInv' /\ SnapshotsStand
<1>1. plans' = plans /\ snapshots' = snapshots
  BY DEF cycle
<1>2. PlansListChanges' /\ NoChangeIsMissed'
  BY <1>1, NoChangeOfTable, PlansOfTable
     DEF CycleInv, PlansListChanges, ObservedIn, Observed, Committed
<1>3. plans \in [Planner -> Plan] /\ snapshots \in Seq(Snapshot) /\ Len(snapshots) <= MaxSnapshots
  BY DEF TypeOK
<1>4. CycleTyped'
  BY <1>1, <1>3 DEF CycleTyped
<1> QED BY <1>1, <1>2, <1>4 DEF CycleInv, SnapshotsStand, Committed

---------------------------------------------------------------------------
(* The steps *)

(* What every step does: to the rows, to the cycles, and to the rest. *)
RestTyped ==
  /\ heads \in View
  /\ targets \in [Project -> 1 .. MaxHead]
  /\ reconciliations \subseteq [item : Item, token : 1 .. MaxToken, resolution : Resolution]

StepIsSound == RowFootprint /\ SnapshotsStand /\ CycleTyped' /\ CycleInv' /\ RestTyped'

LEMMA RestStands ==
  ASSUME TypeOK, UNCHANGED <<world, reconciliations>>
  PROVE  RestTyped'
  BY DEF TypeOK, RestTyped, world

LEMMA TargetsAreNumbered ==
  ASSUME TypeOK, NEW i \in Item
  PROVE  ItemTarget(i) \in 1 .. MaxHead
<1>1. FrontierOf(i) \in Frontier
  BY DEF Item, FrontierOf
<1>2. ProjectOf[FrontierOf(i)] \in Project
  BY <1>1, ScheduleAssumption
<1> QED BY <1>2 DEF ItemTarget, TypeOK

(* A step of the queue or the outbox. *)
LEMMA RowStepIsSound ==
  ASSUME Inv, RowFootprint, UNCHANGED <<world, cycle, reconciliations>>
  PROVE  StepIsSound
<1>1. CycleTyped' /\ CycleInv' /\ SnapshotsStand
  BY CyclesStand DEF Inv
<1>2. RestTyped'
  BY RestStands DEF Inv
<1> QED BY <1>1, <1>2 DEF StepIsSound

LEMMA CycleStepIsSound ==
  ASSUME Inv, CycleStep
  PROVE  StepIsSound
<1>1. RowFootprint
  <2>1. claims' = claims /\ routes' = routes
    BY DEF CycleStep, CollectObservations, PlanCycle, CommitCycle
  <2> QED BY <2>1, RowsHaveTypes, NoRow DEF Inv
<1>2. RestTyped'
  <2>1. UNCHANGED <<world, reconciliations>>
    BY DEF CycleStep, CollectObservations, PlanCycle, CommitCycle
  <2> QED BY <2>1, RestStands DEF Inv
<1>3. CycleTyped' /\ CycleInv' /\ SnapshotsStand
  BY CollectObservationsCycle, PlanCycleCycle, CommitCycleCycle DEF Inv, CycleStep
<1> QED BY <1>1, <1>2, <1>3 DEF StepIsSound

LEMMA ClaimStepIsSound ==
  ASSUME Inv, ClaimStep
  PROVE  StepIsSound
<1> SUFFICES RowFootprint /\ UNCHANGED <<world, cycle, reconciliations>>
  BY RowStepIsSound
<1>1. CASE \E c \in Config : ClaimNext(c)
  BY <1>1, ClaimNextRow DEF Inv
<1>2. ASSUME NEW i \in InState({"CLAIMED"}), NEW t \in 1 .. MaxToken,
             \/ \E h \in 1 .. ItemTarget(i) : BindTargetHead(i, t, h)
             \/ \E s \in Outcomes : ~Routed(i) /\ Finalize(i, t, s)
             \/ RouteWorkerClaim(i, t)
      PROVE  RowFootprint /\ UNCHANGED <<world, cycle, reconciliations>>
  <2>1. i \in Item
    BY DEF InState
  <2>2. ASSUME NEW h \in 1 .. ItemTarget(i), BindTargetHead(i, t, h)
        PROVE  RowFootprint /\ UNCHANGED <<world, cycle, reconciliations>>
    <3>1. h \in 1 .. MaxHead
      BY <2>1, TargetsAreNumbered, BoundAssumption DEF Inv
    <3> QED BY <2>1, <2>2, <3>1, BindTargetHeadRow DEF Inv
  <2>3. ASSUME NEW s \in Outcomes, ~Routed(i), Finalize(i, t, s)
        PROVE  RowFootprint /\ UNCHANGED <<world, cycle, reconciliations>>
    <3>1. s \in FinalizedStates
      BY ScheduleAssumption DEF FinalizedStates, TerminalQueueStates
    <3> QED BY <2>1, <2>3, <3>1, FinalizeRow DEF Inv
  <2>4. CASE RouteWorkerClaim(i, t)
    BY <2>1, <2>4, RouteWorkerClaimRow DEF Inv
  <2> QED BY <1>2, <2>2, <2>3, <2>4
<1> QED BY <1>1, <1>2 DEF ClaimStep

LEMMA DeliveryStepIsSound ==
  ASSUME Inv, DeliveryStep
  PROVE  StepIsSound
<1> SUFFICES RowFootprint /\ UNCHANGED <<world, cycle, reconciliations>>
  BY RowStepIsSound
<1> DEFINE open == RoutesInState({"PENDING", "CLAIMED"})
<1>1. ASSUME NEW w, NEW e, NEW allowPrivate,
             \/ \E r \in Offered(open, w, e, allowPrivate) :
                  \E before \in SUBSET Offered(open, w, e, allowPrivate) :
                    DeliverRoute(Offered(open, w, e, allowPrivate), r, before)
             \/ DeliverNothing(Offered(open, w, e, allowPrivate))
      PROVE  RowFootprint /\ UNCHANGED <<world, cycle, reconciliations>>
  <2>1. Offered(open, w, e, allowPrivate) \in SUBSET open
    BY DEF Offered
  <2> HIDE DEF open
  <2>2. PICK offered \in SUBSET open :
          \/ \E r, before : DeliverRoute(offered, r, before)
          \/ DeliverNothing(offered)
    BY <1>1, <2>1
  <2> QED BY <2>2, DeliverRouteRows, DeliverNothingRows DEF Inv, open
<1>2. ASSUME NEW r \in RoutesInState({"CLAIMED"}), NEW d \in 1 .. MaxDelivery, NEW class \in Answers,
             RecordReceipt(r, d, class)
      PROVE  RowFootprint /\ UNCHANGED <<world, cycle, reconciliations>>
  <2>1. r \in DOMAIN routes
    BY DEF RoutesInState
  <2>2. d \in 0 .. MaxDelivery /\ class \in ReceiptClass
    BY BoundAssumption, ScheduleAssumption DEF ReceiptClass
  <2> QED BY <1>2, <2>1, <2>2, RecordReceiptRoute DEF Inv
<1> QED BY <1>1, <1>2 DEF DeliveryStep

LEMMA ReconcileStepIsSound ==
  ASSUME Inv, ReconcileStep
  PROVE  StepIsSound
<1>1. PICK i \in InState({"OUTCOME_UNKNOWN", "ROUTED"}), t \in 1 .. MaxToken,
           resolution \in Resolution :
             \E retryAllowed \in RetryReadings(i, t) :
               Reconcile(i, t, resolution, retryAllowed)
  BY DEF ReconcileStep
<1>2. i \in Item
  BY DEF InState
<1>3. /\ RowFootprint /\ UNCHANGED <<world, cycle>>
      /\ reconciliations' \subseteq [item : Item, token : 1 .. MaxToken, resolution : Resolution]
  BY <1>1, <1>2, ReconcileRows DEF Inv
<1>4. RestTyped'
  BY <1>3 DEF Inv, TypeOK, RestTyped, world
<1>5. CycleTyped' /\ CycleInv' /\ SnapshotsStand
  BY <1>3, CyclesStand DEF Inv
<1> QED BY <1>3, <1>4, <1>5 DEF StepIsSound

LEMMA MoveIsSound ==
  ASSUME Inv, MoveProvider \/ \E p \in Project : MoveTarget(p)
  PROVE  StepIsSound
<1>1. claims' = claims /\ routes' = routes /\ UNCHANGED cycle /\ reconciliations' = reconciliations
  BY DEF MoveProvider, MoveTarget
<1>2. RowFootprint
  BY <1>1, RowsHaveTypes, NoRow DEF Inv
<1>3. CycleTyped' /\ CycleInv' /\ SnapshotsStand
  BY <1>1, CyclesStand DEF Inv
<1>4. heads' \in View /\ targets' \in [Project -> 1 .. MaxHead]
  <2>1. CASE MoveProvider
    BY <2>1 DEF MoveProvider, Inv, TypeOK
  <2>2. ASSUME NEW p \in Project, MoveTarget(p)
        PROVE  heads' \in View /\ targets' \in [Project -> 1 .. MaxHead]
    <3>1. targets[p] + 1 \in 1 .. MaxHead
      BY <2>2, BoundAssumption DEF MoveTarget, Inv, TypeOK
    <3> QED BY <2>2, <3>1 DEF MoveTarget, Inv, TypeOK
  <2> QED BY <2>1, <2>2
<1>5. RestTyped'
  BY <1>1, <1>4 DEF RestTyped, Inv, TypeOK
<1> QED BY <1>2, <1>3, <1>5 DEF StepIsSound

LEMMA LapseIsSound ==
  ASSUME Inv, \/ \E i \in InState({"CLAIMED"}) : LapseClaim(i)
              \/ \E r \in RoutesInState({"CLAIMED"}) : LapseDelivery(r)
  PROVE  StepIsSound
<1>1. \A i \in InState({"CLAIMED"}) : i \in Item
  BY DEF InState
<1>2. \A r \in RoutesInState({"CLAIMED"}) : r \in DOMAIN routes
  BY DEF RoutesInState
<1>3. RowFootprint /\ UNCHANGED <<world, cycle, reconciliations>>
  BY <1>1, <1>2, LapseClaimRow, LapseDeliveryRoute DEF Inv
<1> QED BY <1>3, RowStepIsSound

LEMMA StandingStillIsSound ==
  ASSUME Inv, UNCHANGED vars
  PROVE  StepIsSound
<1>1. claims' = claims /\ routes' = routes /\ UNCHANGED <<world, cycle, reconciliations>>
  BY DEF vars, world, cycle
<1>2. RowFootprint
  BY <1>1, RowsHaveTypes, NoRow DEF Inv
<1> QED BY <1>1, <1>2, RowStepIsSound

LEMMA StepsAreSound ==
  ASSUME Inv, [Next]_vars
  PROVE  StepIsSound
  BY CycleStepIsSound, ClaimStepIsSound, DeliveryStepIsSound, ReconcileStepIsSound, MoveIsSound,
     LapseIsSound, StandingStillIsSound DEF Next, WorldStep

(* A sound step keeps the invariant. *)
LEMMA InvStays ==
  ASSUME Inv, StepIsSound
  PROVE  Inv'
<1>1. RowsTyped' /\ RowInv'
  BY RowsHaveTypes, RowInvStays DEF Inv, StepIsSound
<1>2. CycleTyped' /\ CycleInv' /\ RestTyped'
  BY DEF StepIsSound
<1>3. TypeOK'
  BY <1>1, <1>2 DEF TypeOK, RowsTyped, CycleTyped, RestTyped
<1> QED BY <1>1, <1>2, <1>3 DEF Inv

LEMMA InvHoldsAtFirst ==
  ASSUME Init
  PROVE  Inv
<1>1. snapshots = <<>> /\ routes = <<>> /\ reconciliations = {}
  BY DEF Init
<1>2. DOMAIN routes = {} /\ DOMAIN snapshots = {} /\ Committed = {}
  <2>1. \A e : DOMAIN e = 1 .. 0 => DOMAIN e = {}
    OBVIOUS
  <2> QED BY <1>1, <2>1 DEF Committed
<1>3. NoClaim \in Claim /\ NoClaim.state = "NONE" /\ NoClaim.token = 0 /\ NoClaim.generation = 1
  BY BoundAssumption DEF NoClaim, Claim, QueueState, NoHead
<1>4. \A i \in Item : claims[i] = NoClaim
  BY DEF Init
<1>5. TypeOK
  <2>1. heads \in View /\ targets \in [Project -> 1 .. MaxHead]
    BY BoundAssumption DEF Init
  <2>2. plans \in [Planner -> Plan]
    BY IdlePlanType DEF Init
  <2>3. snapshots \in Seq(Snapshot) /\ Len(snapshots) <= MaxSnapshots
    BY <1>1, BoundAssumption
  <2>4. claims \in [Item -> Claim]
    BY <1>3 DEF Init
  <2> QED BY <1>1, <1>2, <2>1, <2>2, <2>3, <2>4 DEF TypeOK
<1>6. \A i \in Item : claims[i].state = "NONE" /\ ~Reserved(i)
  BY <1>3, <1>4 DEF Reserved, ReservedQueueStates
<1>7. RowInv
  <2>1. RowsAreCommitted /\ EnvelopesAreIssued
    BY <1>2, <1>6 DEF RowsAreCommitted, EnvelopesAreIssued
  <2>2. AttemptsAreClaimed
    BY <1>3, <1>4, <1>6 DEF AttemptsAreClaimed
  <2>3. SameSubjectIsExclusive
    BY <1>6 DEF SameSubjectIsExclusive
  <2>4. OutboxMirrorsQueue
    BY <1>2, <1>6 DEF OutboxMirrorsQueue, RoutesInState
  <2>5. UnsafeIsDeliveredOnce /\ NeverIsRoutedOnce /\ ReceiptsDecide
    BY <1>2 DEF UnsafeIsDeliveredOnce, NeverIsRoutedOnce, ReceiptsDecide
  <2> QED BY <2>1, <2>2, <2>3, <2>4, <2>5 DEF RowInv
<1>8. CycleInv
  <2>1. \A p \in Planner : plans[p].stage = "idle"
    BY IdlePlanType DEF Init
  <2>2. PlansListChanges
    BY <2>1 DEF PlansListChanges
  <2>3. NoChangeIsMissed
    BY <1>2, NoChangeOfTable
  <2> QED BY <2>2, <2>3 DEF CycleInv
<1> QED BY <1>5, <1>7, <1>8 DEF Inv

(* The inductive invariant of the queue holds throughout. *)
THEOREM Invariant == Spec => []Inv
<1>1. Init => Inv
  BY InvHoldsAtFirst
<1>2. Inv /\ [Next]_vars => Inv'
  BY StepsAreSound, InvStays
<1> QED BY <1>1, <1>2, PTL DEF Spec

---------------------------------------------------------------------------
(* Theorems *)

(* Every variable of the store keeps its type. *)
THEOREM TypeCorrect == Spec => []TypeOK
<1>1. Inv => TypeOK
  BY DEF Inv
<1> QED BY <1>1, Invariant, PTL

(* claim_next never reserves two rows on one exact subject that share a    *)
(* collision key, whatever snapshots and configurations scheduled them.    *)
THEOREM WorkIsExclusive == Spec => []SameSubjectIsExclusive
<1>1. Inv => SameSubjectIsExclusive
  BY DEF Inv, RowInv
<1> QED BY <1>1, Invariant, PTL

(* The outbox and the queue agree on what is routed and how it was settled *)
(* after every transaction of either.                                      *)
THEOREM OutboxAgreesWithQueue == Spec => []OutboxMirrorsQueue
<1>1. Inv => OutboxMirrorsQueue
  BY DEF Inv, RowInv
<1> QED BY <1>1, Invariant, PTL

(* Only a route declared SAFE is delivered again without a reconciler, and *)
(* a row that is NEVER to be replayed, unless an inspection, is handed to  *)
(* a worker once, however early the reconciler read its policy.            *)
THEOREM PolicyIsKept == Spec => []DeliveriesFollowPolicy
<1>1. Inv => DeliveriesFollowPolicy
  <2> SUFFICES ASSUME Inv, NEW r \in DOMAIN routes
               PROVE  /\ ~Safe(r) => routes[r].token <= 1
                      /\ ItemPolicy(r[1]) = "NEVER" /\ FrontierOf(r[1]) \notin Inspection =>
                           \A x \in DOMAIN routes : x[1] = r[1] => x = r
    BY DEF DeliveriesFollowPolicy
  <2>1. ~Safe(r) => routes[r].token <= 1
    BY DEF Inv, RowInv, UnsafeIsDeliveredOnce
  <2>2. ASSUME ItemPolicy(r[1]) = "NEVER", FrontierOf(r[1]) \notin Inspection,
               NEW x \in DOMAIN routes, x[1] = r[1]
        PROVE  x = r
    <3>1. x[2] = claims[x[1]].token /\ r[2] = claims[r[1]].token
      BY <2>2 DEF Inv, RowInv, NeverIsRoutedOnce
    <3>2. x = <<x[1], x[2]>> /\ r = <<r[1], r[2]>>
      BY RowsHaveTypes, EnvelopeOf DEF Inv
    <3> QED BY <2>2, <3>1, <3>2
  <2> QED BY <2>1, <2>2
<1> QED BY <1>1, Invariant, PTL

(* A receipt is the latest delivery's, and what a route is settled as is   *)
(* what its receipt allows.                                                *)
THEOREM ReceiptsAreFollowed == Spec => []ReceiptsDecide
<1>1. Inv => ReceiptsDecide
  BY DEF Inv, RowInv
<1> QED BY <1>1, Invariant, PTL

(* Whoever races to commit a cycle, no move of a ref falls between two     *)
(* snapshots of a topology.                                                *)
THEOREM ChangesAreListed == Spec => []NoChangeIsMissed
<1>1. Inv => NoChangeIsMissed
  BY DEF Inv, CycleInv
<1> QED BY <1>1, Invariant, PTL

(* A sound step undoes no decision. *)
DecisionStands ==
  /\ \A r \in DOMAIN routes : routes[r].receipt # NoReceipt => routes'[r].receipt = routes[r].receipt
  /\ \A i \in Item :
    /\ claims[i].state \in TerminalQueueStates => claims'[i] = claims[i]
    /\ claims[i].head # NoHead => claims'[i].head = claims[i].head
    /\ claims[i].state \in {"OUTCOME_UNKNOWN", "ROUTED"}
         => \/ claims'[i].state \in {claims[i].state} \cup TerminalQueueStates
            \/ claims'[i].generation = claims[i].generation + 1

LEMMA FootprintsDecide ==
  ASSUME RowInv, RowFootprint
  PROVE  DecisionStands
<1>1. ASSUME NEW r \in DOMAIN routes, routes[r].receipt # NoReceipt
      PROVE  routes'[r].receipt = routes[r].receipt
  <2>1. RouteMoves(r)
    BY DEF RowFootprint
  <2>2. ~RouteAnswered(r)
    BY <1>1, ReceiptsOf, AllowedIsSettled DEF RowInv, RouteAnswered, TerminalQueueStates
  <2> QED BY <2>1, <2>2 DEF RouteMoves, RouteDelivered, RouteStays, RouteSettled, SameReceipt
<1>2. ASSUME NEW i \in Item
      PROVE  /\ claims[i].state \in TerminalQueueStates => claims'[i] = claims[i]
             /\ claims[i].head # NoHead => claims'[i].head = claims[i].head
             /\ claims[i].state \in {"OUTCOME_UNKNOWN", "ROUTED"}
                  => \/ claims'[i].state \in {claims[i].state} \cup TerminalQueueStates
                     \/ claims'[i].generation = claims[i].generation + 1
  <2>1. RowMoves(i)
    BY DEF RowFootprint
  <2>2. claims[i].state \in TerminalQueueStates => claims'[i] = claims[i]
    BY <2>1, TerminalIsFinal
       DEF RowMoves, RowTaken, RowKept, RowEnded, RowRouted, RowDecided, RowReleased
  <2>3. claims[i].head # NoHead => claims'[i].head = claims[i].head
    BY <2>1 DEF RowMoves, RowTaken, RowKept, RowEnded, RowRouted, RowDecided, RowReleased, SameFence
  <2>4. claims[i].state \in {"OUTCOME_UNKNOWN", "ROUTED"}
          => \/ claims'[i].state \in {claims[i].state} \cup TerminalQueueStates
             \/ claims'[i].generation = claims[i].generation + 1
    BY <2>1, TerminalIsFinal
       DEF RowMoves, RowTaken, RowKept, RowEnded, RowRouted, RowDecided, RowReleased
  <2> QED BY <2>2, <2>3, <2>4
<1> QED BY <1>1, <1>2 DEF DecisionStands

(* Terminal rows, bound targets and receipts stay, and a row that may have *)
(* run is claimed again only as a new attempt.                             *)
THEOREM NothingIsUndecided == Spec => DecisionsStand
<1>1. Inv /\ [Next]_vars => [DecisionStands]_vars
  BY StepsAreSound, FootprintsDecide DEF Inv, StepIsSound
<1> QED BY <1>1, Invariant, PTL DEF Spec, DecisionsStand, DecisionStands
=============================================================================
