------------------------- MODULE QueueConsumerProofs -------------------------
(***************************************************************************)
(* Proofs about the processes that work the portfolio's queue: whatever    *)
(* they do, die of or overrun, they are callers under which the queue's    *)
(* invariant holds, and what the queue says of an inspection is what the   *)
(* inspection's own record says.                                           *)
(***************************************************************************)
EXTENDS QueueConsumer, WorkQueueProofs

---------------------------------------------------------------------------
(* The inductive invariant *)

(* The rows the processes are described by. *)
HoldingRow ==
  [pc : {"unbound", "bound", "running", "started", "failed"},
   item : Item, token : 1 .. MaxToken, generation : 1 .. MaxToken + 1]
HeadedRow ==
  [pc : {"read", "bound", "running", "started", "failed"},
   item : Item, token : 1 .. MaxToken, generation : 1 .. MaxToken + 1, head : 1 .. MaxHead]
SettlingConsumer ==
  [pc : {"settling"}, item : Item, token : 1 .. MaxToken, generation : 1 .. MaxToken + 1,
   outcome : FinalizedStates]
ConsumerRow == {Idle} \cup HoldingRow \cup HeadedRow \cup SettlingConsumer

Envelope == Item \X (1 .. MaxToken)
WorkerRow ==
  {Idle} \cup [pc : {"reading"}, route : Envelope, token : 1 .. MaxDelivery]
         \cup [pc : {"halfway"}, route : Envelope, token : 1 .. MaxDelivery, exact : BOOLEAN]
         \cup [pc : {"answering"}, route : Envelope, token : 1 .. MaxDelivery, class : ReceiptClass]

ProcessesTyped ==
  /\ consumers \in [Consumer -> ConsumerRow]
  /\ workers \in [Worker -> WorkerRow]

(* What a consumer was told of its row: a fence that was issued, and while *)
(* it still holds the claim the attempt generation of the row.             *)
HoldsRow(c) ==
  /\ claims[c.item].state # "NONE"
  /\ c.token <= claims[c.item].token
  /\ claims[c.item].state = "CLAIMED" /\ claims[c.item].token = c.token
       => c.generation = claims[c.item].generation

(* What it knows of the inspection: a root it initialized is its own until *)
(* it ends the run, and a terminal state it settles on is on record.       *)
FollowsRecord(c) ==
  /\ c.pc \in {"running", "started", "failed", "settling"} => ~Routed(c.item)
  /\ c.pc = "started" =>
       /\ <<c.item, c.generation>> \in DOMAIN operators
       /\ operators[<<c.item, c.generation>>] = "OPEN"
  /\ c.pc = "settling" /\ c.outcome \in TerminalQueueStates =>
       /\ <<c.item, c.generation>> \in DOMAIN operators
       /\ operators[<<c.item, c.generation>>] = c.outcome

ConsumersHold ==
  \A k \in Consumer : ~At(k, "idle") => HoldsRow(consumers[k]) /\ FollowsRecord(consumers[k])

(* One process runs an inspection. *)
OneStarter ==
  \A k, j \in Consumer : k # j /\ At(k, "started") /\ At(j, "started") => Lineage(k) # Lineage(j)

WorkersHold == \A w \in Worker : ~WorkerAt(w, "idle") => Delivery(w) \in DOMAIN routes

QueueInv ==
  /\ Inv
  /\ ProcessesTyped
  /\ ConsumersHold
  /\ OneStarter
  /\ WorkersHold
  /\ QueueFollowsOperator

---------------------------------------------------------------------------
(* What a process knows stays true under the steps of others *)

(* Records of ended inspections are not rewritten, and a reconciler's      *)
(* decisions are kept.                                                     *)
RecordsStand ==
  /\ \A l \in DOMAIN operators :
       /\ l \in DOMAIN operators'
       /\ operators[l] \in TerminalQueueStates => operators'[l] = operators[l]
  /\ reconciliations \subseteq reconciliations'

(* What makes a row of the built-in inspection terminal. *)
Explained(i) ==
  \/ \E x \in reconciliations : x.item = i /\ x.token = claims[i].token
  \/ /\ <<i, claims[i].generation>> \in DOMAIN operators
     /\ operators[<<i, claims[i].generation>>] = claims[i].state

NewlyExplained ==
  \A i \in Item :
    claims'[i].state \in TerminalQueueStates /\ claims'[i] # claims[i] => Routed(i) \/ Explained(i)'

(* A step that leaves the inspections and the decisions alone. *)
LEMMA NothingRecorded ==
  ASSUME operators' = operators, reconciliations' = reconciliations
  PROVE  RecordsStand
  BY DEF RecordsStand

(* What every consumer of the queue is: idle, or at a row of its own. *)
LEMMA ConsumerHasRow ==
  ASSUME NEW c \in ConsumerRow, c.pc # "idle"
  PROVE  c.item \in Item /\ c.token \in 1 .. MaxToken /\ c.generation \in 1 .. MaxToken + 1
  BY DEF ConsumerRow, Idle, HoldingRow, HeadedRow, SettlingConsumer

LEMMA HoldsRowStays ==
  ASSUME Inv, StepIsSound, NEW c, c.item \in Item, c.token \in 1 .. MaxToken, HoldsRow(c)
  PROVE  HoldsRow(c)'
<1> DEFINE i == c.item
<1>1. RowMoves(i)
  BY DEF StepIsSound, RowFootprint
<1>2. claims[i].token \in Nat /\ c.token \in Nat
  BY RowsHaveTypes, ClaimsAreTyped, BoundAssumption DEF Inv
<1>3. CASE RowTaken(i)
  BY <1>2, <1>3 DEF RowTaken, HoldsRow
<1>4. CASE ~RowTaken(i)
  <2>1. claims'[i].token = claims[i].token
    BY <1>1, <1>4 DEF RowMoves, SameFence, RowKept, RowEnded, RowRouted, RowDecided, RowReleased
  <2>2. claims'[i].state # "NONE"
    BY <1>1, <1>4, TerminalIsFinal
       DEF HoldsRow, RowMoves, RowKept, RowEnded, RowRouted, RowDecided, RowReleased
  <2>3. claims'[i].state = "CLAIMED" =>
          claims[i].state = "CLAIMED" /\ claims'[i].generation = claims[i].generation
    BY <1>1, <1>4, TerminalIsFinal
       DEF RowMoves, RowKept, RowEnded, RowRouted, RowDecided, RowReleased
  <2> QED BY <2>1, <2>2, <2>3 DEF HoldsRow
<1> QED BY <1>3, <1>4

LEMMA RoutedStands ==
  ASSUME Inv, StepIsSound, NEW i \in Item, claims[i].state # "NONE"
  PROVE  Routed(i)' <=> Routed(i)
<1>1. SnapshotOf(i) \in Committed
  BY DEF Inv, RowInv, RowsAreCommitted
<1> QED BY <1>1, PolicyStands DEF StepIsSound

LEMMA FollowsRecordStays ==
  ASSUME Inv, StepIsSound, RecordsStand, NEW c, c.item \in Item, HoldsRow(c), FollowsRecord(c),
         c.pc = "started" => operators'[<<c.item, c.generation>>] = operators[<<c.item, c.generation>>]
  PROVE  FollowsRecord(c)'
<1>1. Routed(c.item)' <=> Routed(c.item)
  BY RoutedStands DEF HoldsRow
<1>2. c.pc = "started" =>
        /\ <<c.item, c.generation>> \in DOMAIN operators'
        /\ operators'[<<c.item, c.generation>>] = "OPEN"
  BY DEF FollowsRecord, RecordsStand
<1>3. c.pc = "settling" /\ c.outcome \in TerminalQueueStates =>
        /\ <<c.item, c.generation>> \in DOMAIN operators'
        /\ operators'[<<c.item, c.generation>>] = c.outcome
  BY DEF FollowsRecord, RecordsStand
<1> QED BY <1>1, <1>2, <1>3 DEF FollowsRecord

(* What the queue says stays explained. *)
LEMMA QueueStillFollows ==
  ASSUME Inv, StepIsSound, QueueFollowsOperator, RecordsStand, NewlyExplained
  PROVE  QueueFollowsOperator'
<1> SUFFICES ASSUME NEW i \in Item, claims'[i].state \in TerminalQueueStates, ~Routed(i)'
             PROVE  Explained(i)'
  BY DEF QueueFollowsOperator, InState, Explained
<1>1. claims[i].state # "NONE"
  <2>1. RowMoves(i)
    BY DEF StepIsSound, RowFootprint
  <2> QED BY <2>1, TerminalIsFinal
          DEF RowMoves, RowTaken, RowKept, RowEnded, RowRouted, RowDecided, RowReleased
<1>2. ~Routed(i)
  BY <1>1, RoutedStands
<1>3. CASE claims'[i] = claims[i]
  <2>1. Explained(i)
    BY <1>2, <1>3 DEF QueueFollowsOperator, InState, Explained
  <2> QED BY <1>3, <2>1 DEF Explained, RecordsStand
<1>4. CASE claims'[i] # claims[i]
  BY <1>2, <1>4 DEF NewlyExplained
<1> QED BY <1>3, <1>4

LEMMA WorkersStillHold ==
  ASSUME StepIsSound, WorkersHold, workers' = workers
  PROVE  WorkersHold'
  BY DEF WorkersHold, WorkerAt, Delivery, StepIsSound, RowFootprint

(* The consumers that do not move themselves. *)
Bystander(k) ==
  /\ consumers'[k] = consumers[k]
  /\ At(k, "started") => operators'[Lineage(k)] = operators[Lineage(k)]

LEMMA BystandersHold ==
  ASSUME QueueInv, StepIsSound, RecordsStand, NEW k \in Consumer, Bystander(k), ~At(k, "idle")'
  PROVE  HoldsRow(consumers[k])' /\ FollowsRecord(consumers[k])'
<1>1. PICK c : c = consumers[k]
  OBVIOUS
<1>2. c \in ConsumerRow /\ c.pc # "idle" /\ consumers'[k] = c
  BY <1>1 DEF Bystander, At, QueueInv, ProcessesTyped
<1>3. c.item \in Item /\ c.token \in 1 .. MaxToken
  BY <1>2, ConsumerHasRow
<1>4. HoldsRow(c) /\ FollowsRecord(c)
  BY <1>1, <1>2 DEF QueueInv, ConsumersHold, At
<1>5. c.pc = "started" => operators'[<<c.item, c.generation>>] = operators[<<c.item, c.generation>>]
  BY <1>1 DEF Bystander, At, Lineage, Held
<1>6. HoldsRow(c)' /\ FollowsRecord(c)'
  BY <1>3, <1>4, <1>5, HoldsRowStays, FollowsRecordStays DEF QueueInv
<1> QED BY <1>2, <1>6 DEF HoldsRow, FollowsRecord

LEMMA StartersStayAlone ==
  ASSUME OneStarter, \A k \in Consumer : consumers'[k] = consumers[k]
  PROVE  OneStarter'
  BY DEF OneStarter, At, Lineage, Held

(* A step in which no consumer moves. *)
LEMMA NoConsumerMoves ==
  ASSUME QueueInv, StepIsSound, consumers' = consumers, operators' = operators,
         reconciliations \subseteq reconciliations', NewlyExplained,
         workers' \in [Worker -> WorkerRow], WorkersHold'
  PROVE  QueueInv'
<1>1. Inv'
  BY InvStays DEF QueueInv
<1>2. RecordsStand
  BY DEF RecordsStand
<1>3. \A k \in Consumer : Bystander(k)
  BY DEF Bystander
<1>4. ConsumersHold'
  BY <1>2, <1>3, BystandersHold DEF ConsumersHold
<1>5. OneStarter'
  BY StartersStayAlone DEF QueueInv
<1>6. QueueFollowsOperator'
  BY <1>2, QueueStillFollows DEF QueueInv
<1>7. ProcessesTyped'
  BY DEF QueueInv, ProcessesTyped
<1> QED BY <1>1, <1>4, <1>5, <1>6, <1>7 DEF QueueInv

(* A step in which consumer k moves, to a row c. *)
LEMMA OneConsumerMoves ==
  ASSUME QueueInv, StepIsSound, NEW k \in Consumer, NEW c \in ConsumerRow,
         consumers' = [consumers EXCEPT ![k] = c], workers' = workers,
         c.pc # "idle" => HoldsRow(c)' /\ FollowsRecord(c)',
         RecordsStand, NewlyExplained,
         \A j \in Consumer : j # k /\ At(j, "started") =>
           /\ operators'[Lineage(j)] = operators[Lineage(j)]
           /\ c.pc = "started" => <<c.item, c.generation>> # Lineage(j)
  PROVE  QueueInv'
<1>1. Inv'
  BY InvStays DEF QueueInv
<1>2. consumers \in [Consumer -> ConsumerRow] /\ workers \in [Worker -> WorkerRow]
  BY DEF QueueInv, ProcessesTyped
<1>3. consumers' \in [Consumer -> ConsumerRow] /\ consumers'[k] = c
  BY <1>2
<1>4. \A j \in Consumer : j # k => consumers'[j] = consumers[j]
  BY <1>2
<1>5. \A j \in Consumer : j # k => Bystander(j)
  BY <1>4 DEF Bystander
<1>6. ConsumersHold'
  <2> SUFFICES ASSUME NEW j \in Consumer, ~At(j, "idle")'
               PROVE  HoldsRow(consumers[j])' /\ FollowsRecord(consumers[j])'
    BY DEF ConsumersHold
  <2>1. CASE j = k
    BY <1>3, <2>1 DEF At, HoldsRow, FollowsRecord
  <2>2. CASE j # k
    BY <1>5, <2>2, BystandersHold
  <2> QED BY <2>1, <2>2
<1>7. OneStarter'
  <2> SUFFICES ASSUME NEW a \in Consumer, NEW b \in Consumer, a # b,
                      consumers'[a].pc = "started", consumers'[b].pc = "started"
               PROVE  <<consumers'[a].item, consumers'[a].generation>>
                        # <<consumers'[b].item, consumers'[b].generation>>
    BY DEF OneStarter, At, Lineage, Held
  <2>1. CASE a = k
    BY <1>3, <1>4, <2>1 DEF At, Lineage, Held
  <2>2. CASE b = k
    BY <1>3, <1>4, <2>2 DEF At, Lineage, Held
  <2>3. CASE a # k /\ b # k
    BY <1>4, <2>3 DEF QueueInv, OneStarter, At, Lineage, Held
  <2> QED BY <2>1, <2>2, <2>3
<1>8. QueueFollowsOperator'
  BY QueueStillFollows DEF QueueInv
<1>9. WorkersHold'
  BY WorkersStillHold DEF QueueInv
<1>10. ProcessesTyped'
  BY <1>2, <1>3 DEF ProcessesTyped
<1> QED BY <1>1, <1>6, <1>7, <1>8, <1>9, <1>10 DEF QueueInv

---------------------------------------------------------------------------
(* What a consumer does *)

LEMMA Busy ==
  ASSUME QueueInv, NEW k \in Consumer, NEW c, c = consumers[k], c.pc # "idle"
  PROVE  /\ c \in ConsumerRow
         /\ c.item \in Item /\ c.token \in 1 .. MaxToken /\ c.generation \in 1 .. MaxToken + 1
         /\ HoldsRow(c) /\ FollowsRecord(c)
         /\ Held(k) = c.item /\ Fence(k) = c.token /\ Lineage(k) = <<c.item, c.generation>>
         /\ \A pc : At(k, pc) <=> c.pc = pc
<1>1. c \in ConsumerRow
  BY DEF QueueInv, ProcessesTyped
<1>2. HoldsRow(c) /\ FollowsRecord(c)
  BY DEF QueueInv, ConsumersHold, At
<1> QED BY <1>1, <1>2, ConsumerHasRow DEF Held, Fence, Lineage, At

MovedTo(c, pc) == [c EXCEPT !.pc = pc]

LEMMA MovedConsumer ==
  ASSUME NEW c \in ConsumerRow, NEW pc \in {"bound", "running", "started", "failed"},
         c.pc \in {"unbound", "read", "bound", "running", "started", "failed"},
         NEW d, d = MovedTo(c, pc)
  PROVE  /\ d \in ConsumerRow
         /\ d.pc = pc /\ d.item = c.item /\ d.token = c.token /\ d.generation = c.generation
<1>1. c \in HoldingRow \/ c \in HeadedRow
  BY DEF ConsumerRow, Idle, SettlingConsumer
<1>2. CASE c \in HoldingRow
  <2>1. d \in HoldingRow /\ d.pc = pc /\ d.item = c.item /\ d.token = c.token
        /\ d.generation = c.generation
    BY <1>2 DEF MovedTo, HoldingRow
  <2> QED BY <2>1 DEF ConsumerRow
<1>3. CASE c \in HeadedRow
  <2>1. d \in HeadedRow /\ d.pc = pc /\ d.item = c.item /\ d.token = c.token
        /\ d.generation = c.generation
    BY <1>3 DEF MovedTo, HeadedRow
  <2> QED BY <2>1 DEF ConsumerRow
<1> QED BY <1>1, <1>2, <1>3

LEMMA IdleConsumer == Idle \in ConsumerRow /\ Idle.pc = "idle"
  BY DEF Idle, ConsumerRow

LEMMA SettlingFollows ==
  ASSUME NEW c, c.item \in Item, c.token \in 1 .. MaxToken, c.generation \in 1 .. MaxToken + 1,
         NEW state \in FinalizedStates, NEW d,
         d = [pc |-> "settling", item |-> c.item, token |-> c.token,
              generation |-> c.generation, outcome |-> state]
  PROVE  /\ d \in ConsumerRow
         /\ d.pc = "settling" /\ d.item = c.item /\ d.token = c.token
         /\ d.generation = c.generation /\ d.outcome = state
  BY DEF ConsumerRow, SettlingConsumer

LEMMA QueueStates ==
  ASSUME NEW status
  PROVE  /\ QueueStateForOperator(status) \in FinalizedStates
         /\ QueueStateForOperator(status) \in TerminalQueueStates => QueueStateForOperator(status) = status
  BY DEF QueueStateForOperator, FinalizedStates, TerminalQueueStates

(* The store is left alone. *)
LEMMA StoreStands ==
  ASSUME Inv, UNCHANGED store
  PROVE  /\ StepIsSound /\ NewlyExplained
         /\ claims' = claims /\ routes' = routes /\ reconciliations' = reconciliations
         /\ snapshots' = snapshots
<1>1. UNCHANGED vars /\ claims' = claims /\ routes' = routes /\ reconciliations' = reconciliations
      /\ snapshots' = snapshots
  BY DEF store, vars, world, cycle
<1> QED BY <1>1, StandingStillIsSound DEF NewlyExplained

(* A consumer that goes on without a call of the store, in no inspection.  *)
LEMMA ConsumerGoesOn ==
  ASSUME QueueInv, NEW k \in Consumer, NEW c, c = consumers[k], c.pc # "idle",
         UNCHANGED store, operators' = operators, workers' = workers,
         NEW d \in ConsumerRow, consumers' = [consumers EXCEPT ![k] = d],
         d.pc # "started",
         d.pc # "idle" =>
           /\ d.item = c.item /\ d.token = c.token /\ d.generation = c.generation
           /\ d.pc \in {"running", "failed", "settling"} => ~Routed(c.item)
           /\ d.pc = "settling" /\ d.outcome \in TerminalQueueStates =>
                <<c.item, c.generation>> \in DOMAIN operators
                /\ operators[<<c.item, c.generation>>] = d.outcome
  PROVE  QueueInv'
<1>1. StepIsSound /\ NewlyExplained /\ claims' = claims /\ reconciliations' = reconciliations
      /\ snapshots' = snapshots
  BY StoreStands DEF QueueInv
<1>2. RecordsStand
  BY <1>1, NothingRecorded
<1>3. HoldsRow(c) /\ c.item \in Item
  BY Busy
<1>4. Routed(c.item)' <=> Routed(c.item)
  BY <1>1, <1>3, RoutedStands DEF QueueInv, HoldsRow
<1>5. d.pc # "idle" => HoldsRow(d)'
  BY <1>1, <1>3 DEF HoldsRow
<1>6. d.pc # "idle" => FollowsRecord(d)'
  BY <1>4 DEF FollowsRecord
<1> QED BY <1>1, <1>2, <1>5, <1>6, OneConsumerMoves

LEMMA TakeItemKeeps ==
  ASSUME QueueInv, NEW k \in Consumer, NEW x, NEW i \in FirstClaimable(x), TakeItem(k, i)
  PROVE  QueueInv'
<1>1. /\ i \in Item /\ claims[i].token < MaxToken /\ RowTaken(i)
      /\ RowFootprint /\ UNCHANGED <<world, cycle, reconciliations>>
  BY ClaimRowTakes DEF TakeItem, QueueInv, Inv
<1>2. StepIsSound
  BY <1>1, RowStepIsSound DEF QueueInv
<1>3. claims[i] \in Claim
  BY <1>1 DEF QueueInv, Inv, TypeOK
<1>4. PICK d : d = [pc |-> IF claims[i].head = NoHead THEN "unbound" ELSE "bound",
                    item |-> i, token |-> claims[i].token + 1,
                    generation |-> claims[i].generation]
  OBVIOUS
<1>5. consumers' = [consumers EXCEPT ![k] = d] /\ operators' = operators /\ workers' = workers
  BY <1>4 DEF TakeItem, Goes
<1>6. claims[i].token + 1 \in 1 .. MaxToken /\ claims[i].generation \in 1 .. MaxToken + 1
  BY <1>1, <1>3, BoundAssumption DEF Claim
<1>7. /\ d \in ConsumerRow
      /\ d.pc \in {"unbound", "bound"} /\ d.item = i /\ d.token = claims[i].token + 1
      /\ d.generation = claims[i].generation
  BY <1>1, <1>4, <1>6 DEF ConsumerRow, HoldingRow
<1>8. HoldsRow(d)'
  BY <1>1, <1>6, <1>7 DEF HoldsRow, RowTaken
<1>9. FollowsRecord(d)'
  BY <1>7 DEF FollowsRecord
<1>10. NewlyExplained
  BY <1>1, TerminalIsFinal DEF RowTaken, NewlyExplained
<1>11. RecordsStand
  BY <1>1, <1>5, NothingRecorded
<1> QED BY <1>2, <1>5, <1>7, <1>8, <1>9, <1>10, <1>11, OneConsumerMoves

LEMMA ReadTargetHeadKeeps ==
  ASSUME QueueInv, NEW k \in Consumer, ReadTargetHead(k)
  PROVE  QueueInv'
<1>1. PICK c : c = consumers[k]
  OBVIOUS
<1>2. c.pc = "unbound"
  BY <1>1 DEF ReadTargetHead, At
<1>3. /\ c.item \in Item /\ c.token \in 1 .. MaxToken /\ c.generation \in 1 .. MaxToken + 1
      /\ Held(k) = c.item /\ Fence(k) = c.token
  BY <1>1, <1>2, Busy
<1>4. PICK d : d = [pc |-> "read", item |-> c.item, token |-> c.token,
                    generation |-> c.generation, head |-> ItemTarget(c.item)]
  OBVIOUS
<1>5. ItemTarget(c.item) \in 1 .. MaxHead
  BY <1>3, TargetsAreNumbered DEF QueueInv, Inv
<1>6. /\ d \in ConsumerRow
      /\ d.pc = "read" /\ d.item = c.item /\ d.token = c.token /\ d.generation = c.generation
  BY <1>3, <1>4, <1>5 DEF ConsumerRow, HeadedRow
<1>7. /\ consumers' = [consumers EXCEPT ![k] = d]
      /\ UNCHANGED store /\ operators' = operators /\ workers' = workers
  BY <1>1, <1>3, <1>4 DEF ReadTargetHead, Goes
<1> QED BY <1>1, <1>2, <1>6, <1>7, ConsumerGoesOn

(* A consumer that gives up, refused or not. *)
LEMMA GivesUpKeeps ==
  ASSUME QueueInv, NEW k \in Consumer, ~At(k, "idle"), Goes(k, Idle), UNCHANGED store,
         operators' = operators, workers' = workers
  PROVE  QueueInv'
<1>1. PICK c : c = consumers[k]
  OBVIOUS
<1>2. c.pc # "idle"
  BY <1>1 DEF At
<1>3. consumers' = [consumers EXCEPT ![k] = Idle]
  BY DEF Goes
<1> QED BY <1>1, <1>2, <1>3, IdleConsumer, ConsumerGoesOn

LEMMA BindKeeps ==
  ASSUME QueueInv, NEW k \in Consumer, Bind(k)
  PROVE  QueueInv'
<1>1. PICK c : c = consumers[k]
  OBVIOUS
<1>2. c.pc = "read"
  BY <1>1 DEF Bind, At
<1>3. /\ c \in ConsumerRow
      /\ c.item \in Item /\ c.token \in 1 .. MaxToken
      /\ HoldsRow(c) /\ Held(k) = c.item /\ Fence(k) = c.token
  BY <1>1, <1>2, Busy
<1>4. operators' = operators /\ workers' = workers
  BY DEF Bind
<1>5. ASSUME Goes(k, Idle), UNCHANGED store PROVE QueueInv'
  BY <1>1, <1>2, <1>4, <1>5, GivesUpKeeps DEF At
<1>6. ASSUME BindTargetHead(c.item, c.token, c.head), GoesTo(k, "bound") PROVE QueueInv'
  <2>1. c.head \in 1 .. MaxHead
    BY <1>2, <1>3 DEF ConsumerRow, Idle, HoldingRow, HeadedRow, SettlingConsumer
  <2>2. RowFootprint /\ UNCHANGED <<world, cycle, reconciliations>>
    BY <1>3, <1>6, <2>1, BindTargetHeadRow DEF QueueInv, Inv
  <2>3. StepIsSound
    BY <2>2, RowStepIsSound DEF QueueInv
  <2>4. PICK d : d = MovedTo(c, "bound")
    OBVIOUS
  <2>5. consumers' = [consumers EXCEPT ![k] = d]
    BY <1>1, <1>6, <2>4 DEF GoesTo, Goes, MovedTo
  <2>6. /\ d \in ConsumerRow
        /\ d.pc = "bound" /\ d.item = c.item /\ d.token = c.token /\ d.generation = c.generation
    BY <1>2, <1>3, <2>4, MovedConsumer
  <2>7. HoldsRow(c)'
    BY <1>3, <2>3, HoldsRowStays DEF QueueInv
  <2>8. HoldsRow(d)' /\ FollowsRecord(d)'
    BY <2>6, <2>7 DEF HoldsRow, FollowsRecord
  <2>9. NewlyExplained
    <3>1. claims' = Bound(claims, c.item, c.head)
      BY <1>6 DEF BindTargetHead, Bound
    <3>2. claims \in [Item -> Claim]
      BY DEF QueueInv, Inv, TypeOK
    <3>3. /\ \A j \in Item : j # c.item => claims'[j] = claims[j]
          /\ claims'[c.item].state = claims[c.item].state
      BY <1>3, <2>1, <3>1, <3>2, BoundRow
    <3>4. claims[c.item].state = "CLAIMED"
      BY <1>6 DEF BindTargetHead, Authorizes
    <3> QED BY <3>3, <3>4, TerminalIsFinal DEF NewlyExplained
  <2>10. RecordsStand
    BY <1>4, <2>2, NothingRecorded
  <2> QED BY <1>4, <2>3, <2>5, <2>6, <2>8, <2>9, <2>10, OneConsumerMoves
<1>7. \/ BindTargetHead(c.item, c.token, c.head) /\ GoesTo(k, "bound")
      \/ Goes(k, Idle) /\ UNCHANGED store
  BY <1>1, <1>3 DEF Bind
<1> QED BY <1>5, <1>6, <1>7

(* A consumer that is done with its row, which is not decided by it. *)
LEMMA LetsGoKeeps ==
  ASSUME QueueInv, NEW k \in Consumer, Goes(k, Idle), operators' = operators, workers' = workers,
         RowFootprint, UNCHANGED <<world, cycle, reconciliations>>, NewlyExplained
  PROVE  QueueInv'
<1>1. StepIsSound
  BY RowStepIsSound DEF QueueInv
<1>2. RecordsStand
  BY NothingRecorded
<1>3. consumers' = [consumers EXCEPT ![k] = Idle]
  BY DEF Goes
<1> QED BY <1>1, <1>2, <1>3, IdleConsumer, OneConsumerMoves

LEMMA HandOverKeeps ==
  ASSUME QueueInv, NEW k \in Consumer, HandOver(k)
  PROVE  QueueInv'
<1>1. PICK c : c = consumers[k]
  OBVIOUS
<1>2. c.pc = "bound"
  BY <1>1 DEF HandOver, At
<1>3. c.item \in Item /\ c.token \in 1 .. MaxToken /\ Held(k) = c.item /\ Fence(k) = c.token
  BY <1>1, <1>2, Busy
<1>4. operators' = operators /\ workers' = workers /\ Goes(k, Idle)
  BY DEF HandOver
<1>5. ASSUME UNCHANGED store PROVE QueueInv'
  BY <1>1, <1>2, <1>4, <1>5, GivesUpKeeps DEF At
<1>6. ASSUME RouteWorkerClaim(c.item, c.token) PROVE QueueInv'
  <2>1. RowFootprint /\ UNCHANGED <<world, cycle, reconciliations>>
    BY <1>3, <1>6, RouteWorkerClaimRow DEF QueueInv, Inv
  <2>2. NewlyExplained
    <3>1. claims' = Ended(claims, c.item, "ROUTED")
      BY <1>6 DEF RouteWorkerClaim, Ended
    <3>2. claims \in [Item -> Claim] /\ "ROUTED" \in QueueState
      BY DEF QueueInv, Inv, TypeOK, QueueState, ReservedQueueStates
    <3>3. /\ \A j \in Item : j # c.item => claims'[j] = claims[j]
          /\ claims'[c.item].state = "ROUTED"
      BY <1>3, <3>1, <3>2, EndedRow
    <3> QED BY <3>3, TerminalIsFinal DEF NewlyExplained
  <2> QED BY <1>4, <2>1, <2>2, LetsGoKeeps
<1>7. RouteWorkerClaim(c.item, c.token) \/ UNCHANGED store
  BY <1>3 DEF HandOver
<1> QED BY <1>5, <1>6, <1>7

(* Only a state on record, or none, is settled on. *)
LEMMA SettlingKeeps ==
  ASSUME QueueInv, NEW k \in Consumer, NEW c, c = consumers[k], c.pc # "idle", ~Routed(c.item),
         NEW state \in FinalizedStates,
         state \in TerminalQueueStates => Started(k) /\ operators[Lineage(k)] = state,
         Goes(k, Settling(k, state)), UNCHANGED store, operators' = operators, workers' = workers
  PROVE  QueueInv'
<1>1. /\ c.item \in Item /\ c.token \in 1 .. MaxToken /\ c.generation \in 1 .. MaxToken + 1
      /\ Held(k) = c.item /\ Fence(k) = c.token /\ Lineage(k) = <<c.item, c.generation>>
  BY Busy
<1>2. PICK d : d = [pc |-> "settling", item |-> c.item, token |-> c.token,
                    generation |-> c.generation, outcome |-> state]
  OBVIOUS
<1>3. /\ d \in ConsumerRow
      /\ d.pc = "settling" /\ d.item = c.item /\ d.token = c.token
      /\ d.generation = c.generation /\ d.outcome = state
  BY <1>1, <1>2, SettlingFollows
<1>4. consumers' = [consumers EXCEPT ![k] = d]
  BY <1>1, <1>2 DEF Goes, Settling
<1> QED BY <1>1, <1>3, <1>4, ConsumerGoesOn DEF Started

LEMMA LookUpOperatorKeeps ==
  ASSUME QueueInv, NEW k \in Consumer, LookUpOperator(k)
  PROVE  QueueInv'
<1>1. PICK c : c = consumers[k]
  OBVIOUS
<1>2. c.pc = "bound"
  BY <1>1 DEF LookUpOperator, At
<1>3. c \in ConsumerRow /\ Held(k) = c.item
  BY <1>1, <1>2, Busy
<1>4. /\ ~Routed(c.item) /\ UNCHANGED store /\ operators' = operators /\ workers' = workers
  BY <1>3 DEF LookUpOperator
<1>5. CASE Started(k)
  <2>1. Goes(k, Settling(k, QueueStateForOperator(operators[Lineage(k)])))
    BY <1>5 DEF LookUpOperator
  <2>2. PICK state : state = QueueStateForOperator(operators[Lineage(k)])
    OBVIOUS
  <2>3. /\ state \in FinalizedStates
        /\ state \in TerminalQueueStates => operators[Lineage(k)] = state
    BY <2>2, QueueStates
  <2> QED BY <1>1, <1>2, <1>4, <1>5, <2>1, <2>2, <2>3, SettlingKeeps
<1>6. CASE ~Started(k)
  <2>1. GoesTo(k, "running")
    BY <1>6 DEF LookUpOperator
  <2>2. PICK d : d = MovedTo(c, "running")
    OBVIOUS
  <2>3. consumers' = [consumers EXCEPT ![k] = d]
    BY <1>1, <2>1, <2>2 DEF GoesTo, Goes, MovedTo
  <2>4. /\ d \in ConsumerRow
        /\ d.pc = "running" /\ d.item = c.item /\ d.token = c.token /\ d.generation = c.generation
    BY <1>2, <1>3, <2>2, MovedConsumer
  <2> QED BY <1>1, <1>2, <1>4, <2>3, <2>4, ConsumerGoesOn
<1> QED BY <1>5, <1>6

(* A consumer whose run failed goes to look up what is on record. *)
LEMMA FailsKeeps ==
  ASSUME QueueInv, NEW k \in Consumer, At(k, "running"), GoesTo(k, "failed"),
         UNCHANGED store, operators' = operators, workers' = workers
  PROVE  QueueInv'
<1>1. PICK c : c = consumers[k]
  OBVIOUS
<1>2. c.pc = "running"
  BY <1>1 DEF At
<1>3. c \in ConsumerRow /\ FollowsRecord(c)
  BY <1>1, <1>2, Busy
<1>4. ~Routed(c.item)
  BY <1>2, <1>3 DEF FollowsRecord
<1>5. PICK d : d = MovedTo(c, "failed")
  OBVIOUS
<1>6. consumers' = [consumers EXCEPT ![k] = d]
  BY <1>1, <1>5 DEF GoesTo, Goes, MovedTo
<1>7. /\ d \in ConsumerRow
      /\ d.pc = "failed" /\ d.item = c.item /\ d.token = c.token /\ d.generation = c.generation
  BY <1>2, <1>3, <1>5, MovedConsumer
<1> QED BY <1>1, <1>2, <1>4, <1>6, <1>7, ConsumerGoesOn

LEMMA InitializeRootKeeps ==
  ASSUME QueueInv, NEW k \in Consumer, InitializeRoot(k)
  PROVE  QueueInv'
<1>1. PICK c : c = consumers[k]
  OBVIOUS
<1>2. At(k, "running") /\ c.pc = "running"
  BY <1>1 DEF InitializeRoot, At
<1>3. c \in ConsumerRow /\ c.item \in Item /\ HoldsRow(c) /\ FollowsRecord(c)
      /\ Lineage(k) = <<c.item, c.generation>>
  BY <1>1, <1>2, Busy
<1>4. UNCHANGED store /\ workers' = workers
  BY DEF InitializeRoot
<1>5. CASE Started(k)
  BY <1>2, <1>4, <1>5, FailsKeeps DEF InitializeRoot
<1>6. CASE ~Started(k)
  <2>1. GoesTo(k, "started") /\ operators' = [l \in DOMAIN operators \cup {Lineage(k)} |->
                                                IF l = Lineage(k) THEN "OPEN" ELSE operators[l]]
    BY <1>6 DEF InitializeRoot
  <2>2. StepIsSound /\ NewlyExplained /\ claims' = claims /\ reconciliations' = reconciliations
        /\ snapshots' = snapshots
    BY <1>4, StoreStands DEF QueueInv
  <2>3. Lineage(k) \notin DOMAIN operators
    BY <1>6 DEF Started
  <2>4. /\ DOMAIN operators' = DOMAIN operators \cup {Lineage(k)}
        /\ \A l \in DOMAIN operators : operators'[l] = operators[l]
        /\ operators'[Lineage(k)] = "OPEN"
    BY <2>1, <2>3
  <2>5. RecordsStand
    BY <2>2, <2>4 DEF RecordsStand
  <2>6. \A j \in Consumer : At(j, "started") => Lineage(j) \in DOMAIN operators
    <3>1. ASSUME NEW j \in Consumer, At(j, "started") PROVE Lineage(j) \in DOMAIN operators
      <4>1. PICK b : b = consumers[j]
        OBVIOUS
      <4>2. b.pc = "started"
        BY <3>1, <4>1 DEF At
      <4> QED BY <4>1, <4>2, Busy DEF FollowsRecord
    <3> QED BY <3>1
  <2>7. PICK d : d = MovedTo(c, "started")
    OBVIOUS
  <2>8. consumers' = [consumers EXCEPT ![k] = d]
    BY <1>1, <2>1, <2>7 DEF GoesTo, Goes, MovedTo
  <2>9. /\ d \in ConsumerRow
        /\ d.pc = "started" /\ d.item = c.item /\ d.token = c.token /\ d.generation = c.generation
    BY <1>2, <1>3, <2>7, MovedConsumer
  <2>10. HoldsRow(d)'
    BY <1>3, <2>2, <2>9 DEF HoldsRow
  <2>11. FollowsRecord(d)'
    <3>1. ~Routed(c.item)'
      BY <1>2, <1>3, <2>2, RoutedStands DEF QueueInv, HoldsRow, FollowsRecord
    <3> QED BY <1>3, <2>4, <2>9, <3>1 DEF FollowsRecord
  <2>12. \A j \in Consumer : j # k /\ At(j, "started") =>
           /\ operators'[Lineage(j)] = operators[Lineage(j)]
           /\ d.pc = "started" => <<d.item, d.generation>> # Lineage(j)
    BY <1>3, <2>3, <2>4, <2>6, <2>9
  <2> QED BY <1>4, <2>2, <2>5, <2>8, <2>9, <2>10, <2>11, <2>12, OneConsumerMoves
<1> QED BY <1>5, <1>6

LEMMA EndOperatorKeeps ==
  ASSUME QueueInv, NEW k \in Consumer, NEW status, NEW raised \in BOOLEAN,
         EndOperator(k, status, raised)
  PROVE  QueueInv'
<1>1. PICK c : c = consumers[k]
  OBVIOUS
<1>2. At(k, "started") /\ c.pc = "started"
  BY <1>1 DEF EndOperator, At
<1>3. /\ c \in ConsumerRow
      /\ c.item \in Item /\ c.token \in 1 .. MaxToken /\ c.generation \in 1 .. MaxToken + 1
      /\ HoldsRow(c) /\ FollowsRecord(c)
      /\ Held(k) = c.item /\ Fence(k) = c.token /\ Lineage(k) = <<c.item, c.generation>>
  BY <1>1, <1>2, Busy
<1>4. /\ UNCHANGED store /\ workers' = workers
      /\ operators' = [operators EXCEPT ![Lineage(k)] = status]
  BY DEF EndOperator
<1>5. StepIsSound /\ NewlyExplained /\ claims' = claims /\ reconciliations' = reconciliations
      /\ snapshots' = snapshots
  BY <1>4, StoreStands DEF QueueInv
<1>6. Lineage(k) \in DOMAIN operators /\ operators[Lineage(k)] = "OPEN" /\ ~Routed(c.item)
  BY <1>2, <1>3 DEF FollowsRecord
<1>7. /\ DOMAIN operators' = DOMAIN operators
      /\ \A l \in DOMAIN operators : l # Lineage(k) => operators'[l] = operators[l]
      /\ operators'[Lineage(k)] = status
  BY <1>4, <1>6
<1>8. RecordsStand
  BY <1>5, <1>6, <1>7 DEF RecordsStand, TerminalQueueStates
<1>9. \A j \in Consumer : j # k /\ At(j, "started") => operators'[Lineage(j)] = operators[Lineage(j)]
  <2>1. ASSUME NEW j \in Consumer, j # k, At(j, "started")
        PROVE  operators'[Lineage(j)] = operators[Lineage(j)]
    <3>1. Lineage(j) # Lineage(k)
      BY <1>2, <2>1 DEF QueueInv, OneStarter
    <3>2. Lineage(j) \in DOMAIN operators
      <4>1. PICK b : b = consumers[j]
        OBVIOUS
      <4>2. b.pc = "started"
        BY <2>1, <4>1 DEF At
      <4> QED BY <4>1, <4>2, Busy DEF FollowsRecord
    <3> QED BY <1>7, <3>1, <3>2
  <2> QED BY <2>1
<1>10. ~Routed(c.item)'
  BY <1>3, <1>5, <1>6, RoutedStands DEF QueueInv, HoldsRow
<1>11. CASE raised
  <2>1. PICK d : d = MovedTo(c, "failed")
    OBVIOUS
  <2>2. consumers' = [consumers EXCEPT ![k] = d]
    BY <1>1, <1>11, <2>1 DEF EndOperator, GoesTo, Goes, MovedTo
  <2>3. /\ d \in ConsumerRow
        /\ d.pc = "failed" /\ d.item = c.item /\ d.token = c.token /\ d.generation = c.generation
    BY <1>2, <1>3, <2>1, MovedConsumer
  <2>4. HoldsRow(d)'
    BY <1>3, <1>5, <2>3 DEF HoldsRow
  <2>5. FollowsRecord(d)'
    BY <1>10, <2>3 DEF FollowsRecord
  <2> QED BY <1>4, <1>5, <1>8, <1>9, <2>2, <2>3, <2>4, <2>5, OneConsumerMoves
<1>12. CASE ~raised
  <2>1. PICK state : state = QueueStateForOperator(status)
    OBVIOUS
  <2>2. state \in FinalizedStates /\ (state \in TerminalQueueStates => state = status)
    BY <2>1, QueueStates
  <2>3. PICK d : d = [pc |-> "settling", item |-> c.item, token |-> c.token,
                      generation |-> c.generation, outcome |-> state]
    OBVIOUS
  <2>4. /\ d \in ConsumerRow
        /\ d.pc = "settling" /\ d.item = c.item /\ d.token = c.token
        /\ d.generation = c.generation /\ d.outcome = state
    BY <1>3, <2>2, <2>3, SettlingFollows
  <2>5. consumers' = [consumers EXCEPT ![k] = d]
    BY <1>1, <1>3, <1>12, <2>1, <2>3 DEF EndOperator, Goes, Settling
  <2>6. HoldsRow(d)'
    BY <1>3, <1>5, <2>4 DEF HoldsRow
  <2>7. FollowsRecord(d)'
    BY <1>3, <1>6, <1>7, <1>10, <2>2, <2>4 DEF FollowsRecord
  <2> QED BY <1>4, <1>5, <1>8, <1>9, <2>4, <2>5, <2>6, <2>7, OneConsumerMoves
<1> QED BY <1>11, <1>12

LEMMA RecoverKeeps ==
  ASSUME QueueInv, NEW k \in Consumer, Recover(k)
  PROVE  QueueInv'
<1>1. PICK c : c = consumers[k]
  OBVIOUS
<1>2. c.pc = "failed"
  BY <1>1 DEF Recover, At
<1>3. FollowsRecord(c)
  BY <1>1, <1>2, Busy
<1>4. ~Routed(c.item) /\ UNCHANGED store /\ operators' = operators /\ workers' = workers
  BY <1>2, <1>3 DEF FollowsRecord, Recover
<1>5. PICK state : state = IF Started(k) THEN QueueStateForOperator(operators[Lineage(k)])
                           ELSE "FAILED_RETRYABLE"
  OBVIOUS
<1>6. Goes(k, Settling(k, state))
  BY <1>5 DEF Recover
<1>7. /\ state \in FinalizedStates
      /\ state \in TerminalQueueStates => Started(k) /\ operators[Lineage(k)] = state
  <2>1. CASE Started(k)
    BY <1>5, <2>1, QueueStates
  <2>2. CASE ~Started(k)
    BY <1>5, <2>2 DEF FinalizedStates, TerminalQueueStates
  <2> QED BY <2>1, <2>2
<1> QED BY <1>1, <1>2, <1>4, <1>6, <1>7, SettlingKeeps

(* What is settled under the fence is the attempt the consumer ran. *)
LEMMA SettleKeeps ==
  ASSUME QueueInv, NEW k \in Consumer, Settle(k)
  PROVE  QueueInv'
<1>1. PICK c : c = consumers[k]
  OBVIOUS
<1>2. c.pc = "settling"
  BY <1>1 DEF Settle, At
<1>3. /\ c \in ConsumerRow
      /\ c.item \in Item /\ c.token \in 1 .. MaxToken
      /\ HoldsRow(c) /\ FollowsRecord(c) /\ Held(k) = c.item /\ Fence(k) = c.token
  BY <1>1, <1>2, Busy
<1>4. operators' = operators /\ workers' = workers /\ Goes(k, Idle)
  BY DEF Settle
<1>5. ASSUME UNCHANGED store PROVE QueueInv'
  BY <1>1, <1>2, <1>4, <1>5, GivesUpKeeps DEF At
<1>6. ASSUME Finalize(c.item, c.token, c.outcome) PROVE QueueInv'
  <2>1. c.outcome \in FinalizedStates
    BY <1>2, <1>3 DEF ConsumerRow, Idle, HoldingRow, HeadedRow, SettlingConsumer
  <2>2. ~Routed(c.item)
    BY <1>2, <1>3 DEF FollowsRecord
  <2>3. RowFootprint /\ UNCHANGED <<world, cycle, reconciliations>>
    BY <1>3, <1>6, <2>1, <2>2, FinalizeRow DEF QueueInv, Inv
  <2>4. NewlyExplained
    <3>1. claims' = Ended(claims, c.item, c.outcome)
      BY <1>6 DEF Finalize, Ended
    <3>2. claims \in [Item -> Claim] /\ c.outcome \in QueueState
      BY <2>1 DEF QueueInv, Inv, TypeOK, QueueState, FinalizedStates, ReservedQueueStates
    <3>3. /\ \A j \in Item : j # c.item => claims'[j] = claims[j]
          /\ claims'[c.item].state = c.outcome
          /\ claims'[c.item].generation = claims[c.item].generation
      BY <1>3, <3>1, <3>2, EndedRow
    <3>4. c.generation = claims[c.item].generation
      BY <1>3, <1>6 DEF HoldsRow, Finalize, Authorizes
    <3>5. c.outcome \in TerminalQueueStates => Explained(c.item)'
      BY <1>2, <1>3, <1>4, <3>3, <3>4 DEF FollowsRecord, Explained
    <3> QED BY <3>3, <3>5 DEF NewlyExplained
  <2> QED BY <1>4, <2>3, <2>4, LetsGoKeeps
<1>7. Finalize(c.item, c.token, c.outcome) \/ UNCHANGED store
  BY <1>1, <1>3 DEF Settle
<1> QED BY <1>5, <1>6, <1>7

LEMMA ConsumerStepKeeps ==
  ASSUME QueueInv, NEW k \in Consumer, ConsumerStep(k)
  PROVE  QueueInv'
  BY TakeItemKeeps, ReadTargetHeadKeeps, BindKeeps, HandOverKeeps, LookUpOperatorKeeps,
     InitializeRootKeeps, EndOperatorKeeps, RecoverKeeps, SettleKeeps DEF ConsumerStep

---------------------------------------------------------------------------
(* What a worker does *)

LEMMA WorkerBusy ==
  ASSUME QueueInv, NEW w \in Worker, NEW b, b = workers[w], b.pc # "idle"
  PROVE  /\ b \in WorkerRow
         /\ b.route \in Envelope /\ b.route \in DOMAIN routes /\ b.token \in 1 .. MaxDelivery
         /\ b.pc = "answering" => b.class \in ReceiptClass
         /\ Delivery(w) = b.route
<1>1. b \in WorkerRow
  BY DEF QueueInv, ProcessesTyped
<1>2. Delivery(w) \in DOMAIN routes
  BY DEF QueueInv, WorkersHold, WorkerAt
<1> QED BY <1>1, <1>2 DEF WorkerRow, Idle, Delivery

(* A step in which worker w moves, to a row b. *)
LEMMA OneWorkerMoves ==
  ASSUME QueueInv, StepIsSound, NEW w \in Worker, NEW b \in WorkerRow,
         workers' = [workers EXCEPT ![w] = b],
         b.pc # "idle" => b.route \in DOMAIN routes',
         consumers' = consumers, operators' = operators,
         reconciliations' = reconciliations, NewlyExplained
  PROVE  QueueInv'
<1>1. workers \in [Worker -> WorkerRow]
  BY DEF QueueInv, ProcessesTyped
<1>2. workers' \in [Worker -> WorkerRow] /\ workers'[w] = b
      /\ \A v \in Worker : v # w => workers'[v] = workers[v]
  BY <1>1
<1>3. \A r \in DOMAIN routes : r \in DOMAIN routes'
  BY DEF StepIsSound, RowFootprint
<1>4. WorkersHold'
  BY <1>2, <1>3 DEF QueueInv, WorkersHold, WorkerAt, Delivery
<1> QED BY <1>2, <1>4, NoConsumerMoves

(* A worker that goes on without a call of the store. *)
LEMMA WorkerGoesOn ==
  ASSUME QueueInv, NEW w \in Worker, NEW b \in WorkerRow, WorkerGoes(w, b),
         b.pc # "idle" => b.route \in DOMAIN routes,
         UNCHANGED store, consumers' = consumers, operators' = operators
  PROVE  QueueInv'
<1>1. /\ StepIsSound /\ NewlyExplained /\ routes' = routes /\ reconciliations' = reconciliations
  BY StoreStands DEF QueueInv
<1>2. workers' = [workers EXCEPT ![w] = b]
  BY DEF WorkerGoes
<1> QED BY <1>1, <1>2, OneWorkerMoves

LEMMA IdleWorker == Idle \in WorkerRow /\ Idle.pc = "idle"
  BY DEF Idle, WorkerRow

(* A scan settles only rows of routed work. *)
LEMMA ScanExplains ==
  ASSUME Inv, NEW scanned, NEW given, Scan(scanned, given)
  PROVE  NewlyExplained
<1> SUFFICES ASSUME NEW i \in Item, claims'[i] # claims[i]
             PROVE  Routed(i)
  BY DEF NewlyExplained
<1>1. claims'[i] = ScannedClaim(i, scanned)
  BY DEF Scan
<1>2. claims[i].state = "ROUTED"
  BY <1>1 DEF ScannedClaim
<1>3. <<i, claims[i].token>> \in DOMAIN routes
  BY <1>2 DEF Inv, RowInv, OutboxMirrorsQueue, RoutesInState
<1>4. <<i, claims[i].token>>[1] = i
  OBVIOUS
<1> QED BY <1>3, <1>4 DEF Inv, RowInv, RowsAreCommitted

LEMMA OfferedAreOpen ==
  ASSUME NEW x
  PROVE  OfferedUnder(x) \in SUBSET RoutesInState({"PENDING", "CLAIMED"})
  BY DEF OfferedUnder, Offered

LEMMA TakeDeliveryKeeps ==
  ASSUME QueueInv, NEW w \in Worker, NEW offered \in SUBSET RoutesInState({"PENDING", "CLAIMED"}),
         NEW r \in offered, NEW before, TakeDelivery(w, offered, r, before)
  PROVE  QueueInv'
<1>1. DeliverRoute(offered, r, before) /\ consumers' = consumers /\ operators' = operators
  BY DEF TakeDelivery
<1>2. RowFootprint /\ UNCHANGED <<world, cycle, reconciliations>>
  BY <1>1, DeliverRouteRows DEF QueueInv, Inv
<1>3. StepIsSound /\ NewlyExplained
  BY <1>1, <1>2, RowStepIsSound, ScanExplains DEF QueueInv, DeliverRoute
<1>4. r \in DOMAIN routes
  BY DEF RoutesInState
<1>5. routes[r].token < MaxDelivery
  BY <1>1, <1>4, RowsHaveTypes, DeliveryLeft DEF DeliverRoute, QueueInv, Inv
<1>6. r \in Envelope /\ routes[r] \in Route
  BY <1>4 DEF QueueInv, Inv, TypeOK, Envelope
<1>7. routes[r].token + 1 \in 1 .. MaxDelivery
  BY <1>5, <1>6, BoundAssumption DEF Route
<1>8. PICK b : b = [pc |-> "reading", route |-> r, token |-> routes[r].token + 1]
  OBVIOUS
<1>9. b \in WorkerRow /\ b.route = r
  BY <1>6, <1>7, <1>8 DEF WorkerRow
<1>10. workers' = [workers EXCEPT ![w] = b]
  BY <1>8 DEF TakeDelivery, WorkerGoes
<1>11. r \in DOMAIN routes'
  BY <1>2, <1>4 DEF RowFootprint
<1> QED BY <1>1, <1>2, <1>3, <1>9, <1>10, <1>11, OneWorkerMoves

LEMMA ReadProviderKeeps ==
  ASSUME QueueInv, NEW w \in Worker, ReadProvider(w)
  PROVE  QueueInv'
<1>1. PICK a : a = workers[w]
  OBVIOUS
<1>2. a.pc = "reading"
  BY <1>1 DEF ReadProvider, WorkerAt
<1>3. a.route \in Envelope /\ a.route \in DOMAIN routes /\ a.token \in 1 .. MaxDelivery
      /\ Delivery(w) = a.route
  BY <1>1, <1>2, WorkerBusy
<1>4. PICK exact \in BOOLEAN : exact = (ItemSubject(Delivery(w)[1]) \in heads)
  <2>1. (ItemSubject(Delivery(w)[1]) \in heads) \in BOOLEAN
    BY SMT
  <2>2. PICK exact : exact = (ItemSubject(Delivery(w)[1]) \in heads)
    OBVIOUS
  <2>3. exact \in BOOLEAN
    BY <2>1, <2>2
  <2> QED BY <2>2, <2>3
<1>5. PICK b : b = [pc |-> "halfway", route |-> a.route, token |-> a.token, exact |-> exact]
  OBVIOUS
<1>6. b \in WorkerRow /\ b.route = a.route
  BY <1>3, <1>5 DEF WorkerRow
<1>7. WorkerGoes(w, b)
  BY <1>1, <1>3, <1>4, <1>5 DEF ReadProvider
<1> QED BY <1>3, <1>6, <1>7, WorkerGoesOn DEF ReadProvider

LEMMA AnsweringRow ==
  ASSUME NEW r \in Envelope, NEW d \in 1 .. MaxDelivery, NEW class \in ReceiptClass, NEW b,
         b = [pc |-> "answering", route |-> r, token |-> d, class |-> class]
  PROVE  b \in WorkerRow /\ b.route = r
  BY DEF WorkerRow

LEMMA ReadTargetKeeps ==
  ASSUME QueueInv, NEW w \in Worker, ReadTarget(w)
  PROVE  QueueInv'
<1>1. PICK a : a = workers[w]
  OBVIOUS
<1>2. a.pc = "halfway"
  BY <1>1 DEF ReadTarget, WorkerAt
<1>3. a.route \in Envelope /\ a.route \in DOMAIN routes /\ a.token \in 1 .. MaxDelivery
      /\ Delivery(w) = a.route
  BY <1>1, <1>2, WorkerBusy
<1>4. PICK class \in ReceiptClass :
        WorkerGoes(w, [pc |-> "answering", route |-> Delivery(w), token |-> workers[w].token,
                       class |-> class])
  BY DEF ReadTarget, ReceiptClass
<1>5. PICK b : b = [pc |-> "answering", route |-> a.route, token |-> a.token, class |-> class]
  OBVIOUS
<1>6. b \in WorkerRow /\ b.route = a.route
  BY <1>3, <1>5, AnsweringRow
<1>7. WorkerGoes(w, b)
  BY <1>1, <1>3, <1>4, <1>5
<1> QED BY <1>3, <1>6, <1>7, WorkerGoesOn DEF ReadTarget

LEMMA FailReadKeeps ==
  ASSUME QueueInv, NEW w \in Worker, FailRead(w)
  PROVE  QueueInv'
<1>1. PICK a : a = workers[w]
  OBVIOUS
<1>2. a.pc \in {"reading", "halfway"}
  BY <1>1 DEF FailRead, WorkerAt
<1>3. a.route \in Envelope /\ a.route \in DOMAIN routes /\ a.token \in 1 .. MaxDelivery
      /\ Delivery(w) = a.route
  BY <1>1, <1>2, WorkerBusy
<1>4. PICK b : b = [pc |-> "answering", route |-> a.route, token |-> a.token,
                    class |-> "FAILED_RETRYABLE"]
  OBVIOUS
<1>5. "FAILED_RETRYABLE" \in ReceiptClass
  BY DEF ReceiptClass
<1>6. b \in WorkerRow /\ b.route = a.route
  BY <1>3, <1>4, <1>5, AnsweringRow
<1>7. WorkerGoes(w, b)
  BY <1>1, <1>3, <1>4 DEF FailRead
<1> QED BY <1>3, <1>6, <1>7, WorkerGoesOn DEF FailRead

LEMMA AnswerKeeps ==
  ASSUME QueueInv, NEW w \in Worker, Answer(w)
  PROVE  QueueInv'
<1>1. PICK a : a = workers[w]
  OBVIOUS
<1>2. a.pc = "answering"
  BY <1>1 DEF Answer, WorkerAt
<1>3. a.route \in DOMAIN routes /\ a.token \in 1 .. MaxDelivery /\ a.class \in ReceiptClass
      /\ Delivery(w) = a.route
  BY <1>1, <1>2, WorkerBusy
<1>4. WorkerGoes(w, Idle) /\ consumers' = consumers /\ operators' = operators
  BY DEF Answer
<1>5. ASSUME UNCHANGED store PROVE QueueInv'
  BY <1>4, <1>5, IdleWorker, WorkerGoesOn
<1>6. ASSUME RecordReceipt(a.route, a.token, a.class) PROVE QueueInv'
  <2>1. a.token \in 0 .. MaxDelivery
    BY <1>3, BoundAssumption
  <2>2. RowFootprint /\ UNCHANGED <<world, cycle, reconciliations>>
    BY <1>3, <1>6, <2>1, RecordReceiptRoute DEF QueueInv, Inv
  <2>3. StepIsSound
    BY <2>2, RowStepIsSound DEF QueueInv
  <2>4. NewlyExplained
    BY <1>6 DEF RecordReceipt, NewlyExplained
  <2>5. workers' = [workers EXCEPT ![w] = Idle]
    BY <1>4 DEF WorkerGoes
  <2> QED BY <1>4, <2>2, <2>3, <2>4, <2>5, IdleWorker, OneWorkerMoves
<1>7. RecordReceipt(a.route, a.token, a.class) \/ UNCHANGED store
  BY <1>1, <1>3 DEF Answer
<1> QED BY <1>5, <1>6, <1>7

LEMMA FindNothingKeeps ==
  ASSUME QueueInv, NEW w \in Worker, NEW offered \in SUBSET RoutesInState({"PENDING", "CLAIMED"}),
         FindNothing(w, offered)
  PROVE  QueueInv'
<1>1. DeliverNothing(offered) /\ consumers' = consumers /\ operators' = operators /\ workers' = workers
  BY DEF FindNothing
<1>2. RowFootprint /\ UNCHANGED <<world, cycle, reconciliations>>
  BY <1>1, DeliverNothingRows DEF QueueInv, Inv
<1>3. StepIsSound /\ NewlyExplained
  BY <1>1, <1>2, RowStepIsSound, ScanExplains DEF QueueInv, DeliverNothing
<1>4. WorkersHold'
  BY <1>1, <1>3, WorkersStillHold DEF QueueInv
<1>5. workers' \in [Worker -> WorkerRow]
  BY <1>1 DEF QueueInv, ProcessesTyped
<1> QED BY <1>1, <1>2, <1>3, <1>4, <1>5, NoConsumerMoves

LEMMA WorkerStepKeeps ==
  ASSUME QueueInv, NEW w \in Worker, WorkerStep(w)
  PROVE  QueueInv'
<1>1. ASSUME NEW x,
             \/ \E r \in OfferedUnder(x) : \E before \in SUBSET OfferedUnder(x) :
                  TakeDelivery(w, OfferedUnder(x), r, before)
             \/ FindNothing(w, OfferedUnder(x))
      PROVE  QueueInv'
  <2>1. PICK offered \in SUBSET RoutesInState({"PENDING", "CLAIMED"}) :
          \/ \E r \in offered : \E before : TakeDelivery(w, offered, r, before)
          \/ FindNothing(w, offered)
    BY <1>1, OfferedAreOpen
  <2> QED BY <2>1, TakeDeliveryKeeps, FindNothingKeeps
<1> QED BY <1>1, ReadProviderKeeps, ReadTargetKeeps, FailReadKeeps, AnswerKeeps DEF WorkerStep

---------------------------------------------------------------------------
(* Faults, and what else moves *)

LEMMA LapseKeeps ==
  ASSUME QueueInv, consumers' = consumers, operators' = operators, workers' = workers,
         \/ \E i \in InState({"CLAIMED"}) : LapseClaim(i)
         \/ \E r \in RoutesInState({"CLAIMED"}) : LapseDelivery(r)
  PROVE  QueueInv'
<1>1. StepIsSound
  BY LapseIsSound DEF QueueInv
<1>2. reconciliations' = reconciliations
  BY DEF LapseClaim, LapseDelivery
<1>3. NewlyExplained
  <2>1. ASSUME NEW i \in InState({"CLAIMED"}), LapseClaim(i)
        PROVE  NewlyExplained
    <3>1. i \in Item /\ claims[i].state = "CLAIMED"
      BY DEF InState
    <3>2. claims' = Lapsed(claims, i) /\ claims \in [Item -> Claim]
      BY <2>1 DEF LapseClaim, Lapsed, QueueInv, Inv, TypeOK
    <3>3. /\ \A j \in Item : j # i => claims'[j] = claims[j]
          /\ claims'[i].state = claims[i].state
      BY <3>1, <3>2, LapsedRow
    <3> QED BY <3>1, <3>3, TerminalIsFinal DEF NewlyExplained
  <2>2. ASSUME NEW r, LapseDelivery(r)
        PROVE  NewlyExplained
    BY <2>2 DEF LapseDelivery, NewlyExplained
  <2> QED BY <2>1, <2>2
<1>4. WorkersHold'
  BY <1>1, WorkersStillHold DEF QueueInv
<1>5. workers' \in [Worker -> WorkerRow]
  BY DEF QueueInv, ProcessesTyped
<1> QED BY <1>1, <1>2, <1>3, <1>4, <1>5, NoConsumerMoves

LEMMA FaultStepKeeps ==
  ASSUME QueueInv, FaultStep
  PROVE  QueueInv'
<1>1. ASSUME NEW k \in Consumer, StopConsumer(k) PROVE QueueInv'
  BY <1>1, GivesUpKeeps DEF StopConsumer
<1>2. ASSUME NEW k \in Consumer, RaiseBeforeRoot(k) PROVE QueueInv'
  BY <1>2, FailsKeeps DEF RaiseBeforeRoot
<1>3. ASSUME NEW w \in Worker, StopWorker(w) PROVE QueueInv'
  BY <1>3, IdleWorker, WorkerGoesOn DEF StopWorker
<1>4. ASSUME NEW i \in InState({"CLAIMED"}), OverrunClaim(i) PROVE QueueInv'
  BY <1>4, LapseKeeps DEF OverrunClaim
<1>5. ASSUME NEW r \in RoutesInState({"CLAIMED"}), OverrunDelivery(r) PROVE QueueInv'
  BY <1>5, LapseKeeps DEF OverrunDelivery
<1> QED BY <1>1, <1>2, <1>3, <1>4, <1>5 DEF FaultStep

LEMMA ExpireStepKeeps ==
  ASSUME QueueInv, ExpireStep
  PROVE  QueueInv'
<1>1. ASSUME NEW i \in InState({"CLAIMED"}), ExpireClaim(i) PROVE QueueInv'
  BY <1>1, LapseKeeps DEF ExpireClaim
<1>2. ASSUME NEW r \in RoutesInState({"CLAIMED"}), ExpireDelivery(r) PROVE QueueInv'
  BY <1>2, LapseKeeps DEF ExpireDelivery
<1> QED BY <1>1, <1>2 DEF ExpireStep

(* Other steps leave the processes alone, and a reconciler's are on record. *)
LEMMA OtherStepKeeps ==
  ASSUME QueueInv, OtherStep
  PROVE  QueueInv'
<1>1. consumers' = consumers /\ workers' = workers /\ operators' = operators
  BY DEF OtherStep
<1>2. StepIsSound
  BY CycleStepIsSound, MoveIsSound, ReconcileStepIsSound DEF OtherStep, QueueInv
<1>3. reconciliations \subseteq reconciliations'
  <2>1. reconciliations \subseteq reconciliations' \/ reconciliations' = reconciliations
    BY DEF OtherStep, CycleStep, CollectObservations, PlanCycle, CommitCycle, MoveProvider,
           MoveTarget, ReconcileStep, Reconcile
  <2> QED BY <2>1
<1>4. NewlyExplained
  <2>1. CASE claims' = claims
    BY <2>1 DEF NewlyExplained
  <2>2. ASSUME NEW i \in InState({"OUTCOME_UNKNOWN", "ROUTED"}), NEW t \in 1 .. MaxToken,
               NEW resolution \in Resolution, NEW retryAllowed \in BOOLEAN,
               Reconcile(i, t, resolution, retryAllowed)
        PROVE  NewlyExplained
    <3>1. i \in Item /\ claims[i].token = t
      BY <2>2 DEF InState, Reconcile
    <3>2. [item |-> i, token |-> t, resolution |-> resolution] \in reconciliations'
      BY <2>2 DEF Reconcile
    <3>3. \A j \in Item : j # i => claims'[j] = claims[j]
      <4>1. claims \in [Item -> Claim]
        BY DEF QueueInv, Inv, TypeOK
      <4> QED BY <2>2, <4>1 DEF Reconcile
    <3>4. ASSUME claims'[i].state \in TerminalQueueStates PROVE claims'[i].token = t
      <4>1. RowMoves(i)
        BY <1>2, <3>1 DEF StepIsSound, RowFootprint
      <4>2. ~RowTaken(i)
        BY <3>4, TerminalIsFinal DEF RowTaken
      <4> QED BY <3>1, <4>1, <4>2
              DEF RowMoves, SameFence, RowKept, RowEnded, RowRouted, RowDecided, RowReleased
    <3>5. claims'[i].state \in TerminalQueueStates => Explained(i)'
      BY <3>2, <3>4 DEF Explained
    <3> QED BY <3>3, <3>5 DEF NewlyExplained
  <2>3. claims' = claims \/ ReconcileStep
    BY DEF OtherStep, CycleStep, CollectObservations, PlanCycle, CommitCycle, MoveProvider, MoveTarget
  <2> QED BY <2>1, <2>2, <2>3 DEF ReconcileStep, RetryReadings
<1>5. WorkersHold'
  BY <1>1, <1>2, WorkersStillHold DEF QueueInv
<1>6. workers' \in [Worker -> WorkerRow]
  BY <1>1 DEF QueueInv, ProcessesTyped
<1> QED BY <1>1, <1>2, <1>3, <1>4, <1>5, <1>6, NoConsumerMoves

LEMMA QueueStandsStill ==
  ASSUME QueueInv, UNCHANGED queueVars
  PROVE  QueueInv'
<1>1. UNCHANGED store /\ consumers' = consumers /\ workers' = workers /\ operators' = operators
  BY DEF queueVars, vars, store, world, cycle
<1>2. StepIsSound /\ NewlyExplained /\ reconciliations' = reconciliations
  BY <1>1, StoreStands DEF QueueInv
<1>3. WorkersHold'
  BY <1>1, <1>2, WorkersStillHold DEF QueueInv
<1>4. workers' \in [Worker -> WorkerRow]
  BY <1>1 DEF QueueInv, ProcessesTyped
<1> QED BY <1>1, <1>2, <1>3, <1>4, NoConsumerMoves

LEMMA QueueInvHoldsAtFirst ==
  ASSUME QueueInit
  PROVE  QueueInv
<1>1. Inv
  BY InvHoldsAtFirst DEF QueueInit
<1>2. \A k \in Consumer : At(k, "idle")
  BY IdleConsumer DEF QueueInit, At
<1>3. \A w \in Worker : WorkerAt(w, "idle")
  BY IdleWorker DEF QueueInit, WorkerAt
<1>4. ProcessesTyped
  BY IdleConsumer, IdleWorker DEF QueueInit, ProcessesTyped
<1>5. ConsumersHold /\ WorkersHold
  BY <1>2, <1>3 DEF ConsumersHold, WorkersHold
<1>6. OneStarter
  BY <1>2 DEF OneStarter, At
<1>7. QueueFollowsOperator
  <2>1. \A i \in Item : claims[i].state = "NONE"
    BY DEF QueueInit, Init, NoClaim
  <2> QED BY <2>1, TerminalIsFinal DEF QueueFollowsOperator, InState
<1> QED BY <1>1, <1>4, <1>5, <1>6, <1>7 DEF QueueInv

---------------------------------------------------------------------------
(* Theorems *)

(* The invariant of the queue and its processes holds throughout. *)
THEOREM QueueInvariant == QueueSpec => []QueueInv
<1>1. QueueInit => QueueInv
  BY QueueInvHoldsAtFirst
<1>2. QueueInv /\ [QueueNext]_queueVars => QueueInv'
  BY ConsumerStepKeeps, WorkerStepKeeps, FaultStepKeeps, ExpireStepKeeps, OtherStepKeeps,
     QueueStandsStill DEF QueueNext
<1> QED BY <1>1, <1>2, PTL DEF QueueSpec

(* No late, repeated or failed consumption makes an item terminal on its   *)
(* own: what the queue says of an inspection is what its record says,      *)
(* unless a reconciler decided it.                                         *)
THEOREM QueueSaysWhatOperatorSays == QueueSpec => []QueueFollowsOperator
<1>1. QueueInv => QueueFollowsOperator
  BY DEF QueueInv
<1> QED BY <1>1, QueueInvariant, PTL

(* The processes that consume the queue and answer its routes are callers  *)
(* under which everything the store promises holds.                        *)
THEOREM ConsumersKeepTheStore ==
  QueueSpec => [](/\ SameSubjectIsExclusive
                  /\ OutboxMirrorsQueue
                  /\ ReceiptsDecide
                  /\ NoChangeIsMissed)
<1>1. QueueInv => SameSubjectIsExclusive /\ OutboxMirrorsQueue /\ ReceiptsDecide /\ NoChangeIsMissed
  BY DEF QueueInv, Inv, RowInv, CycleInv
<1> QED BY <1>1, QueueInvariant, PTL
=============================================================================
