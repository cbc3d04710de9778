# Project Runner: TLA+ models and proofs

Project Runner derives work units from a frontier of issues, admits them
durably, runs them through a backend, verifies what was observed, and leaves
enough behind for a restarted process to know what happened.  The models here
are about that last promise: which process may move which work unit, when, and
what the records say afterwards, whatever the interleaving of processes, their
clocks, their crashes and the reconciliations that follow.

Paths are relative to the repository root `src/`; `runner/x.py` is the package.

## 1. Inventory

### 1.1 Components

| component | source | state it keeps | operations that change it |
|---|---|---|---|
| Durable execution store | `runner/durable_dispatch.py` | SQLite: `execution_attempts`, `execution_verifications`, `execution_reconciliations`, plus the three tables below | `initialize_root`, `admit`, `recover_claim_only_root`, `record_result`, `record_verification`, `begin_verification`, `finalize_terminal_verification`, `reconcile_admitted` |
| Recursive work store | `runner/recursive_state.py` | `recursive_work_state` (status, generation per lineage and fingerprint) | `put_initial`, `compare_and_swap_status`, `finalize_terminal_status` |
| Lease and budget stores | `runner/persistent_state.py` | `leases` (holder, fencing token, expiry, completed per fingerprint), `lineage_budgets` | `claim`, `heartbeat`, `release`, `complete`; `put_initial`, `compare_and_swap` |
| Recovery | `runner/recovery.py` | none (reads the tables) | `load_recovery_snapshots`, `reverify_recovery_snapshot` |
| Operator inspection run | `runner/operator.py`, `m6_github.py`, `verify.py` | process-local program counter, the lease it was given | `run_durable_github_read_inspection`, `verify_observed_attempt` |
| Recursive child admission | `runner/recursive_admission.py`, `decompose.py`, `budgets.py`, `capabilities.py` | parent and child budgets and work rows | `commit_child` |
| Legacy and in-memory stores | `runner/sqlite_state.py`, `leases.py`, `dispatch.py` | leases, budgets | the older forms of the same operations |
| Portfolio cycle and work queue | `runner/portfolio.py`, `queue_consumer.py` | snapshots with the frontiers they list and queue, queue claims, reconciliations | `commit_cycle`, `claim_next`, `bind_target_head`, `finalize`, `route_worker_claim`, `reconcile`; `consume_next_queued_read_only_work` calls them |
| Worker routing | `runner/worker_routing.py`, `reference_worker.py` | route outbox, delivery claims, receipts | `enqueue`, `claim_next`, `record_receipt`; `run_reference_read_worker_once` calls them |
| Execution promotion | `runner/execution_promotion.py` | promotions, authority, review receipts | `promote_claimed_to_running`, `execute_promoted` |
| GitHub source write | `runner/promoted_github.py`, `promoted_github_runtime.py`, `github_backend.py` | remote refs | the write, its finalization, its reconciliation |
| Portfolio planning | `runner/portfolio_advancement.py`, `portfolio_wave_scheduler.py`, `portfolio_operator_binding.py`, `portfolio_corpus.py` | none (pure) | wave admission, binding |
| Bound-plan claim bridge | `runner/portfolio_operator_bridge.py` | none of its own | calls `initialize_root`, `admit`, `recover_claim_only_root` |
| Frontier derivation | `runner/propagate.py`, `graph.py`, `frontier.py`, `dedup.py`, `prioritize.py`, `collisions.py`, `currentness.py` | none (pure) | deduplication, ranking, collision groups |
| Task supervisor and monitor | `runner/task_supervisor.py`, `task_monitor.py` | task records, heartbeats | run, finish, orphan reconciliation |
| Registries, models, schemas | `runner/registry.py`, `models.py`, `schema.py`, `work_units.py`, `backends.py` | immutable data | none |
| Command line and exports | `runner/cli.py`, `blotter_export.py`, `temporal_preview.py` | none | none |

### 1.2 How they interact

All durable components share SQLite files, and each operation is one
`BEGIN IMMEDIATE` transaction: SQLite serialises them, and a process that dies
inside one leaves nothing of it.  What is *not* atomic is a run: the operator
initialises, admits, moves the work to `RUNNING`, calls the backend, records the
result, moves the work to `VERIFYING`, verifies and finalises in separate
transactions, with network calls between them.  Between any two, the lease may
expire, another process may be admitted under the next fencing token, or a
reconciler may decide that nothing happened.

Three pieces of state tie the components together:

* the **lease** of a work fingerprint.  The table's key is the fingerprint alone,
  so the lineages that root the same work share one lease, although work,
  budget and journal rows belong to a lineage;
* the **fencing token**, the lease's counter, which also names the execution
  attempt in the journal (queue claims and deliveries have their own);
* the **generations** of work and budget rows, on which every operation is a
  compare-and-swap.

The queue is beside that journal, in tables of its own.  A currentness cycle
reads the registered refs, reads its predecessor snapshot and the unresolved
work, and commits a new snapshot; consumers claim the frontiers it queued, and
either run the operator themselves, under a lineage derived from snapshot,
frontier and attempt generation, or hand the work to a worker through the
outbox.  No transaction spans the queue and the journal: `finalize` of a queue
row follows the operator's run, and a consumer that died in between is replaced
by one that looks the lineage up.

Promotion goes the other way: it takes work the bridge claimed and fenced
(`CLAIMED`), moves it to `RUNNING` with a signed review and grants, and calls a
backend that creates a commit and asks GitHub to move the branch if its head is
still the one the claim was made at.  That request is the only effect outside the
database, and the only one that outlives the process.

### 1.3 What is hard, and what makes each component correct

| component | hard behaviour | what makes it correct |
|---|---|---|
| durable store, work store, lease store | two owners of one lease; a clock read before the transaction; a crash between two transactions; a late worker meeting a reconciler; replayed calls | a token names one attempt; a decided attempt is the newest, and its verdict is the work's status; nothing moves under a dead fence; the journal only grows; quota is taken exactly once per admission |
| recovery | partial runs of every length | everything unfinished is listed, with the truth about its fence |
| operator run | network calls under a lease that may expire | the store's guarantees hold of a run cut off anywhere; a run that keeps its lease ends |
| recursive admission | children admitted from stale snapshots | a tree never spends more than its root had |
| queue, routing | claims and deliveries that expire; receipts that arrive late; cycles, consumers and reconcilers that race; shared collision keys | no two live reservations of one subject share a key; the outbox and the queue agree; a decision is made once, from evidence of the attempt it is about; work is not lost with the process that holds it |
| promotion, source write | head, review and authority checked before a call; answers lost after it | an effect is promoted once, observed before it is reported, and never repeated while unknown |
| task monitor | a supervisor that is slow, not dead | an orphan verdict and a terminal record do not contradict each other |
| planning, frontier | (pure) | the algorithm meets its definition for every input |

`PROJECT.json` lists each hazard at the line where it bites, with the properties
that would catch it.

## 2. Plan

Modules in the order they are written.

1. **DurableDispatch** (exists): the shared store.  Everything that executes runs
   over it.
2. **FencedAttempts** (exists): what the store promises, as a log of attempts.
3. **DurableDispatchProofs**, **DurableDispatchSafety** (exist): theorems.
4. **RecursiveAdmission**, **RecursiveAdmissionProofs** (exist): `commit_child`
   on a tree of budgets; conservation.
5. **OperatorRun** (exists): program counters of processes running
   `run_durable_github_read_inspection`; extends DurableDispatch, and implements
   its journaled callers.  **OperatorReadings** (exists) adds what their readings
   could see.
6. **WorkQueue** (exists): the tables of the queue and the outbox, open to any
   caller with any fence it was ever given.  **QueueConsumer** (exists) extends
   it with the programs of consumers and workers, their faults and fairness.
7. **ExecutionPromotion** (exists): promotion, the write and its uncertain
   outcome; extends DurableDispatch.  **ExecutionPromotionProofs** (exists).
8. **DurableDispatchHistory**, **OperatorRunProofs**, **WorkQueueProofs**,
   **QueueConsumerProofs** (exist): the journaled callers, the refinement of
   FencedAttempts, and the inductive invariants of modules 5 and 6.
9. **LeaseStores** (planned): the lease operations of `leases.py`,
   `sqlite_state.py` and `persistent_state.py` against one abstract fenced lease.
10. **TaskSupervision** (planned): supervisors against the monitor's orphan
    reconciliation.
11. **WaveAdmission**, **FrontierRanking** (planned): pure algorithms against
    reference definitions over bounded inputs.

Every safety property a run checks is proved, except `NoSpuriousRefusal`.  What is
left to prove is about modules 9 to 11.

## 3. What is modelled

### 3.1 DurableDispatch

One work fingerprint, any number of lineages and holders.

| variable | table |
|---|---|
| `lease` | the row of `leases`; token 0 is "no row" |
| `work[l]` | `recursive_work_state`; `ABSENT` is "no row" |
| `budget[l]` | `lineage_budgets`, the three quotas admission uses; generation 0 is "no row" |
| `journal[<<l, t>>]` | the row of `execution_attempts` with fencing token `t`, its verifications and its reconciliations in `sequence` order |
| `now` | real time |

Fingerprints share no row, so one is enough to see everything the tables can do
to each other; the lineages of one fingerprint do share a row, and are kept.

One action is one committed transaction and contains every write of it.  A call
that raises changes nothing, and so does the replay of a call already applied
(`record_result` with the recorded payload, `begin_verification` on work
already `VERIFYING`): these are stuttering steps, and the guards of the actions
are the conditions under which a call does neither.  Because a process has no state here besides what it holds in its
arguments, crashes and restarts need no action: an attempt that is never
continued *is* the crash.

Callers choose their arguments from what they may really hold: the generations
`g`, `bg`, `wg` are any value the row has had, and a clock reading is any value
at most `MaxLag` before the transaction (`Readings`), because the code reads its
clock before it opens the transaction, and `verified_at` before a round of
network reads (`runner/operator.py:236`).

There are two next-state relations.

* `Spec`: the **journaled callers**.  Every process took its fence from the
  attempt it presents, by admission or from a recovery snapshot, and names that
  attempt's lineage.  `run_durable_github_read_inspection`, the promotion path,
  the claim bridge and recovery all do.
* `OpenSpec`: the **open interface**.  Besides these, anyone may call the
  lease store, and present any issued fence for any lineage, which the code of
  the stores admits: `_validate_active_lease_state` looks the lease up by
  fingerprint and never asks for which lineage it was granted.  It also allows
  `put_initial` of the work store, which inserts a row with whatever status its
  caller gives (`runner/recursive_state.py:212`).  That `COMPLETE` work has a
  completed lease is therefore a promise to the journaled callers only
  (`OneCompletion`), whose `initialize_root` inserts `PENDING` work.

The abstractions: payloads, digests, reasons and evidence are left out (a digest
mismatch raises and changes nothing); a backend result is `CONCLUSIVE` or the
failed `OUTCOME_UNKNOWN`, the only distinction the store makes; of the budget,
depth and child quota belong to recursive admission.  `recover_claim_only_root`
on `PENDING` work reads in one transaction and calls `admit` in a second: its
reads constrain nothing that `admit` does not check again, so the action is what
`admit` allows (`ResumePendingRoot`).

### 3.2 FencedAttempts

What the store promises to whoever reads only its log: a sequence of grants,
each to a lineage, and for each lineage a verdict that is given once, while its
own grant is the last one, and after `COMPLETE` there are no grants.
`ImplementsFencedAttempts` is the claim that DurableDispatch implements it, the
grants being the journal's tokens and the verdicts the terminal statuses.

### 3.3 RecursiveAdmission

One lineage: a root and what is decomposed from it.

| variable | code |
|---|---|
| `works[w]` | `recursive_work_state`: parent, ancestry, depth, capability ceiling, status; a key of the function is a row of the table |
| `budgets[w]` | the `lineage_budgets` row of the scope `w` owns (`root`, or `work:<fingerprint>`) |
| `charged[w]` | history: what dispatch admissions have taken from that scope |
| `proposals` | the `ChildAdmission`s planners have computed, with the budget and generation they read |

`Propose` is `admit_child_work` on what a planner read; `CommitChild` is the
transaction, which compares the parent's budget and generation with what was
read and repeats the computation on the stored rows.  A proposal is never
removed: committing twice, and committing late, are both tried.  Between the
two, `DispatchAdmit` charges the parent's scope and `Progress` moves its status.

The abstractions: a fingerprint is a model value to which the capability
requirements belong, as they belong to the hash; statuses are reduced to the
four kinds admission tells apart; the lease that `DispatchAdmit` and `Progress`
need is left to DurableDispatch, so they may happen more often here than there.
A lineage has one root: `initialize_root` refuses a second on the same budget,
and it is how every command creates one (`put_initial` of the bare work store
would take several and let them share the root scope).  The root may have any
standing: `PutRootWork` inserts what its caller gives.

`TreeQuotaIsConserved` is the reason for the module: over the whole tree, in
each dimension, what is left plus what was charged is what the root was given.
`QuotaOnlyNarrows`, which is proved and has no run, says it of one scope and one
step; `AncestryIsPath` and
`AuthorityNarrows` are about chains of admissions, `TerminalWorkGetsNoChild`
about a planner that comes too late.

### 3.4 OperatorRun

Processes that run one inspection, over the whole of DurableDispatch.

| variable | code |
|---|---|
| `run[r].pc` | which call of `run_durable_github_read_inspection` comes next |
| `run[r].token`, `.gen` | the lease and the work generation the function carries from one call to the next |
| `run[r].next`, `.result`, `.verdict`, `.at` | the input being read, the backend's classification, the verification outcome, `verified_at` |
| `moved` | which subjects' refs are not at their exact commit now; `Move` takes one away or back |
| `seen[r]` (OperatorReadings) | history: at which moments of its two readings the run's subjects were where |

Each store call is the action of DurableDispatch with the arguments the function
passes, and each read of a ref is a step; between any two the clock ticks, refs
move, and attempts may be reconciled by somebody else.  When the store would
refuse a call (its action is not enabled) it raises, and the run is `REFUSED`.
The work's fingerprint does not contain the lineage, so runs under several
lineages share the lease.  A process that dies takes no further step; a broken
connection, which the code does not catch, is the same.  `RunsAreJournaledCallers` is the composition:
whatever these processes do is a behaviour of DurableDispatch's `Spec`, which
justifies the arguments that specification lets its callers choose.
`ReportsAreTruthful` and `VerdictsAreObserved` are about what the caller of the
function is told, `NoSpuriousRefusal` and `AdmittedRunReports` about the
protocol not tripping over itself.

Refs go and return as they like, so that all subjects were exact *together*, or
still are when the run reports, is more than the code can know: it reads them one
after the other.  OperatorReadings therefore adds a history variable, which no
step looks at, and `VerdictsAreObserved` is what two independent readings amount
to: `COMPLETE` means that each subject was exact at some moment of the execution
and again at some moment of the verification.

The abstractions: any HTTP error is one `REFUSAL`; the evidence the backend itself writes is the
evidence the verifier expects, so that no run returns `VERIFYING`; grants and
routes are fixed before the run and refuse nothing.  `Reconcile` is a fault
rather than a step: within the repository only the source-write path calls
`reconcile_admitted`, although the store lets any caller do so.

### 3.5 WorkQueue

| variable | code |
|---|---|
| `heads` | what the providers publish: one exact subject per registered ref |
| `targets[p]` | version of the head of each execution target |
| `plans[p]` | the currentness cycle planner `p` is in: what it observed, the predecessors it read, the frontiers it will list |
| `snapshots` | `portfolio_snapshots` and `portfolio_frontiers`, in order |
| `claims[<<n, f>>]` | the row of `portfolio_queue_claims` of frontier `f` of snapshot `n` |
| `routes[<<i, t>>]` | the row of `worker_route_outbox` of item `i` under queue fence `t`, with its delivery claim and receipt |
| `reconciliations` | `portfolio_queue_reconciliations` |

`CollectObservations`, `PlanCycle` and `CommitCycle` are the three parts of
`collect_and_schedule_portfolio` between which other processes act: the refs are
read over the network, the predecessors and the unresolved work from the
database, and the transaction compares the predecessors and nothing else.
`ClaimNext`, `BindTargetHead`, `Finalize`, `RouteWorkerClaim`, `DeliverRoute`,
`RecordReceipt` and `Reconcile` are the transactions of the two stores.
`DeliverRoute` and `DeliverNothing` contain what `claim_next` of the outbox does
to the rows it passes over: stale ones are superseded together with their queue
row, lapsed ones that may not be replayed are frozen.

`reconcile` is given a boolean, which `reconcile_queue_item` read before
(`runner/queue_consumer.py:1481`) and `reconcile` does not check again.
`RetryAllowed` is what the reader is told, and `Reconcile` takes the answer as an
argument, from `RetryReadings`: those that a reading made at this moment, or at any
earlier one of the same claim, gives.  The two differ for inspections, which may
be retried until they have an envelope, whatever route they are about to get.

Here, too, the callers are open: any fence a row ever had may be presented, by
anyone and at any time.  What is left out of the data: priorities (rows are
ordered by snapshot, because every ready frontier gets the same priority inputs
in `frontier.py`), capacities, packets and digests.  A lease is alive or lapsed
rather than a time, because each caller brings its own time to live.  A
configuration stands for the three registry digests; a frontier's readiness and
its route depend on it: the worker and invocation route (`EndpointUnder`) and the
replay policy the registry gives that route (`PolicyUnder`).  Only inspections may
have no route.  A delivery is asked for by one worker and route under one registry
(`Offered`), and the scan neither meets nor changes the envelopes of others.
`ReadyUnder` gives the readiness of a frontier under a
configuration, to which blockers and capabilities are reduced.

### 3.6 QueueConsumer

| variable | code |
|---|---|
| `consumers[k]` | which call of `consume_next_queued_read_only_work` comes next, and the claim the function carries |
| `workers[w]` | the same for `run_reference_read_worker_once` and its delivery |
| `operators[<<i, g>>]` | the work row of the lineage of item `i`, attempt `g` |
| `faults` | stalls, deaths and errors so far |

Every store call is the action of WorkQueue with the arguments the function
passes; a refused call raises, and what the function's handler then does is
modelled (`Recover`, `Settle`).  The operator's run is what OperatorRun is about;
of it only the record of its lineage is kept, because that is all the consumer
looks at: `OPEN` until a verdict, and the run may return or raise in either case.
All workers answer for one worker and route (`ReferenceEndpoint`, the reference
worker's), and what is promised about answers is promised of its envelopes.

### 3.7 ExecutionPromotion

Over the whole of DurableDispatch, with `ClaimOnly` (the bridge claims, and does
not execute).

| variable | code |
|---|---|
| `promotion[k]` | `execution_promotions` of attempt `k`: until when its documents are valid, and the generation of the `RUNNING` work |
| `recorded[k]` | `result_json` of the attempt: classification, and the commit it names |
| `session[s]` | where a run of one of the commands is, and what it carries |
| `head` | the commit the branch points at: `BASE`, `FOREIGN`, or a candidate |
| `update[c]` | the `updateRefs` request that publishes candidate `c`: `SENT`, `APPLIED` or `REJECTED` |
| `resets` | how often somebody put the branch back |

A session is one command: `promote_claimed_to_running` (`CheckClaim`,
`CommitPromotion`), `execute_promoted` with its backend (`CheckPromotion`,
`CallBackend`, one action per outcome of the backend, `RecordReturned`),
`reconcile_github_source_write_outcome_unknown` (`ObserveWrite`,
`ConcludeReconciliation`) and `finalize_github_source_write_effect_confirmed`
(`CheckEffect`, `EnterVerifying`, `VerifyEffect`, `CompleteEffect`).
`EndSession` is the death of the process, and also every exception that ends the
command; a request that was sent stays `SENT` and is applied or rejected by
`ApplyUpdate` whenever GitHub gets to it.

The abstractions: the three signed documents are one deadline, because their
bindings are to the claim and are compared for equality; the file and the tree
are the commit; the commits of two executions differ (their commit times do); a
commit is read as the candidate's exactly if it is the candidate.  The other
attempts of the branch's owner are `ForeignPush` and `ForeignReset`.

### 3.8 Runs

The dispatch runs use a small budget (3 active slots, 3 jobs, 1 retry) and a
lease of one tick.  Their symmetry permutes holders and lineages, which no
definition orders, and every property there is a safety formula that treats them
alike, so that the reduction is sound; the same goes for the sessions and
candidates of `promotion`.  Deadlock is not checked: the bounds, and
the terminal states of the system, stop it.

| run | instance | question |
|---|---|---|
| `dispatch_holders` | 1 lineage, 2 holders, 3 tokens, clock lag 1, `ClaimOnly` | two workers contending for one work unit through expiry, re-fencing, verification, reconciliation and retry |
| `dispatch_lineages` | 2 lineages, 1 holder, 2 tokens, clock lag 1 | two lineages sharing the lease; refinement of FencedAttempts |
| `recursive_tree` | 4 work units, depth 2, 2 capabilities, 2 target policies, 3 request vectors, 2 proposals | children planned from stale snapshots while dispatch charges the same budgets |
| `operator_runs` | 3 processes, 2 lineages, 1 holder name, 1 subject, all faults | two processes under one lineage and a third under another contend, expire, are reconciled |
| `operator_unhindered` | 2 processes, 2 lineages, 2 subjects, HTTP errors | verdicts against what the subjects did, with the history of OperatorReadings; an admitted process reports |
| `queue_store` | 2 planners under 2 configurations of one topology, 1 ref with 2 commits, 2 kinds of work on the second, 1 worker; inspections unrouted and retests `SAFE` under one, both `NEVER` under the other; open callers | what the tables of the queue promise whatever anyone calls |
| `queue_consumers` | 2 consumers, 1 worker, 1 planner, 1 fault, 1 reconciliation | the queue against the operator's journal; nothing is lost with a process |
| `promotion` | 2 sessions, 2 candidates, 3 tokens, clock lag 1, 1 reset | at-most-once writes, and what the journal says of them |
| `doc_confirmed_retry` | 1 lineage, 1 holder | expected violation, section 5 |
| `doc_queue_recovery` | 1 consumer, 1 planner, 1 fault | expected violation, section 5 |
| `doc_queue_exclusion` | 1 planner, open callers, work on both commits | expected violation, section 5 |
| `doc_second_execution` | 1 session, 2 candidates | expected violation, section 5 |

Properties, and what they would catch:

* `FencesIdentifyAttempts`: one token, one attempt, across lineages.
* `HeldLeaseHasAttempt`: whoever holds the lease is in the journal (`Spec` only:
  the lease store's own `claim` records nothing).
* `OpenWorkIsVisible`: work that some attempt may still act on has its newest
  attempt in `unresolved_attempts`, so a restart overlooks nothing.
* `TerminalWorkIsEvidenced`, `VerdictDecides`: terminal status, terminal
  verification and result appear together, and only the newest attempt decides.
* `OneCompletion` (`Spec`): lineages share completion: the lease is completed
  exactly when a lineage is `COMPLETE`, and at most one is.
* `NoEffectIsFinal`: an attempt reconciled as having had no effect is out: its
  fence is never current again, it decides nothing, it records no success.
* `QuotaIsConserved`, `RetriesArePaid`: quota taken equals admissions made, and
  re-fencing takes none.
* `LiveFenceIsNotStolen`, `DeadFenceIsInert`: the two sides of expiry, with
  callers' clocks lagging.
* `WorkMovesUnderOwnFence`: sharing a lease lends no authority over another
  lineage's work (`Spec` only; with arbitrary callers it is false by the
  code, which is why the journaled callers are modelled apart).
* `HistoryIsAppendOnly`: no record is replaced, and conclusions are last.
* `ReportsAreTruthful`, `OneRunCompletes`: what a run reports is and remains what
  the tables say, and of several runs of one inspection at most one reports
  `COMPLETE`.
* `VerdictsAreObserved`: `COMPLETE` is reported only if every subject was exact at
  some moment of the execution and again of the verification, `SUPERSEDED` only
  if one was elsewhere during the last reading.
* `NoSpuriousRefusal`: an admitted run is refused only for expiry, a successor or
  a reconciliation.
* `SameSubjectIsExclusive`: two reserved rows about one exact subject share no
  collision key, whatever snapshots and configurations scheduled them.
* `OutboxMirrorsQueue`: open and settled envelopes and their queue rows tell the
  same story; the calls that change both change them together.
* `DeliveriesFollowPolicy`: only `SAFE` work is delivered twice under one claim,
  and `NEVER` work other than an inspection once in the life of its row, however
  early the reconciler read whether it may be retried (for inspections see
  section 5).
* `ReceiptsDecide`: a receipt counts only under the latest delivery, and only for
  the resolutions it allows.
* `NoChangeIsMissed`: two racing cycles do not let a commit of a ref pass without
  a frontier.
* `DecisionsStand`: terminal rows, bound targets and receipts never change, and
  what may have run runs again only as a new attempt.
* `QueueFollowsOperator`: a terminal row of built-in work carries the verdict of
  its own attempt's lineage, or was reconciled.
* `AbandonedClaimIsResumed`, `RoutedWorkIsAnswered`: liveness across the death of
  a holder, for rows and for envelopes.
* `PromotedFenceIsLast`: a promoted attempt never gets a successor, although the
  bridge may fence claimed work anew at any time.
* `NoWriteIsRepeated`: one promotion executed twice still publishes once, unless
  somebody else puts the branch back.
* `ReportedWritesLanded`, `SentWritesAreVisible`: the two directions between the
  journal and GitHub: what is reported was published, and what was sent stays
  unresolved until the work is complete.

### 3.9 Bounds, and why they are enough

`MaxTime` 2 with `Ttl` 1 lets a lease expire and its successor be live or expired
in turn, with readers on either side of each instant when `MaxLag` is 1.
`dispatch_lineages` keeps `MaxNotes` at 0: its second lineage, not the
inconclusive notes, is what it is about.  `MaxToken` 3 gives an attempt, its successor and the successor's successor; two
lineages need `MaxToken` 2 to interleave and are kept at that.  `MaxNotes` 1 allows
one inconclusive verification and one inconclusive reconciliation before the
conclusive one.  `MaxGeneration` stops the moves that may alternate: without it
`OUTCOME_UNKNOWN -> RUNNING -> OUTCOME_UNKNOWN` would count generations forever;
6 lets work be claimed, fenced anew and run once more after a failure.
In `recursive_tree` two proposals are two siblings, a parent and its child, or
two races for the same budget; depth 2 lets the second be a grandchild whose
ancestry must carry both admissions, and `PathsHold` (section 4) covers the depth
limit, which two proposals under a root of depth limit 2 do not reach; the root's units cover one of the larger requests and one
of the smaller, so that the second planner may or may not still be served.
In the operator runs one tick of time and leases of one tick let every lease
expire and be taken once; three processes can be granted `MaxToken` 3 leases and
reach no higher generation than `MaxGeneration` 9, and one process notes at most
one inconclusive verification.

In the queue runs three snapshots are a baseline, a cycle that lists work and a
cycle that lists it again or finds the ref back where it was; `MaxToken` and
`MaxDelivery` count the claims and deliveries of all rows together.  With two of
each, `queue_store` has a claim and its successor, or two rows at once, and a
delivery and its repetition; the one outcome of its inspections is
`OUTCOME_UNKNOWN`, from which reconcilers reach the terminal states and the retry
that `finalize` would.  `queue_consumers` is given 6 and 4, so that its
bounds do not end the retries that its liveness properties are about: one fault
costs one claim or delivery, one reconciliation one more.  Two versions of a
target's head are enough for it to differ from the one bound.  In `promotion` two
sessions are any two commands at once, the third and later ones following when
one of them is over; the deadlines are one that passes within the run and one that does not, and the one reset is
what `NoWriteIsRepeated` makes an exception for.
The theorems below assume nothing of how small these bounds are.

### 3.10 Fairness

Of the stores, none: they schedule nothing and answer calls.  In `FairReadingSpec`
(OperatorReadings; the history changes nothing about what is enabled) a process takes its next step (weak fairness of `Step(r)`, one
process at a time): a live process is sequential code without waiting, and every
one of its steps ends, in an answer or in an error.  No other process is assumed to be fair to it, the clock need not
move, and no reading need succeed.  Only `operator_unhindered` uses it; that its
leases outlast the run is a bound of that instance (`Ttl` 2 with `MaxTime` 1) and
the premise of the property.

In `FairQueueSpec` every consumer and every worker goes on (weak fairness of its
next step, which for an idle one is to ask for work: the commands are meant to be
run again and again), and abandoned leases run out.  Nothing makes a cycle run, a
reconciler decide, or a ref move, and a process may stall past its lease or die
as often as `MaxFaults` allows.  A process that died is a process that may be
started again.  The liveness properties say accordingly that work is taken up
again *by whoever asks next*; under a queue nobody consumes they say nothing.

## 4. What is proved

For every value of the constants satisfying the assumptions of the module and of
those it extends (`ParameterAssumption`; `LineageAssumption`; `OperatorAssumption`;
`PromotionAssumption`; `ScheduleAssumption` and `BoundAssumption`).  They ask for
types, and for little else: a lineage has finitely many work units and a registry
finitely many frontiers, both of which are rows of a table; there is a
configuration; and a clock value may be used any time after it was read.

| theorem | of | property |
|---|---|---|
| **DurableDispatchProofs** | | |
| `OpenTypeCorrect`, `TypeCorrect` | `OpenSpec`, `Spec` | `TypeOK` |
| **DurableDispatchSafety** | | |
| `OpenInvariant` | `OpenSpec` | `Inv`, the inductive invariant |
| `FencesIdentify` | `OpenSpec` | `FencesIdentifyAttempts` |
| `VerdictsDecide` | `OpenSpec` | `VerdictDecides` |
| `NoEffectStays` | `OpenSpec` | `NoEffectIsFinal` |
| `LiveFenceStays` | `OpenSpec` | `LiveFenceIsNotStolen` |
| `JournaledCallers` | `Spec => OpenSpec` | carries all of the above to `Spec` |
| **DurableDispatchHistory** | | |
| `HistoryInvariant` | `Spec` | `HistoryInv`, the inductive invariant |
| `HoldersAreAttempted` | `Spec` | `HeldLeaseHasAttempt` |
| `OpenWorkIsFound` | `Spec` | `OpenWorkIsVisible` |
| `TerminalWorkHasEvidence` | `Spec` | `TerminalWorkIsEvidenced` |
| `CompletesOnce` | `Spec` | `OneCompletion` |
| `HistoryStays` | `OpenSpec` | `HistoryIsAppendOnly` |
| `WorkKeepsToItsFence` | `Spec` | `WorkMovesUnderOwnFence` |
| `DeadFenceMovesNothing` | `Spec` | `DeadFenceIsInert` |
| `LedgerInvariant`, `QuotaConserved` | `OpenSpec` | `BudgetIsTheLedger`, `QuotaIsConserved` |
| `RetriesInvariant`, `RedispatchIsPaid` | `Spec` | `RetriesAreTheLedger`, `RetriesArePaid` |
| `StoreImplementsAttempts` | `Spec` | `ImplementsFencedAttempts`: the refinement |
| **RecursiveAdmissionProofs** | | |
| `TypeCorrect` | `Spec` | `TypeOK`: no quota becomes negative |
| `Invariant` | `Spec` | `Inv`, the inductive invariant of the tree |
| `PathsHold` | `Spec` | `AncestryIsPath` |
| `AuthorityHolds` | `Spec` | `AuthorityNarrows` |
| `QuotaNarrows` | `Spec` | `QuotaOnlyNarrows` |
| `TerminalParentsStayChildless` | `Spec` | `TerminalWorkGetsNoChild` |
| `QuotaOfTreeIsConserved` | `Spec` | `TreeQuotaIsConserved` |
| **OperatorRunProofs** | | |
| `OperatorInvariant` | `OperatorSpec` | `OperatorInv`, the inductive invariant |
| `RunsCallAsJournaled` | `OperatorSpec` | `RunsAreJournaledCallers`, that is `Spec`: the composition |
| `ReportsStayTrue` | `OperatorSpec` | `ReportsAreTruthful` |
| `OneRunReportsComplete` | `OperatorSpec` | `OneRunCompletes` |
| `VerdictsRestOnReadings` | `ReadingSpec` | `VerdictsAreObserved` |
| **WorkQueueProofs** | | |
| `Invariant`, `TypeCorrect` | `Spec` | `Inv`, the inductive invariant; `TypeOK` |
| `WorkIsExclusive` | `Spec` | `SameSubjectIsExclusive` |
| `OutboxAgreesWithQueue` | `Spec` | `OutboxMirrorsQueue` |
| `PolicyIsKept` | `Spec` | `DeliveriesFollowPolicy` |
| `ReceiptsAreFollowed` | `Spec` | `ReceiptsDecide` |
| `ChangesAreListed` | `Spec` | `NoChangeIsMissed` |
| `NothingIsUndecided` | `Spec` | `DecisionsStand` |
| **QueueConsumerProofs** | | |
| `QueueInvariant` | `QueueSpec` | `QueueInv`, the inductive invariant |
| `QueueSaysWhatOperatorSays` | `QueueSpec` | `QueueFollowsOperator` |
| `ConsumersKeepTheStore` | `QueueSpec` | `SameSubjectIsExclusive`, `OutboxMirrorsQueue`, `ReceiptsDecide`, `NoChangeIsMissed` |
| **ExecutionPromotionProofs** | | |
| `PromotionIsJournaled` | `PromotionSpec => Spec` | carries the theorems about `Spec` and `OpenSpec` to promotion |
| `PromotionSettled` | `PromotionSpec` | `Settled`, the inductive invariant |
| `PromotedFenceStays` | `PromotionSpec` | `PromotedFenceIsLast` |
| `ReportedWritesAreReal` | `PromotionSpec` | `ReportedWritesLanded` |
| `SentWritesStayVisible` | `PromotionSpec` | `SentWritesAreVisible` |
| `WritesAreNotRepeated` | `PromotionSpec` | `NoWriteIsRepeated` |

Those whose second column says `OpenSpec` are proved of the open interface, the
weaker specification, so they hold whatever callers do with the stores.

The argument for the dispatch store.  `TypeOK` is inductive as it stands; that a quota never drops below
zero is the part that needs `Affordable`.  For the rest, the proof does not look
at actions one property at a time.  Each action is first reduced to its
*footprint* (`StepFootprint`): how it moves the lease (`LeaseMoves`), the work
(`WorkMoves`) and the journal (`JournalMoves`), and nothing more.  Four named
invariants are then preserved by footprints:

* `FencesIdentifyAttempts` needs only that tokens grow;
* `NoEffectIsFinal` alone is not inductive, because a dead fence could come back
  to life or be decided; `DeadFences` adds that it can present itself
  nowhere: either its token is old, or the lease is free, under its token;
* `VerdictDecides` alone is not inductive, because a decided attempt must stay the
  newest: that follows from terminal work never moving (`WorkMoves`) and from
  admission needing a status that leads to `CLAIMED`;
* `Rooted`: an attempt has a work row, so absent work has no decided attempts.

For the journaled callers (`Spec`) more holds, and takes more.  `HistoryInv` adds to
`Inv` that every token was admitted (`EveryTokenIsAttempted`: the lease never runs
ahead of the journal), that work which left `PENDING` has a newest attempt, and
that a newest attempt without effect has freed its work (`FreedWorkWaits`), without
which a dead attempt could be concluded again.  `OneCompletion`,
`TerminalWorkIsEvidenced` and `HeldLeaseHasAttempt` are then kept by footprints as
before.  Quota is a matter of counting: the admissions of a lineage are numbered
by the budget generations they gave, `2 .. gen` without a gap
(`BudgetIsTheLedger`), so their number is `gen - 1` and the budget is what they
left.  Refinement goes by cases of the same footprints: an admission is a grant, a
terminal finalization a decision, and everything else a stutter.

For the tree, each operation is again reduced to a footprint: rows are kept up to
their standing or remainder, and at most one root row, root scope or child is
added.  `AncestryIsPath` and `AuthorityNarrows` need `RootFirst` beside them:
nothing is admitted before the root, so no child takes the root's name; a scope
without work is the root's; and each unit is in its own stored ancestry.
Conservation has an invariant of its own, `Balance`, which is about sums over the
tables.  A sum of the community modules is a recursive function on the subsets of a
set, and the lemmas about it (`SumExists`, `SumSplits`, `TotalMoves`: it exists, any
element may be taken out of it, it moves by what one number moves) are proved by
taking a smallest subset of which they fail: the library's induction theorems
take an operator and cannot be instantiated, but well-founded minimality takes a
set (`SmallestSubset`).  Then `put_initial` starts the ledger with the root's
quota, `commit_child` splits one number in two, and dispatch admission moves an
amount from one sum to the other.

For an inspection run, `OperatorInv` says for each process what its program
counter implies: of what it carries (`Judging`), of its attempt in the journal (`Placed`), and of what the
tables say when it reports (`Reporting`).  That a report stays true although the
store's callers go on needs `OneRunPerLineage`: a root is initialised once, so of
the processes given one lineage at most one gets past `initialize_root`.
`HistoryInv` is part of it, so each call is shown to be one that `Spec` allows, and
from there the theorems about the store apply.  `VerdictsAreObserved` has an
invariant of its own, `ReadingInv`, over the history of OperatorReadings: what a
run has found so far, and what it concluded, was there to be seen at some moment
of that reading (`Observing`).

For the queue, `Inv` has a part about rows and one about cycles.  A step of
the store is reduced to what it does to one row of the queue (`RowFootprint`) and,
for deliveries, which pass over stale and lapsed envelopes, to what the
scan does to each of them (`ScanRows`).  `OutboxMirrorsQueue` and `ReceiptsDecide`
need that the fence of an envelope was issued and is older than any claim its row
has now (`EnvelopesAreIssued`); `DeliveriesFollowPolicy` needs `UnsafeIsDeliveredOnce`
and `NeverIsRoutedOnce`, which says of work other than inspections that a row once
routed under `NEVER` is not released, because every answer about its retry, however
early, was `FALSE`; `NoChangeIsMissed` needs what a planned cycle is going to
list to cover what changed since the snapshot it follows (`PlansListChanges`),
which a commit may rely on because it compares that snapshot with the
predecessor of its transaction.
The processes of QueueConsumer are then callers of that store: `QueueInv` adds what
each consumer knows of its row (`HoldsRow`) and of its inspection (`FollowsRecord`),
knowledge that no step of anybody takes back (`RecordsStand`), and `OneStarter`.

For promotion, none of the four properties is inductive, because the evidence for
them is spread over the tables, the branch and what sessions carry.  `Settled` has
a part for each beside the store's own `Inv`:

* `Promotions`: a promoted attempt holds the lease's token, so there is one at
  most, and its work is `RUNNING` or was moved on a confirmed effect.  Fencing
  anew needs a status that leads to `CLAIMED`, which its work never has again;
* `Results`: an unknown result names a request, a success names a published
  commit, and an effect is confirmed only of a write that landed;
* `Requests`: the branch is at `BASE`, in foreign hands, or at a published
  candidate, so that finding the commit there proves that it landed;
* `Sessions`: what a session carries was read from the above and still holds.
  `Grows` is the reason: no step of anybody takes back an attempt, a promotion, a
  result, a confirmation or a published commit (`CarriedStays`).

One lemma per action then shows that `Settled` is kept (`NextSettled`).  That
every step is one of the store's (`StepIsJournaled`) gives `Inv`.  `NoWriteIsRepeated` has an invariant of its
own, `Counted`: a write that lands moves the branch off `BASE`.

**Only model-checked.**  The liveness properties `AdmittedRunReports`,
`AbandonedClaimIsResumed` and `RoutedWorkIsAnswered`, because liveness under fairness
is out of the prover's reach; and `NoSpuriousRefusal`, because a call is refused
when its action is not enabled, and the prover does not reason about `ENABLED`.
(The theorems about `OperatorSpec` do not need to know when a call is refused: a
refused call changes nothing.)  The recovery and route liveness of the queue rests
on `FairQueueSpec`, section 3.10.  Every safety property any passing run checks,
apart from `NoSpuriousRefusal`, has a theorem in the table above.

## 5. Where documentation and code part

* The docstring of `reconcile_admitted` (`runner/durable_dispatch.py:1748`) says
  that `INDETERMINATE` and `EFFECT_CONFIRMED` remain non-retryable.  The
  reconciliation itself moves nothing, but leaves the work `RUNNING`, from where
  the owner of a live fence may move it to `FAILED_RETRYABLE` and `admit` may
  admit it again without looking at the journal.  Run `doc_confirmed_retry`.
* `docs/OPERATOR_EXECUTION_V1.md:89` says that queue consumption can recover
  compatible historical rows while their subject is current.  `claim_next` looks
  at the newest row of a fingerprint only (`runner/queue_consumer.py:381`), and
  a `CLAIMED` row reserves its keys whether or not its lease has run out.  A
  cycle that planned before a claim and committed after it lists the frontier
  again; if the claiming process then dies, the newer row hides the older one
  and the older one's reservation blocks the newer.  Run `doc_queue_recovery`.
  `AbandonedClaimIsResumed` is what holds: rows not listed again are taken over.
* `docs/OPERATOR_EXECUTION_V1.md:80` says that a claim refuses collision domains
  held by another live claim, including claims from older snapshots; line 89
  exempts stale reads that are `OUTCOME_UNKNOWN` or `ROUTED`.  The code exempts
  every reservation whose subject is stale, live claims too.  Run
  `doc_queue_exclusion`.  `SameSubjectIsExclusive` is what holds.
* `docs/PROMOTED_GITHUB_SOURCE_WRITE_V1.md:128` says that transport uncertainty
  of the ref update is journaled as `OUTCOME_UNKNOWN` and that a second execution
  is then refused.  A timeout or a lost connection is not a `RuntimeError`
  (`runner/github_backend.py:178`, `:403`) and passes all handlers; nothing is
  recorded, and `execute_promoted` may call the backend again.  Run
  `doc_second_execution`.  What protects the branch then is the comparison with
  the exact head (`NoWriteIsRepeated`).  A reply that is not JSON is recorded as
  `TRANSPORT_FAILED` although the write may have landed; `SentWritesAreVisible`
  shows that the attempt stays unresolved in that case too.

Met while modelling, and not given a run of their own:

* `docs/OPERATOR_EXECUTION_V1.md:105` says that `NEVER` cannot be released for
  replay.  Of work other than inspections that is so (`PolicyIsKept`).  Of an
  inspection with a `NEVER` route it is not: `reconcile_queue_item` may read
  `retry_allowed` while the row is claimed and has no envelope yet, which answers
  True (`runner/queue_consumer.py:1074`); the consumer then routes the row, its
  delivery comes back `FAILED_RETRYABLE` or `OUTCOME_UNKNOWN`, or lapses, and
  only then does `reconcile` open its transaction (`:839`), where it trusts the
  boolean (`:836`) and does not look at the `replay_policy` it selects (`:863`).
  The row is released, and may be delivered again under its next fence.  The model
  has these steps (`RetryReadings`), and `DeliveriesFollowPolicy` without the
  exception for inspections is violated in `queue_store`.
* `reconcile_admitted` moves work to `FAILED_RETRYABLE` without looking at the
  lease's expiry, and the operator moves it to `OUTCOME_UNKNOWN` with the clock
  of before the verification's reads, although `README.md:75` asks for an
  unexpired lease.  `NoEffectIsFinal` and `DeadFenceIsInert` show what holds.
* The child units of a parent bound what its children may pass on, not the
  number of its children (`runner/budgets.py:71`).
* An HTTP error during the backend's read is judged `FAILED_DETERMINISTIC`
  (`runner/verify.py:56`), the same error during verification is not.

## 6. What is not modelled, and why

Everything marked `not_modelled` in `PROJECT.json`: planned parts (section 2:
the older lease stores, the task supervisor, and the pure algorithms of planning
and frontier derivation, of which the queue sees only which frontiers are
ready);
registries, models and schemas, whose operations change no state; the command
line and exports, which render.  Inside the modelled parts: digests and
serialisation, the schema migrations, `SqliteBudgetStore.compare_and_swap` (no
caller outside the tests), `reverify_recovery_snapshot` (writes nothing, and only
the tests call it), `SqliteWorkerRouteStore.enqueue` (the same), errors for rows
whose JSON is broken, the GitHub operations that no modelled path calls, and the
signatures of grants.

## 7. Running

    tlc -config dispatch_holders.cfg MCDurableDispatch
    tlc -config operator_runs.cfg MCOperatorRun
    tlc -config operator_unhindered.cfg MCOperatorReadings
    tlc -config recursive_tree.cfg MCRecursiveAdmission
    tlc -config queue_store.cfg MCWorkQueue
    tlc -config queue_consumers.cfg MCQueueConsumer
    tlc -config promotion.cfg MCExecutionPromotion
    tlapm DurableDispatchProofs.tla
    tlapm DurableDispatchSafety.tla
    tlapm DurableDispatchHistory.tla
    tlapm OperatorRunProofs.tla
    tlapm RecursiveAdmissionProofs.tla
    tlapm WorkQueueProofs.tla
    tlapm QueueConsumerProofs.tla
    tlapm ExecutionPromotionProofs.tla
