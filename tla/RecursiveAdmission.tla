------------------------- MODULE RecursiveAdmission -------------------------
(***************************************************************************)
(* Recursive decomposition within one lineage: a planner reads a parent    *)
(* work unit and its budget, computes the admission of a child            *)
(* (runner/decompose.py, budgets.py, capabilities.py), and commits it      *)
(* later through SqliteRecursiveAdmissionStore.commit_child                *)
(* (runner/recursive_admission.py), one BEGIN IMMEDIATE transaction.       *)
(* Between the two, other planners commit children of the same parent,     *)
(* dispatch admission charges its budget and its status moves on.          *)
(*                                                                         *)
(* A work unit is named by its fingerprint, which its capability           *)
(* requirements are part of, and its budget scope by the same name.  The   *)
(* lineage has one root, as initialize_root makes it.                      *)
(***************************************************************************)
EXTENDS Integers, FiniteSets, FiniteSetsExt, Functions

CONSTANTS
  Work,              \* work fingerprints
  Root,              \* the lineage's root work
  Capability,
  Requires,          \* the capabilities each work unit requires
  RootCapabilities,  \* the capability ceiling the root is stored with
  Targets,           \* capability policies of targets a child may run on
  MaxDepth,
  RootQuota,         \* the root budget, per dimension
  Requests,          \* what planners ask for a child
  MaxProposals       \* bound: admissions planned

Quota == {"children", "active", "retries", "jobs"}

(* A lineage holds finitely many work units, so what it has left is a sum. *)
ASSUME LineageAssumption ==
  /\ Root \in Work
  /\ IsFiniteSet(Work)
  /\ Requires \in [Work -> SUBSET Capability]
  /\ RootCapabilities \subseteq Capability
  /\ Requires[Root] \subseteq RootCapabilities
  /\ Targets \subseteq SUBSET Capability
  /\ MaxDepth \in Nat
  /\ RootQuota \in [Quota -> Nat]
  /\ Requests \subseteq [Quota -> Nat]

VARIABLES
  works,      \* recursive_work_state, by fingerprint
  budgets,    \* lineage_budgets, by the work that owns the scope
  charged,    \* what dispatch admissions have taken from each scope
  proposals   \* ChildAdmissions in the hands of planners

vars == <<works, budgets, charged, proposals>>

---------------------------------------------------------------------------
(* A status is PENDING, held by a worker (CLAIMED, RUNNING, VERIFYING),    *)
(* retryable (FAILED_RETRYABLE, OUTCOME_UNKNOWN) or terminal: child and    *)
(* dispatch admission tell no more apart.                                  *)
Standing == {"PENDING", "HELD", "RETRYABLE", "TERMINAL"}

Successors ==
  [s \in Standing |->
     CASE s = "PENDING"   -> {"HELD"}
       [] s = "HELD"      -> {"HELD", "RETRYABLE", "TERMINAL"}
       [] s = "RETRYABLE" -> {"HELD"}
       [] s = "TERMINAL"  -> {}]

WorkRow == [parent : Work, ancestry : SUBSET Work, depth : Nat,
            capabilities : SUBSET Capability, standing : Standing]

BudgetRow == [depth : Nat, left : [Quota -> Nat], gen : Nat]

(* A planned admission: what was read of the parent, and what is asked.    *)
Proposal == [parent : Work, child : Work, before : [Quota -> Nat], gen : Nat,
             request : [Quota -> Nat], target : SUBSET Capability]

Nothing == [q \in Quota |-> 0]

Less(before, amount) == [q \in Quota |-> before[q] - amount[q]]

(* A budget row updated to a new remainder. *)
Rewritten(row, left) == [depth |-> row.depth, left |-> left, gen |-> row.gen + 1]

AtStanding(row, s) == [row EXCEPT !.standing = s]

Extend(f, k, e) == [j \in DOMAIN f \cup {k} |-> IF j = k THEN e ELSE f[j]]

---------------------------------------------------------------------------
(* The pure computation: admit_child_work *)

(* Mutant of Narrowed: the target's policy alone. *)
NarrowedToTarget(held, target) == target

(* narrow_capabilities *)
Narrowed(held, target) == held \cap target

DepthLeft(d) == d < MaxDepth

(* Mutant of Allocatable: one dimension is not compared. *)
AllocatableBeyondJobs(p, left, request) ==
  /\ DepthLeft(budgets[p].depth)
  /\ \A q \in Quota \ {"jobs"} : request[q] <= left[q]

(* allocate_child_budget fits: depth is left and no dimension is exceeded. *)
Allocatable(p, left, request) ==
  /\ DepthLeft(budgets[p].depth)
  /\ \A q \in Quota : request[q] <= left[q]

(* Mutant of AncestryUnder: only the nearest ancestor is kept. *)
AncestryUnderParentOnly(p, c) == {p, c}

(* The child's ancestry as stored, itself included. *)
AncestryUnder(p, c) == works[p].ancestry \cup {p, c}

(* admit_child_work raises nothing. *)
Admissible(p, c, left, request, target) ==
  /\ budgets[p].depth = works[p].depth
  /\ c \notin works[p].ancestry \cup {p}
  /\ Requires[c] \subseteq Narrowed(works[p].capabilities, target)
  /\ Allocatable(p, left, request)

---------------------------------------------------------------------------
Init ==
  /\ works = [w \in {} |-> w]
  /\ budgets = [w \in {} |-> w]
  /\ charged = [w \in Work |-> Nothing]
  /\ proposals = {}

RootWork(s) ==
  [parent |-> Root, ancestry |-> {Root}, depth |-> 0,
   capabilities |-> RootCapabilities, standing |-> s]

(* SqliteRecursiveWorkStore.put_initial: roots only, with the status that  *)
(* the caller's WorkUnit has                                               *)
PutRootWork(s) ==
  /\ Root \notin DOMAIN works
  /\ works' = Extend(works, Root, RootWork(s))
  /\ UNCHANGED <<budgets, charged, proposals>>

(* SqliteBudgetStore.put_initial: the root scope only *)
PutRootBudget ==
  /\ Root \notin DOMAIN budgets
  /\ budgets' = Extend(budgets, Root, [depth |-> 0, left |-> RootQuota, gen |-> 1])
  /\ UNCHANGED <<works, charged, proposals>>

(* A planner reads parent and budget and computes the child's admission.   *)
Propose(p, c, request, target) ==
  /\ p \in DOMAIN works
  /\ p \in DOMAIN budgets
  /\ Admissible(p, c, budgets[p].left, request, target)
  /\ Cardinality(proposals) < MaxProposals
  /\ proposals' = proposals \cup
       {[parent |-> p, child |-> c, before |-> budgets[p].left,
         gen |-> budgets[p].gen, request |-> request, target |-> target]}
  /\ UNCHANGED <<works, budgets, charged>>

(* Mutant of Fresh: the parent's budget is not compared. *)
FreshAnyway(a) == TRUE

(* The parent's budget is still the one the planner read. *)
Fresh(a) ==
  /\ budgets[a.parent].left = a.before
  /\ budgets[a.parent].gen = a.gen

(* Mutant of ParentOpen: the parent's status is not looked at again. *)
ParentOpenWhenPlanned(p) == TRUE

ParentOpen(p) == works[p].standing # "TERMINAL"

(* SqliteRecursiveAdmissionStore.commit_child.  Its recomputation repeats  *)
(* admit_child_work on the stored rows.                                    *)
CommitChild(a) ==
  LET p == a.parent c == a.child IN
  /\ p \in DOMAIN works
  /\ p \in DOMAIN budgets
  /\ ParentOpen(p)
  /\ Fresh(a)
  /\ Admissible(p, c, a.before, a.request, a.target)
  /\ c \notin DOMAIN budgets
  /\ c \notin DOMAIN works
  /\ budgets' =
       Extend([budgets EXCEPT ![p] = Rewritten(@, Less(a.before, a.request))], c,
              [depth |-> works[p].depth + 1, left |-> a.request, gen |-> 1])
  /\ works' =
       Extend(works, c,
              [parent |-> p, ancestry |-> AncestryUnder(p, c),
               depth |-> works[p].depth + 1,
               capabilities |-> Narrowed(works[p].capabilities, a.target),
               standing |-> "PENDING"])
  /\ UNCHANGED <<charged, proposals>>

(* What SqliteDispatchAdmissionStore.admit takes: an active slot, a job,   *)
(* and a retry if the work was retryable.                                  *)
Price(w) ==
  [q \in Quota |->
     CASE q = "children" -> 0
       [] q = "retries"  -> IF works[w].standing = "RETRYABLE" THEN 1 ELSE 0
       [] OTHER          -> 1]

(* SqliteDispatchAdmissionStore.admit, seen from the budget of its scope;  *)
(* the lease it also needs is DurableDispatch's matter.                    *)
DispatchAdmit(w) ==
  /\ w \in DOMAIN works
  /\ w \in DOMAIN budgets
  /\ works[w].standing \in {"PENDING", "RETRYABLE"}
  /\ budgets[w].depth = works[w].depth
  /\ \A q \in Quota : Price(w)[q] <= budgets[w].left[q]
  /\ budgets' = [budgets EXCEPT ![w] = Rewritten(@, Less(@.left, Price(w)))]
  /\ charged' = [charged EXCEPT ![w] = [q \in Quota |-> @[q] + Price(w)[q]]]
  /\ works' = [works EXCEPT ![w] = AtStanding(@, "HELD")]
  /\ UNCHANGED proposals

(* compare_and_swap_status and the finalizations, by whoever holds the     *)
(* lease.                                                                  *)
Progress(w, s) ==
  /\ w \in DOMAIN works
  /\ s \in Successors[works[w].standing]
  /\ works' = [works EXCEPT ![w] = AtStanding(@, s)]
  /\ UNCHANGED <<budgets, charged, proposals>>

Next ==
  \/ \E s \in Standing : PutRootWork(s)
  \/ PutRootBudget
  \/ \E p, c \in Work, request \in Requests, target \in Targets :
       Propose(p, c, request, target)
  \/ \E a \in proposals : CommitChild(a)
  \/ \E w \in Work : DispatchAdmit(w)
  \/ \E w \in Work, s \in Standing : Progress(w, s)

Spec == Init /\ [][Next]_vars

---------------------------------------------------------------------------
(* Properties *)

(* Every table holds well-formed rows; no quota is ever negative. *)
TypeOK ==
  /\ DOMAIN works \subseteq Work
  /\ works \in [DOMAIN works -> WorkRow]
  /\ DOMAIN budgets \subseteq Work
  /\ budgets \in [DOMAIN budgets -> BudgetRow]
  /\ charged \in [Work -> [Quota -> Nat]]
  /\ proposals \subseteq Proposal

Children(w) == {c \in DOMAIN works \ {Root} : works[c].parent = w}

(* Recursion creates no budget: in every dimension, what the scopes of the *)
(* tree have left and what their work was charged add up to what the root  *)
(* was given, whatever planners and dispatchers do at the same time.       *)
TreeQuotaIsConserved ==
  Root \in DOMAIN budgets =>
    \A q \in Quota :
      RootQuota[q] =
        MapThenSumSet(LAMBDA w : budgets[w].left[q], DOMAIN budgets)
        + MapThenSumSet(LAMBDA w : charged[w][q], Work)

(* Decomposition is a tree of bounded depth: a child's stored ancestry is  *)
(* its parent's and itself, which was not in it, and work, budget and      *)
(* ancestry agree on how deep it is.                                       *)
AncestryIsPath ==
  /\ \A w \in DOMAIN works :
       /\ works[w].depth <= MaxDepth
       /\ w \in DOMAIN budgets => budgets[w].depth = works[w].depth
  /\ \A w \in DOMAIN works \ {Root} :
       LET p == works[w].parent IN
       /\ p \in DOMAIN works
       /\ w \in DOMAIN budgets
       /\ works[w].ancestry = works[p].ancestry \cup {w}
       /\ w \notin works[p].ancestry
       /\ works[w].depth = works[p].depth + 1

(* Delegation never expands authority: a work unit holds no capability     *)
(* that some ancestor lacked, and each one it requires.                    *)
AuthorityNarrows ==
  \A w \in DOMAIN works :
    /\ Requires[w] \subseteq works[w].capabilities
    /\ \A a \in works[w].ancestry :
         a \in DOMAIN works /\ works[w].capabilities \subseteq works[a].capabilities

(* README.md:410, "persistent budgets cannot silently reset": a scope, once *)
(* created, only loses quota, and never without a new generation.          *)
QuotaOnlyNarrows ==
  [][\A w \in DOMAIN budgets :
       /\ w \in DOMAIN budgets'
       /\ \A q \in Quota : budgets'[w].left[q] <= budgets[w].left[q]
       /\ budgets'[w].left # budgets[w].left => budgets'[w].gen > budgets[w].gen]_vars

(* However long ago it was planned, no child is committed under a parent   *)
(* that is terminal by then.                                               *)
TerminalWorkGetsNoChild ==
  [][\A w \in DOMAIN works :
       works[w].standing = "TERMINAL" => Children(w)' = Children(w)]_vars

=============================================================================
