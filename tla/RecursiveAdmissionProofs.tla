---------------------- MODULE RecursiveAdmissionProofs ----------------------
(***************************************************************************)
(* Proofs about recursive child admission, for every set of work units,    *)
(* capabilities, targets and requests, every root budget and depth.        *)
(***************************************************************************)
EXTENDS RecursiveAdmission, FiniteSetTheorems, WellFoundedInduction, TLAPS

(* A change of standing leaves the identity of a work unit alone. *)
LEMMA StandingKeepsRow ==
  ASSUME NEW row \in WorkRow, NEW s \in Standing
  PROVE  /\ AtStanding(row, s) \in WorkRow
         /\ AtStanding(row, s).parent = row.parent
         /\ AtStanding(row, s).ancestry = row.ancestry
         /\ AtStanding(row, s).depth = row.depth
         /\ AtStanding(row, s).capabilities = row.capabilities
         /\ AtStanding(row, s).standing = s
  BY DEF AtStanding, WorkRow

(* A budget that covers an amount can give it. *)
LEMMA LessType ==
  ASSUME NEW before \in [Quota -> Nat], NEW amount \in [Quota -> Nat],
         \A q \in Quota : amount[q] <= before[q]
  PROVE  /\ Less(before, amount) \in [Quota -> Nat]
         /\ \A q \in Quota : Less(before, amount)[q] <= before[q]
  BY DEF Less

LEMMA RewrittenType ==
  ASSUME NEW row \in BudgetRow, NEW left \in [Quota -> Nat]
  PROVE  /\ Rewritten(row, left) \in BudgetRow
         /\ Rewritten(row, left).left = left
         /\ Rewritten(row, left).depth = row.depth
         /\ Rewritten(row, left).gen = row.gen + 1
  BY DEF Rewritten, BudgetRow

LEMMA PriceType ==
  ASSUME NEW w
  PROVE  Price(w) \in [Quota -> Nat]
  BY DEF Price, Quota

---------------------------------------------------------------------------
(* What a step does to works and budgets: each row is kept up to its       *)
(* standing or its remainder, and at most one row is added.                *)

SameIdentity(r, o) ==
  /\ r.parent = o.parent
  /\ r.ancestry = o.ancestry
  /\ r.depth = o.depth
  /\ r.capabilities = o.capabilities

WorksKept ==
  /\ DOMAIN works \subseteq DOMAIN works'
  /\ \A w \in DOMAIN works : SameIdentity(works'[w], works[w])

BudgetsKept ==
  /\ DOMAIN budgets \subseteq DOMAIN budgets'
  /\ \A w \in DOMAIN budgets :
       /\ budgets'[w].depth = budgets[w].depth
       /\ \A q \in Quota : budgets'[w].left[q] <= budgets[w].left[q]
       /\ budgets'[w].gen = budgets[w].gen => budgets'[w].left = budgets[w].left
       /\ budgets'[w].gen >= budgets[w].gen

NoWorkAdded == DOMAIN works' = DOMAIN works
NoScopeAdded == DOMAIN budgets' = DOMAIN budgets

RootWorkAdded ==
  /\ DOMAIN works' = DOMAIN works \cup {Root}
  /\ \E s \in Standing : works'[Root] = RootWork(s)
  /\ Root \notin DOMAIN works
  /\ budgets' = budgets

RootBudgetAdded ==
  /\ DOMAIN budgets' = DOMAIN budgets \cup {Root}
  /\ budgets'[Root].depth = 0
  /\ Root \notin DOMAIN budgets
  /\ works' = works

ChildAdded ==
  \E p \in DOMAIN works, c \in Work, target \in SUBSET Capability :
    /\ p \in DOMAIN budgets
    /\ c \notin DOMAIN works
    /\ c \notin DOMAIN budgets
    /\ c \notin works[p].ancestry
    /\ works[p].standing # "TERMINAL"
    /\ works[p].depth < MaxDepth
    /\ Requires[c] \subseteq Narrowed(works[p].capabilities, target)
    /\ DOMAIN works' = DOMAIN works \cup {c}
    /\ DOMAIN budgets' = DOMAIN budgets \cup {c}
    /\ works'[c].parent = p
    /\ works'[c].ancestry = AncestryUnder(p, c)
    /\ works'[c].depth = works[p].depth + 1
    /\ works'[c].capabilities = Narrowed(works[p].capabilities, target)
    /\ budgets'[c].depth = works[p].depth + 1

Footprint ==
  /\ WorksKept
  /\ BudgetsKept
  /\ \/ NoWorkAdded /\ NoScopeAdded
     \/ RootWorkAdded
     \/ RootBudgetAdded
     \/ ChildAdded

(* The initial state is well formed. *)
LEMMA InitTypeOK == Init => TypeOK
  BY DEF Init, TypeOK, Nothing, Quota

(* One case of the step lemma per operation. *)
LEMMA StepRoot ==
  ASSUME TypeOK, NEW s \in Standing, PutRootWork(s) \/ PutRootBudget
  PROVE  TypeOK' /\ Footprint
<1> USE LineageAssumption
<1>1. CASE PutRootWork(s)
  <2>1. /\ DOMAIN works' = DOMAIN works \cup {Root}
        /\ works'[Root] = RootWork(s)
        /\ \A j \in DOMAIN works : works'[j] = works[j]
        /\ works' = [j \in DOMAIN works \cup {Root} |-> IF j = Root THEN RootWork(s) ELSE works[j]]
        /\ UNCHANGED <<budgets, charged, proposals>>
    BY <1>1 DEF PutRootWork, Extend
  <2>2. RootWork(s) \in WorkRow
    BY DEF RootWork, WorkRow
  <2>t. works' \in [DOMAIN works' -> WorkRow]
    BY <2>1, <2>2 DEF TypeOK
  <2>3. TypeOK'
    BY <2>1, <2>t DEF TypeOK
  <2>4. WorksKept
    BY <2>1 DEF WorksKept, SameIdentity
  <2>5. BudgetsKept
    BY <2>1 DEF BudgetsKept, TypeOK, BudgetRow
  <2>6. RootWorkAdded
    BY <1>1, <2>1 DEF RootWorkAdded, PutRootWork
  <2> QED BY <2>3, <2>4, <2>5, <2>6 DEF Footprint
<1>2. CASE PutRootBudget
  <2> DEFINE row == [depth |-> 0, left |-> RootQuota, gen |-> 1]
  <2>1. /\ DOMAIN budgets' = DOMAIN budgets \cup {Root}
        /\ budgets'[Root] = row
        /\ \A j \in DOMAIN budgets : budgets'[j] = budgets[j]
        /\ budgets' = [j \in DOMAIN budgets \cup {Root} |-> IF j = Root THEN row ELSE budgets[j]]
        /\ UNCHANGED <<works, charged, proposals>>
    BY <1>2 DEF PutRootBudget, Extend
  <2>2. row \in BudgetRow /\ row.depth = 0
    BY DEF BudgetRow
  <2> HIDE DEF row
  <2>t. budgets' \in [DOMAIN budgets' -> BudgetRow]
    BY <2>1, <2>2 DEF TypeOK
  <2>3. TypeOK'
    BY <2>1, <2>t DEF TypeOK
  <2>4. WorksKept
    BY <2>1 DEF WorksKept, SameIdentity
  <2>5. BudgetsKept
    BY <2>1 DEF BudgetsKept, TypeOK, BudgetRow
  <2>6. RootBudgetAdded
    BY <1>2, <2>1, <2>2 DEF RootBudgetAdded, PutRootBudget
  <2> QED BY <2>3, <2>4, <2>5, <2>6 DEF Footprint
<1> QED BY <1>1, <1>2

LEMMA StepPropose ==
  ASSUME TypeOK, NEW p \in Work, NEW c \in Work, NEW request \in Requests,
         NEW target \in Targets, Propose(p, c, request, target)
  PROVE  TypeOK' /\ Footprint
<1> USE LineageAssumption
<1>1. budgets[p] \in BudgetRow /\ UNCHANGED <<works, budgets, charged>>
  BY DEF Propose, TypeOK
<1> DEFINE a == [parent |-> p, child |-> c, before |-> budgets[p].left,
                 gen |-> budgets[p].gen, request |-> request, target |-> target]
<1>2. a \in Proposal
  BY <1>1 DEF Proposal, BudgetRow
<1>3. proposals' = proposals \cup {a}
  BY DEF Propose
<1> HIDE DEF a
<1>4. TypeOK'
  BY <1>1, <1>2, <1>3 DEF TypeOK
<1>5. WorksKept /\ NoWorkAdded /\ NoScopeAdded
  BY <1>1 DEF WorksKept, SameIdentity, NoWorkAdded, NoScopeAdded
<1>6. BudgetsKept
  BY <1>1 DEF BudgetsKept, TypeOK, BudgetRow
<1> QED BY <1>4, <1>5, <1>6 DEF Footprint

LEMMA StepProgress ==
  ASSUME TypeOK, NEW w \in Work, NEW s \in Standing, Progress(w, s)
  PROVE  TypeOK' /\ Footprint
<1>1. /\ w \in DOMAIN works
      /\ works[w] \in WorkRow
      /\ works' = [works EXCEPT ![w] = AtStanding(works[w], s)]
      /\ UNCHANGED <<budgets, charged, proposals>>
  BY DEF Progress, TypeOK
<1>2. AtStanding(works[w], s) \in WorkRow /\ SameIdentity(AtStanding(works[w], s), works[w])
  BY <1>1, StandingKeepsRow DEF SameIdentity
<1>3. TypeOK'
  BY <1>1, <1>2 DEF TypeOK
<1>4. WorksKept /\ NoWorkAdded /\ NoScopeAdded
  BY <1>1, <1>2 DEF WorksKept, SameIdentity, NoWorkAdded, NoScopeAdded
<1>5. BudgetsKept
  BY <1>1 DEF BudgetsKept, TypeOK, BudgetRow
<1> QED BY <1>3, <1>4, <1>5 DEF Footprint

LEMMA StepDispatch ==
  ASSUME TypeOK, NEW w \in Work, DispatchAdmit(w)
  PROVE  TypeOK' /\ Footprint
<1> DEFINE left == Less(budgets[w].left, Price(w))
           due == [q \in Quota |-> charged[w][q] + Price(w)[q]]
<1>1. /\ w \in DOMAIN works /\ works[w] \in WorkRow
      /\ w \in DOMAIN budgets /\ budgets[w] \in BudgetRow
      /\ budgets[w].left \in [Quota -> Nat]
      /\ charged[w] \in [Quota -> Nat]
      /\ Price(w) \in [Quota -> Nat]
  BY PriceType DEF DispatchAdmit, TypeOK, BudgetRow
<1>2. left \in [Quota -> Nat] /\ \A q \in Quota : left[q] <= budgets[w].left[q]
  BY <1>1, LessType DEF DispatchAdmit
<1>3. due \in [Quota -> Nat]
  BY <1>1
<1>4. /\ works' = [works EXCEPT ![w] = AtStanding(works[w], "HELD")]
      /\ budgets' = [budgets EXCEPT ![w] = Rewritten(budgets[w], left)]
      /\ charged' = [charged EXCEPT ![w] = due]
      /\ UNCHANGED proposals
  BY DEF DispatchAdmit
<1> HIDE DEF left, due
<1>5. /\ AtStanding(works[w], "HELD") \in WorkRow
      /\ SameIdentity(AtStanding(works[w], "HELD"), works[w])
  BY <1>1, StandingKeepsRow DEF SameIdentity, Standing
<1>6. /\ Rewritten(budgets[w], left) \in BudgetRow
      /\ Rewritten(budgets[w], left).left = left
      /\ Rewritten(budgets[w], left).depth = budgets[w].depth
      /\ Rewritten(budgets[w], left).gen = budgets[w].gen + 1
  BY <1>1, <1>2, RewrittenType
<1>7. TypeOK'
  BY <1>1, <1>3, <1>4, <1>5, <1>6 DEF TypeOK
<1>8. WorksKept /\ NoWorkAdded /\ NoScopeAdded
  BY <1>4, <1>5 DEF WorksKept, SameIdentity, NoWorkAdded, NoScopeAdded
<1>9. BudgetsKept
  <2> SUFFICES ASSUME NEW v \in DOMAIN budgets
               PROVE  /\ budgets'[v].depth = budgets[v].depth
                      /\ \A q \in Quota : budgets'[v].left[q] <= budgets[v].left[q]
                      /\ budgets'[v].gen = budgets[v].gen => budgets'[v].left = budgets[v].left
                      /\ budgets'[v].gen >= budgets[v].gen
    BY <1>4 DEF BudgetsKept
  <2>1. budgets[v] \in BudgetRow
    BY DEF TypeOK
  <2>2. CASE v = w
    BY <2>1, <2>2, <1>1, <1>2, <1>4, <1>6 DEF BudgetRow
  <2>3. CASE v # w
    BY <2>1, <2>3, <1>4 DEF BudgetRow
  <2> QED BY <2>2, <2>3
<1> QED BY <1>7, <1>8, <1>9 DEF Footprint

LEMMA StepCommit ==
  ASSUME TypeOK, NEW a \in proposals, CommitChild(a)
  PROVE  TypeOK' /\ Footprint
<1> DEFINE p == a.parent
           c == a.child
           left == Less(a.before, a.request)
           paid == [budgets EXCEPT ![p] = Rewritten(budgets[p], left)]
           scope == [depth |-> works[p].depth + 1, left |-> a.request, gen |-> 1]
           child == [parent |-> p, ancestry |-> AncestryUnder(p, c),
                     depth |-> works[p].depth + 1,
                     capabilities |-> Narrowed(works[p].capabilities, a.target),
                     standing |-> "PENDING"]
<1>1. /\ a \in Proposal
      /\ c \in Work /\ a.target \in SUBSET Capability
      /\ a.before \in [Quota -> Nat] /\ a.request \in [Quota -> Nat]
  BY DEF TypeOK, Proposal
<1>2. /\ p \in Work
      /\ p \in DOMAIN works /\ works[p] \in WorkRow
      /\ p \in DOMAIN budgets /\ budgets[p] \in BudgetRow
      /\ a.before = budgets[p].left
      /\ c \notin DOMAIN works /\ c \notin DOMAIN budgets
  BY DEF CommitChild, Fresh, TypeOK
<1>3. /\ budgets[p].depth = works[p].depth
      /\ c \notin works[p].ancestry
      /\ Requires[c] \subseteq Narrowed(works[p].capabilities, a.target)
      /\ works[p].depth < MaxDepth
      /\ works[p].standing # "TERMINAL"
      /\ \A q \in Quota : a.request[q] <= a.before[q]
  BY DEF CommitChild, Admissible, Allocatable, DepthLeft, ParentOpen
<1>4. left \in [Quota -> Nat] /\ \A q \in Quota : left[q] <= budgets[p].left[q]
  BY <1>1, <1>2, <1>3, LessType
<1>5. /\ budgets' = [j \in DOMAIN paid \cup {c} |-> IF j = c THEN scope ELSE paid[j]]
      /\ works' = [j \in DOMAIN works \cup {c} |-> IF j = c THEN child ELSE works[j]]
      /\ UNCHANGED <<charged, proposals>>
  BY DEF CommitChild, Extend
<1>6. child \in WorkRow /\ scope \in BudgetRow
  BY <1>1, <1>2 DEF WorkRow, BudgetRow, AncestryUnder, Narrowed, Standing
<1>7. /\ child.parent = p
      /\ child.ancestry = AncestryUnder(p, c)
      /\ child.depth = works[p].depth + 1
      /\ child.capabilities = Narrowed(works[p].capabilities, a.target)
      /\ scope.depth = works[p].depth + 1
  OBVIOUS
<1> HIDE DEF left, scope, child
<1>8. /\ Rewritten(budgets[p], left) \in BudgetRow
      /\ Rewritten(budgets[p], left).left = left
      /\ Rewritten(budgets[p], left).depth = budgets[p].depth
      /\ Rewritten(budgets[p], left).gen = budgets[p].gen + 1
  BY <1>2, <1>4, RewrittenType
<1>9. /\ DOMAIN paid = DOMAIN budgets
      /\ paid[p] = Rewritten(budgets[p], left)
      /\ \A v \in DOMAIN budgets \ {p} : paid[v] = budgets[v]
      /\ paid \in [DOMAIN paid -> BudgetRow]
  BY <1>2, <1>8 DEF TypeOK
<1> HIDE DEF paid
<1>10. /\ DOMAIN works' = DOMAIN works \cup {c}
       /\ works'[c] = child
       /\ \A v \in DOMAIN works : works'[v] = works[v]
       /\ works' \in [DOMAIN works' -> WorkRow]
  BY <1>2, <1>5, <1>6 DEF TypeOK
<1>11. /\ DOMAIN budgets' = DOMAIN budgets \cup {c}
       /\ budgets'[c] = scope
       /\ \A v \in DOMAIN budgets : budgets'[v] = paid[v]
       /\ budgets' \in [DOMAIN budgets' -> BudgetRow]
  BY <1>2, <1>5, <1>6, <1>9
<1>12. TypeOK'
  BY <1>1, <1>5, <1>10, <1>11 DEF TypeOK
<1>13. WorksKept
  BY <1>10 DEF WorksKept, SameIdentity
<1>14. BudgetsKept
  <2> SUFFICES ASSUME NEW v \in DOMAIN budgets
               PROVE  /\ budgets'[v].depth = budgets[v].depth
                      /\ \A q \in Quota : budgets'[v].left[q] <= budgets[v].left[q]
                      /\ budgets'[v].gen = budgets[v].gen => budgets'[v].left = budgets[v].left
                      /\ budgets'[v].gen >= budgets[v].gen
    BY <1>11 DEF BudgetsKept
  <2>1. budgets[v] \in BudgetRow
    BY DEF TypeOK
  <2>2. CASE v = p
    BY <2>1, <2>2, <1>4, <1>8, <1>9, <1>11 DEF BudgetRow
  <2>3. CASE v # p
    BY <2>1, <2>3, <1>9, <1>11 DEF BudgetRow
  <2> QED BY <2>2, <2>3
<1>15. ChildAdded
  BY <1>1, <1>2, <1>3, <1>7, <1>10, <1>11 DEF ChildAdded
<1> QED BY <1>12, <1>13, <1>14, <1>15 DEF Footprint

(* Every step keeps the type invariant and leaves the footprint.           *)
LEMMA StepFootprint ==
  ASSUME TypeOK, [Next]_vars
  PROVE  TypeOK' /\ Footprint
<1>1. CASE UNCHANGED vars
  <2>1. UNCHANGED <<works, budgets, charged, proposals>>
    BY <1>1 DEF vars
  <2>2. TypeOK'
    BY <2>1 DEF TypeOK
  <2>3. WorksKept /\ NoWorkAdded /\ NoScopeAdded
    BY <2>1 DEF WorksKept, SameIdentity, NoWorkAdded, NoScopeAdded
  <2>4. BudgetsKept
    BY <2>1 DEF BudgetsKept, TypeOK, BudgetRow
  <2> QED BY <2>2, <2>3, <2>4 DEF Footprint
<1>2. ASSUME NEW s \in Standing, PutRootWork(s) \/ PutRootBudget
      PROVE  TypeOK' /\ Footprint
  BY <1>2, StepRoot
<1>3. ASSUME NEW p \in Work, NEW c \in Work, NEW request \in Requests,
             NEW target \in Targets, Propose(p, c, request, target)
      PROVE  TypeOK' /\ Footprint
  BY <1>3, StepPropose
<1>4. ASSUME NEW a \in proposals, CommitChild(a)
      PROVE  TypeOK' /\ Footprint
  BY <1>4, StepCommit
<1>5. ASSUME NEW w \in Work, DispatchAdmit(w)
      PROVE  TypeOK' /\ Footprint
  BY <1>5, StepDispatch
<1>6. ASSUME NEW w \in Work, NEW s \in Standing, Progress(w, s)
      PROVE  TypeOK' /\ Footprint
  BY <1>6, StepProgress
<1>7. "PENDING" \in Standing
  BY DEF Standing
<1> QED BY <1>1, <1>2, <1>3, <1>4, <1>5, <1>6, <1>7 DEF Next

(* Every table stays well formed; in particular no scope's quota becomes   *)
(* negative, whatever planners and dispatchers interleave.                 *)
THEOREM TypeCorrect == Spec => []TypeOK
<1>1. TypeOK /\ [Next]_vars => TypeOK'
  BY StepFootprint
<1> QED BY InitTypeOK, <1>1, PTL DEF Spec

---------------------------------------------------------------------------
(* The inductive invariant.  The root comes before all other work, so that *)
(* no child takes its name; a scope without work is the root's; and each   *)
(* unit is in its own ancestry, which is what lets a child's ancestry be   *)
(* its parent's and itself.                                                *)
RootFirst ==
  /\ \A w \in DOMAIN works : w \in works[w].ancestry /\ Root \in DOMAIN works
  /\ \A w \in DOMAIN budgets \ DOMAIN works : w = Root /\ budgets[w].depth = 0
  /\ Root \in DOMAIN works => works[Root].depth = 0

Inv == TypeOK /\ RootFirst /\ AncestryIsPath /\ AuthorityNarrows

LEMMA InitInv == Init => Inv
  BY InitTypeOK DEF Init, Inv, RootFirst, AncestryIsPath, AuthorityNarrows

LEMMA KeepsRootFirst ==
  ASSUME TypeOK, RootFirst, Footprint
  PROVE  RootFirst'
<1>1. CASE NoWorkAdded /\ NoScopeAdded
  BY <1>1 DEF Footprint, WorksKept, BudgetsKept, SameIdentity, NoWorkAdded, NoScopeAdded, RootFirst
<1>2. CASE RootWorkAdded
  BY <1>2 DEF Footprint, WorksKept, SameIdentity, RootWorkAdded, RootWork, RootFirst
<1>3. CASE RootBudgetAdded
  BY <1>3 DEF Footprint, BudgetsKept, RootBudgetAdded, RootFirst
<1>4. CASE ChildAdded
  BY <1>4 DEF Footprint, WorksKept, BudgetsKept, SameIdentity, ChildAdded, AncestryUnder, RootFirst
<1> QED BY <1>1, <1>2, <1>3, <1>4 DEF Footprint

LEMMA KeepsPath ==
  ASSUME TypeOK, TypeOK', RootFirst, AncestryIsPath, Footprint
  PROVE  AncestryIsPath'
<1> USE LineageAssumption
<1>1. CASE NoWorkAdded /\ NoScopeAdded
  BY <1>1 DEF Footprint, WorksKept, BudgetsKept, SameIdentity, NoWorkAdded, NoScopeAdded, AncestryIsPath
<1>2. CASE RootWorkAdded
  BY <1>2 DEF Footprint, WorksKept, SameIdentity, RootWorkAdded, RootWork, RootFirst, AncestryIsPath
<1>3. CASE RootBudgetAdded
  BY <1>3 DEF Footprint, BudgetsKept, RootBudgetAdded, RootFirst, AncestryIsPath
<1>4. CASE ChildAdded
  <2>1. PICK p \in DOMAIN works, c \in Work :
          /\ p \in DOMAIN budgets
          /\ c \notin DOMAIN works
          /\ c \notin DOMAIN budgets
          /\ c \notin works[p].ancestry
          /\ works[p].depth < MaxDepth
          /\ DOMAIN works' = DOMAIN works \cup {c}
          /\ DOMAIN budgets' = DOMAIN budgets \cup {c}
          /\ works'[c].parent = p
          /\ works'[c].ancestry = AncestryUnder(p, c)
          /\ works'[c].depth = works[p].depth + 1
          /\ budgets'[c].depth = works[p].depth + 1
    BY <1>4 DEF ChildAdded
  <2>2. works[p].depth \in Nat /\ p \in works[p].ancestry /\ p # c
    BY <2>1 DEF TypeOK, WorkRow, RootFirst
  <2>3. /\ \A w \in DOMAIN works : SameIdentity(works'[w], works[w])
        /\ \A w \in DOMAIN budgets : budgets'[w].depth = budgets[w].depth
    BY DEF Footprint, WorksKept, BudgetsKept
  <2>4. ASSUME NEW w \in DOMAIN works'
        PROVE  /\ works'[w].depth <= MaxDepth
               /\ w \in DOMAIN budgets' => budgets'[w].depth = works'[w].depth
    <3>1. CASE w = c
      BY <2>1, <2>2, <3>1
    <3>2. CASE w # c
      BY <2>1, <2>3, <3>2 DEF AncestryIsPath, SameIdentity
    <3> QED BY <3>1, <3>2
  <2>5. ASSUME NEW w \in DOMAIN works' \ {Root}
        PROVE  /\ works'[w].parent \in DOMAIN works'
               /\ w \in DOMAIN budgets'
               /\ works'[w].ancestry = works'[works'[w].parent].ancestry \cup {w}
               /\ w \notin works'[works'[w].parent].ancestry
               /\ works'[w].depth = works'[works'[w].parent].depth + 1
    <3>1. CASE w = c
      BY <2>1, <2>2, <2>3, <3>1 DEF AncestryUnder, SameIdentity
    <3>2. CASE w # c
      BY <2>1, <2>3, <3>2 DEF AncestryIsPath, SameIdentity
    <3> QED BY <3>1, <3>2
  <2> QED BY <2>4, <2>5 DEF AncestryIsPath
<1> QED BY <1>1, <1>2, <1>3, <1>4 DEF Footprint

LEMMA KeepsAuthority ==
  ASSUME TypeOK, RootFirst, AuthorityNarrows, Footprint
  PROVE  AuthorityNarrows'
<1> USE LineageAssumption
<1>1. CASE NoWorkAdded /\ NoScopeAdded
  BY <1>1 DEF Footprint, WorksKept, SameIdentity, NoWorkAdded, AuthorityNarrows
<1>2. CASE RootWorkAdded
  BY <1>2 DEF Footprint, WorksKept, SameIdentity, RootWorkAdded, RootWork, AuthorityNarrows
<1>3. CASE RootBudgetAdded
  BY <1>3 DEF RootBudgetAdded, AuthorityNarrows
<1>4. CASE ChildAdded
  <2>1. PICK p \in DOMAIN works, c \in Work, target \in SUBSET Capability :
          /\ c \notin DOMAIN works
          /\ Requires[c] \subseteq Narrowed(works[p].capabilities, target)
          /\ DOMAIN works' = DOMAIN works \cup {c}
          /\ works'[c].ancestry = AncestryUnder(p, c)
          /\ works'[c].capabilities = Narrowed(works[p].capabilities, target)
    BY <1>4 DEF ChildAdded
  <2>2. \A w \in DOMAIN works : SameIdentity(works'[w], works[w])
    BY DEF Footprint, WorksKept
  <2> SUFFICES ASSUME NEW w \in DOMAIN works'
               PROVE  /\ Requires[w] \subseteq works'[w].capabilities
                      /\ \A a \in works'[w].ancestry :
                           a \in DOMAIN works' /\ works'[w].capabilities \subseteq works'[a].capabilities
    BY DEF AuthorityNarrows
  <2>3. CASE w = c
    BY <2>1, <2>2, <2>3 DEF AuthorityNarrows, SameIdentity, Narrowed, AncestryUnder
  <2>4. CASE w # c
    BY <2>1, <2>2, <2>4 DEF AuthorityNarrows, SameIdentity
  <2> QED BY <2>3, <2>4
<1> QED BY <1>1, <1>2, <1>3, <1>4 DEF Footprint

LEMMA NextInv == Inv /\ [Next]_vars => Inv'
  BY StepFootprint, KeepsRootFirst, KeepsPath, KeepsAuthority DEF Inv

(* The inductive invariant holds of every behaviour. *)
THEOREM Invariant == Spec => []Inv
  BY InitInv, NextInv, PTL DEF Spec

(* Decomposition is a tree of bounded depth for every set of work units,   *)
(* and commit_child keeps stored ancestry, depth and budget depth in step. *)
THEOREM PathsHold == Spec => []AncestryIsPath
<1>1. Inv => AncestryIsPath
  BY DEF Inv
<1> QED BY Invariant, <1>1, PTL

(* Delegated authority only narrows along the whole ancestry.              *)
THEOREM AuthorityHolds == Spec => []AuthorityNarrows
<1>1. Inv => AuthorityNarrows
  BY DEF Inv
<1> QED BY Invariant, <1>1, PTL

(* A scope only loses quota, and never silently.                           *)
THEOREM QuotaNarrows == Spec => QuotaOnlyNarrows
<1> DEFINE Narrows ==
      \A w \in DOMAIN budgets :
        /\ w \in DOMAIN budgets'
        /\ \A q \in Quota : budgets'[w].left[q] <= budgets[w].left[q]
        /\ budgets'[w].left # budgets[w].left => budgets'[w].gen > budgets[w].gen
<1>1. TypeOK /\ [Next]_vars => [Narrows]_vars
  <2> SUFFICES ASSUME TypeOK, [Next]_vars, NEW w \in DOMAIN budgets
               PROVE  /\ w \in DOMAIN budgets'
                      /\ \A q \in Quota : budgets'[w].left[q] <= budgets[w].left[q]
                      /\ budgets'[w].left # budgets[w].left => budgets'[w].gen > budgets[w].gen
    OBVIOUS
  <2>1. TypeOK' /\ BudgetsKept
    BY StepFootprint DEF Footprint
  <2>2. w \in DOMAIN budgets'
    BY <2>1 DEF BudgetsKept
  <2>3. budgets[w].gen \in Nat
    BY DEF TypeOK, BudgetRow
  <2>4. budgets'[w].gen \in Nat
    BY <2>1, <2>2 DEF TypeOK, BudgetRow
  <2> QED BY <2>1, <2>2, <2>3, <2>4 DEF BudgetsKept
<1> QED BY TypeCorrect, <1>1, PTL DEF Spec, QuotaOnlyNarrows

(* However old its plan, no child is committed under a terminal parent:    *)
(* commit_child reads the parent's status in its own transaction.          *)
THEOREM TerminalParentsStayChildless == Spec => TerminalWorkGetsNoChild
<1> DEFINE Closed ==
      \A w \in DOMAIN works : works[w].standing = "TERMINAL" => Children(w)' = Children(w)
<1>1. TypeOK /\ [Next]_vars => [Closed]_vars
  <2> SUFFICES ASSUME TypeOK, [Next]_vars,
                      NEW w \in DOMAIN works, works[w].standing = "TERMINAL"
               PROVE  Children(w)' = Children(w)
    OBVIOUS
  <2>1. Footprint
    BY StepFootprint
  <2>2. \A v \in DOMAIN works : v \in DOMAIN works' /\ works'[v].parent = works[v].parent
    BY <2>1 DEF Footprint, WorksKept, SameIdentity
  <2>3. CASE NoWorkAdded \/ RootBudgetAdded
    BY <2>2, <2>3 DEF NoWorkAdded, RootBudgetAdded, Children
  <2>4. CASE RootWorkAdded
    BY <2>2, <2>4 DEF RootWorkAdded, Children
  <2>5. CASE ChildAdded
    <3>1. PICK p \in DOMAIN works, c \in Work :
            /\ works[p].standing # "TERMINAL"
            /\ DOMAIN works' = DOMAIN works \cup {c}
            /\ works'[c].parent = p
      BY <2>5 DEF ChildAdded
    <3>2. p # w
      BY <3>1
    <3>3. c \notin DOMAIN works \/ works[c].parent = p
      BY <2>2, <3>1
    <3> QED BY <2>2, <3>1, <3>2, <3>3 DEF Children
  <2> QED BY <2>1, <2>3, <2>4, <2>5 DEF Footprint
<1> QED BY TypeCorrect, <1>1, PTL DEF Spec, TerminalWorkGetsNoChild

---------------------------------------------------------------------------
(* Sums over finite sets.  MapThenSumSet is a recursive function on the    *)
(* subsets; what is shown of it is what no order of summing changes.       *)

First(s) == CHOOSE x \in s : TRUE

IsSum(g, f, S) ==
  g = [s \in SUBSET S |-> IF s = {} THEN 0 ELSE f[First(s)] + g[s \ {First(s)}]]

Total(f, S) == MapThenSumSet(LAMBDA x : f[x], S)

(* Induction over the subsets of a finite set: a smallest counterexample.  *)
LEMMA SmallestSubset ==
  ASSUME NEW S, IsFiniteSet(S), NEW F \in SUBSET SUBSET S, F # {}
  PROVE  \E T \in F : \A x \in T : T \ {x} \notin F
<1>1. IsWellFoundedOn(StrictSubsetOrdering(S), SUBSET S)
  <2>1. FiniteSubsetsOf(S) = SUBSET S
    BY FS_FiniteSubsetsOfFinite
  <2>2. IsWellFoundedOn(StrictSubsetOrdering(S), FiniteSubsetsOf(S))
    BY FS_StrictSubsetOrderingWellFounded
  <2> QED BY <2>1, <2>2
<1>2. PICK T \in F : \A U \in F : <<U, T>> \notin StrictSubsetOrdering(S)
  BY <1>1, WFMin
<1> QED BY <1>2 DEF StrictSubsetOrdering

LEMMA FirstIn ==
  ASSUME NEW s, s # {}
  PROVE  First(s) \in s
  BY DEF First

LEMMA SumAt ==
  ASSUME NEW S, NEW f, NEW g, IsSum(g, f, S), NEW s \in SUBSET S
  PROVE  /\ s = {} => g[s] = 0
         /\ s # {} => First(s) \in s /\ g[s] = f[First(s)] + g[s \ {First(s)}]
<1>1. g[s] = IF s = {} THEN 0 ELSE f[First(s)] + g[s \ {First(s)}]
  BY DEF IsSum
<1> QED BY <1>1, FirstIn

(* Two sums of the same numbers agree where both are defined. *)
LEMMA SumsAgree ==
  ASSUME NEW A, NEW B, IsFiniteSet(A), NEW f, NEW e, NEW g, NEW h,
         IsSum(g, f, A), IsSum(h, e, B), \A x \in A \cap B : f[x] = e[x]
  PROVE  \A s \in SUBSET (A \cap B) : g[s] = h[s]
<1> DEFINE F == {s \in SUBSET (A \cap B) : g[s] # h[s]}
<1>1. SUFFICES ASSUME F # {} PROVE FALSE
  OBVIOUS
<1>2. IsFiniteSet(A \cap B)
  BY FS_Subset
<1>3. PICK T \in F : \A x \in T : T \ {x} \notin F
  BY <1>1, <1>2, SmallestSubset
<1>4. T \in SUBSET A /\ T \in SUBSET B /\ g[T] # h[T]
  BY <1>3
<1>5. T # {}
  BY <1>4, SumAt
<1>6. First(T) \in T
  BY <1>5, FirstIn
<1>7. g[T \ {First(T)}] = h[T \ {First(T)}]
  BY <1>3, <1>4, <1>6
<1>8. f[First(T)] = e[First(T)]
  BY <1>4, <1>6
<1>9. g[T] = f[First(T)] + g[T \ {First(T)}] /\ h[T] = e[First(T)] + h[T \ {First(T)}]
  BY <1>4, <1>5, SumAt
<1> QED BY <1>4, <1>7, <1>8, <1>9

LEMMA SumExists ==
  ASSUME NEW S, IsFiniteSet(S), NEW f
  PROVE  \E g : IsSum(g, f, S)
<1> DEFINE F == {T \in SUBSET S : ~\E g : IsSum(g, f, T)}
<1>1. SUFFICES ASSUME F # {} PROVE FALSE
  OBVIOUS
<1>2. PICK T \in F : \A x \in T : T \ {x} \notin F
  BY <1>1, SmallestSubset
<1> DEFINE G(x) == CHOOSE g : IsSum(g, f, T \ {x})
           Out(s) == CHOOSE x \in T : x \notin s
           v(s) == G(Out(s))[s]
<1>3. \A x \in T : IsSum(G(x), f, T \ {x})
  <2> SUFFICES ASSUME NEW x \in T PROVE IsSum(G(x), f, T \ {x})
    OBVIOUS
  <2>1. \E g : IsSum(g, f, T \ {x})
    BY <1>2
  <2> QED BY <2>1
<1>4. \A s \in SUBSET T : s # T => Out(s) \in T /\ Out(s) \notin s
  OBVIOUS
<1> HIDE DEF G, Out
<1>5. \A s \in SUBSET T, x \in T : x \notin s => v(s) = G(x)[s]
  <2> SUFFICES ASSUME NEW s \in SUBSET T, NEW x \in T, x \notin s
               PROVE  v(s) = G(x)[s]
    OBVIOUS
  <2>1. Out(s) \in T /\ Out(s) \notin s
    BY <1>4
  <2>2. IsSum(G(x), f, T \ {x}) /\ IsSum(G(Out(s)), f, T \ {Out(s)})
    BY <1>3, <2>1
  <2>3. IsFiniteSet(T \ {x})
    BY <1>2, FS_Subset
  <2>4. s \in SUBSET ((T \ {x}) \cap (T \ {Out(s)}))
    BY <2>1
  <2>5. \A u \in SUBSET ((T \ {x}) \cap (T \ {Out(s)})) : G(x)[u] = G(Out(s))[u]
    BY <2>2, <2>3, SumsAgree
  <2> QED BY <2>4, <2>5
<1> HIDE DEF v
<1> DEFINE h == [s \in SUBSET T |->
                   IF s = {} THEN 0
                   ELSE IF s = T THEN f[First(T)] + v(T \ {First(T)}) ELSE v(s)]
<1>6. ASSUME NEW s \in SUBSET T, s # {}
      PROVE  h[s] = f[First(s)] + h[s \ {First(s)}]
  <2>1. First(s) \in s
    BY <1>6, FirstIn
  <2>2. s \ {First(s)} \in SUBSET T /\ s \ {First(s)} # T
    BY <2>1
  <2>3. h[s \ {First(s)}] = v(s \ {First(s)})
    <3>1. CASE s \ {First(s)} = {}
      <4>1. h[s \ {First(s)}] = 0
        BY <2>2, <3>1
      <4>2. v(s \ {First(s)}) = G(First(s))[s \ {First(s)}]
        BY <1>5, <2>1
      <4>3. IsSum(G(First(s)), f, T \ {First(s)}) /\ s \ {First(s)} \in SUBSET (T \ {First(s)})
        BY <1>3, <2>1
      <4>4. G(First(s))[s \ {First(s)}] = 0
        BY <3>1, <4>3, SumAt
      <4> QED BY <4>1, <4>2, <4>4
    <3>2. CASE s \ {First(s)} # {}
      BY <2>2, <3>2
    <3> QED BY <3>1, <3>2
  <2>4. CASE s = T
    BY <1>6, <2>3, <2>4
  <2>5. CASE s # T
    <3>1. h[s] = v(s)
      BY <1>6, <2>5
    <3>2. PICK x \in T : x \notin s
      BY <2>5
    <3>3. v(s) = G(x)[s] /\ v(s \ {First(s)}) = G(x)[s \ {First(s)}]
      BY <1>5, <2>2, <3>2
    <3>4. IsSum(G(x), f, T \ {x}) /\ s \in SUBSET (T \ {x})
      BY <1>3, <3>2
    <3>5. G(x)[s] = f[First(s)] + G(x)[s \ {First(s)}]
      BY <1>6, <3>4, SumAt
    <3> QED BY <2>3, <3>1, <3>3, <3>5
  <2> QED BY <2>4, <2>5
<1>7. h[{}] = 0
  OBVIOUS
<1>8. \E g : IsSum(g, f, T)
  <2>1. PICK g : g = h
    OBVIOUS
  <2>2. g = [s \in SUBSET T |-> g[s]]
    BY <2>1
  <2>3. \A s \in SUBSET T : g[s] = IF s = {} THEN 0 ELSE f[First(s)] + g[s \ {First(s)}]
    BY <1>6, <1>7, <2>1
  <2> HIDE DEF h
  <2>4. IsSum(g, f, T)
    BY <2>2, <2>3 DEF IsSum
  <2> QED BY <2>4
<1> QED BY <1>2, <1>8

(* Any element may be taken out of a sum. *)
LEMMA SumSplits ==
  ASSUME NEW S, IsFiniteSet(S), NEW f, \A x \in S : f[x] \in Nat, NEW g, IsSum(g, f, S)
  PROVE  /\ \A s \in SUBSET S : g[s] \in Nat
         /\ \A s \in SUBSET S : \A x \in s : g[s] = f[x] + g[s \ {x}]
<1>1. \A s \in SUBSET S : g[s] \in Nat
  <2> DEFINE F == {s \in SUBSET S : g[s] \notin Nat}
  <2>1. SUFFICES ASSUME F # {} PROVE FALSE
    OBVIOUS
  <2>2. PICK T \in F : \A x \in T : T \ {x} \notin F
    BY <2>1, SmallestSubset
  <2>3. T \in SUBSET S /\ g[T] \notin Nat
    BY <2>2
  <2>4. T # {}
    <3>1. T = {} => g[T] = 0
      BY <2>3, SumAt
    <3> QED BY <2>3, <3>1
  <2>5. First(T) \in T /\ g[T] = f[First(T)] + g[T \ {First(T)}]
    BY <2>3, <2>4, SumAt
  <2>6. g[T \ {First(T)}] \in Nat
    BY <2>2, <2>3, <2>5
  <2>7. f[First(T)] \in Nat
    BY <2>3, <2>5
  <2> QED BY <2>3, <2>5, <2>6, <2>7
<1> DEFINE F == {s \in SUBSET S : ~\A x \in s : g[s] = f[x] + g[s \ {x}]}
<1>2. SUFFICES ASSUME F # {} PROVE FALSE
  BY <1>1
<1>3. PICK T \in F : \A x \in T : T \ {x} \notin F
  BY <1>2, SmallestSubset
<1>4. T \in SUBSET S
  BY <1>3
<1>5. PICK x \in T : g[T] # f[x] + g[T \ {x}]
  BY <1>3
<1>6. PICK y : y = First(T)
  OBVIOUS
<1>7. y \in T /\ g[T] = f[y] + g[T \ {y}]
  BY <1>4, <1>5, <1>6, SumAt
<1>8. x # y
  BY <1>5, <1>7
<1>9. T \ {y} \notin F /\ T \ {x} \notin F
  BY <1>3, <1>5, <1>7
<1>10. T \ {y} \in SUBSET S /\ T \ {x} \in SUBSET S /\ x \in T \ {y} /\ y \in T \ {x}
  BY <1>4, <1>5, <1>7, <1>8
<1>11. g[T \ {y}] = f[x] + g[(T \ {y}) \ {x}] /\ g[T \ {x}] = f[y] + g[(T \ {x}) \ {y}]
  BY <1>9, <1>10
<1>12. (T \ {y}) \ {x} = (T \ {x}) \ {y}
  OBVIOUS
<1>13. f[x] \in Nat /\ f[y] \in Nat /\ g[(T \ {x}) \ {y}] \in Nat
  <2>1. (T \ {x}) \ {y} \in SUBSET S /\ x \in S /\ y \in S
    BY <1>4, <1>5, <1>7
  <2>2. f[x] \in Nat /\ f[y] \in Nat
    BY <2>1
  <2>3. PICK u : u = (T \ {x}) \ {y}
    OBVIOUS
  <2>4. g[u] \in Nat
    BY <1>1, <2>1, <2>3
  <2> QED BY <2>2, <2>3, <2>4
<1>14. PICK u : u = (T \ {x}) \ {y}
  OBVIOUS
<1>15. PICK n \in Nat : n = g[u]
  BY <1>13, <1>14
<1>16. PICK a \in Nat : a = f[x]
  BY <1>13
<1>17. PICK b \in Nat : b = f[y]
  BY <1>13
<1>18. g[T \ {y}] = a + n
  BY <1>11, <1>12, <1>14, <1>15, <1>16
<1>19. g[T \ {x}] = b + n
  BY <1>11, <1>14, <1>15, <1>17
<1>20. g[T] = b + (a + n)
  BY <1>7, <1>17, <1>18
<1>21. g[T] # a + (b + n)
  BY <1>5, <1>16, <1>19
<1>22. b + (a + n) = a + (b + n)
  OBVIOUS
<1> QED BY <1>20, <1>21, <1>22

LEMMA TotalIsSum ==
  ASSUME NEW S, IsFiniteSet(S), NEW f
  PROVE  \E g : IsSum(g, f, S) /\ Total(f, S) = g[S]
<1>1. Total(f, S) = (CHOOSE g : IsSum(g, f, S))[S]
  BY DEF Total, MapThenSumSet, MapThenFoldSet, IsSum, First
<1>2. \E g : IsSum(g, f, S)
  BY SumExists
<1> QED BY <1>1, <1>2

LEMMA TotalType ==
  ASSUME NEW S, IsFiniteSet(S), NEW f, \A x \in S : f[x] \in Nat
  PROVE  Total(f, S) \in Nat
<1>1. PICK g : IsSum(g, f, S) /\ Total(f, S) = g[S]
  BY TotalIsSum
<1> QED BY <1>1, SumSplits

LEMMA TotalOfNone ==
  ASSUME NEW f
  PROVE  Total(f, {}) = 0
<1>1. IsFiniteSet({})
  BY FS_EmptySet
<1>2. PICK g : IsSum(g, f, {}) /\ Total(f, {}) = g[{}]
  BY <1>1, TotalIsSum
<1> QED BY <1>2, SumAt

LEMMA TotalSplits ==
  ASSUME NEW S, IsFiniteSet(S), NEW f, \A x \in S : f[x] \in Nat, NEW x \in S
  PROVE  Total(f, S) = f[x] + Total(f, S \ {x})
<1>1. PICK g : IsSum(g, f, S) /\ Total(f, S) = g[S]
  BY TotalIsSum
<1>2. IsFiniteSet(S \ {x})
  BY FS_Subset
<1>3. PICK h : IsSum(h, f, S \ {x}) /\ Total(f, S \ {x}) = h[S \ {x}]
  BY <1>2, TotalIsSum
<1>4. S \ {x} \in SUBSET (S \cap (S \ {x}))
  OBVIOUS
<1>5. g[S \ {x}] = h[S \ {x}]
  <2>1. \A s \in SUBSET (S \cap (S \ {x})) : g[s] = h[s]
    BY <1>1, <1>3, SumsAgree
  <2> QED BY <1>4, <2>1
<1>6. g[S] = f[x] + g[S \ {x}]
  BY <1>1, SumSplits
<1> QED BY <1>1, <1>3, <1>5, <1>6

LEMMA TotalsAgree ==
  ASSUME NEW S, IsFiniteSet(S), NEW f, NEW e, \A x \in S : f[x] = e[x]
  PROVE  Total(f, S) = Total(e, S)
<1>1. PICK g : IsSum(g, f, S) /\ Total(f, S) = g[S]
  BY TotalIsSum
<1>2. PICK h : IsSum(h, e, S) /\ Total(e, S) = h[S]
  BY TotalIsSum
<1>3. \A s \in SUBSET (S \cap S) : g[s] = h[s]
  <2>1. \A x \in S \cap S : f[x] = e[x]
    OBVIOUS
  <2> QED BY <1>1, <1>2, <2>1, SumsAgree
<1> QED BY <1>1, <1>2, <1>3

(* A sum moves by what one of its numbers moves. *)
LEMMA TotalMoves ==
  ASSUME NEW S, IsFiniteSet(S), NEW f, NEW e, NEW y \in S,
         \A x \in S : f[x] \in Nat, \A x \in S : e[x] \in Nat,
         \A x \in S : x # y => e[x] = f[x]
  PROVE  Total(e, S) + f[y] = Total(f, S) + e[y]
<1>1. IsFiniteSet(S \ {y})
  BY FS_Subset
<1>2. Total(f, S \ {y}) = Total(e, S \ {y})
  <2>1. \A x \in S \ {y} : f[x] = e[x]
    OBVIOUS
  <2> QED BY <1>1, <2>1, TotalsAgree
<1>3. Total(f, S) = f[y] + Total(f, S \ {y}) /\ Total(e, S) = e[y] + Total(e, S \ {y})
  BY TotalSplits
<1>4. Total(f, S \ {y}) \in Nat /\ f[y] \in Nat /\ e[y] \in Nat
  <2>1. \A x \in S \ {y} : f[x] \in Nat
    OBVIOUS
  <2> QED BY <1>1, <2>1, TotalType
<1> QED BY <1>2, <1>3, <1>4

LEMMA TotalOfZeros ==
  ASSUME NEW S, IsFiniteSet(S), NEW f, \A x \in S : f[x] = 0
  PROVE  Total(f, S) = 0
<1>1. PICK g : IsSum(g, f, S) /\ Total(f, S) = g[S]
  BY TotalIsSum
<1> DEFINE F == {s \in SUBSET S : g[s] # 0}
<1>2. SUFFICES ASSUME F # {} PROVE FALSE
  BY <1>1
<1>3. PICK T \in F : \A x \in T : T \ {x} \notin F
  BY <1>2, SmallestSubset
<1>4. T \in SUBSET S /\ g[T] # 0
  BY <1>3
<1>5. T # {}
  BY <1>1, <1>4, SumAt
<1>6. First(T) \in T /\ g[T] = f[First(T)] + g[T \ {First(T)}]
  BY <1>1, <1>4, <1>5, SumAt
<1>7. g[T \ {First(T)}] = 0 /\ f[First(T)] = 0
  BY <1>3, <1>4, <1>6
<1> QED BY <1>4, <1>6, <1>7

---------------------------------------------------------------------------
(* The tree's ledger.  Before the root has its budget there is none at     *)
(* all and nothing was charged; from then on what is left and what was     *)
(* charged make up what the root was given.                                *)

Left(B, q) == [w \in DOMAIN B |-> B[w].left[q]]

Taken(C, q) == [w \in Work |-> C[w][q]]

Balanced(B, C) ==
  \A q \in Quota : RootQuota[q] = Total(Left(B, q), DOMAIN B) + Total(Taken(C, q), Work)

Balance ==
  /\ Root \notin DOMAIN budgets => DOMAIN budgets = {} /\ charged = [w \in Work |-> Nothing]
  /\ Root \in DOMAIN budgets => Balanced(budgets, charged)

(* What the ledger adds up are quotas of finitely many scopes. *)
LEMMA LedgerType ==
  ASSUME NEW B, DOMAIN B \subseteq Work, B \in [DOMAIN B -> BudgetRow],
         NEW C \in [Work -> [Quota -> Nat]], NEW q \in Quota
  PROVE  /\ IsFiniteSet(DOMAIN B)
         /\ \A w \in DOMAIN B : Left(B, q)[w] = B[w].left[q] /\ Left(B, q)[w] \in Nat
         /\ \A w \in Work : Taken(C, q)[w] = C[w][q] /\ Taken(C, q)[w] \in Nat
         /\ Total(Left(B, q), DOMAIN B) \in Nat
         /\ Total(Taken(C, q), Work) \in Nat
<1>1. IsFiniteSet(Work) /\ IsFiniteSet(DOMAIN B)
  BY LineageAssumption, FS_Subset
<1>2. \A w \in DOMAIN B : Left(B, q)[w] = B[w].left[q] /\ Left(B, q)[w] \in Nat
  BY DEF Left, BudgetRow
<1>3. \A w \in Work : Taken(C, q)[w] = C[w][q] /\ Taken(C, q)[w] \in Nat
  BY DEF Taken
<1>4. Total(Left(B, q), DOMAIN B) \in Nat
  BY <1>1, <1>2, TotalType
<1>5. Total(Taken(C, q), Work) \in Nat
  BY <1>1, <1>3, TotalType
<1> QED BY <1>1, <1>2, <1>3, <1>4, <1>5

(* The root scope starts the ledger with the root's quota. *)
LEMMA RootBalances ==
  ASSUME TypeOK, Balance, PutRootBudget
  PROVE  Root \in DOMAIN budgets' /\ Balanced(budgets', charged')
<1>1. /\ DOMAIN budgets = {}
      /\ charged = [w \in Work |-> Nothing]
      /\ charged' = charged
  BY DEF Balance, PutRootBudget
<1>2. /\ DOMAIN budgets' = {Root}
      /\ budgets'[Root].left = RootQuota
  BY <1>1 DEF PutRootBudget, Extend
<1> SUFFICES ASSUME NEW q \in Quota
             PROVE  RootQuota[q] = Total(Left(budgets', q), {Root}) + Total(Taken(charged, q), Work)
  BY <1>1, <1>2 DEF Balanced
<1>3. PICK f : f = Left(budgets', q)
  OBVIOUS
<1>4. f[Root] = RootQuota[q] /\ RootQuota[q] \in Nat
  BY <1>2, <1>3, LineageAssumption DEF Left
<1>5. Total(f, {Root}) = f[Root] + Total(f, {Root} \ {Root})
  <2>1. IsFiniteSet({Root})
    BY FS_Singleton
  <2>2. \A w \in {Root} : f[w] \in Nat
    BY <1>4
  <2> QED BY <2>1, <2>2, TotalSplits
<1>6. Total(f, {Root} \ {Root}) = 0
  <2>1. {Root} \ {Root} = {}
    OBVIOUS
  <2>2. Total(f, {}) = 0
    BY TotalOfNone
  <2> QED BY <2>1, <2>2
<1>7. Total(Taken(charged, q), Work) = 0
  <2>1. \A w \in Work : Taken(charged, q)[w] = 0
    BY <1>1 DEF Taken, Nothing
  <2>2. IsFiniteSet(Work)
    BY LineageAssumption
  <2> QED BY <2>1, <2>2, TotalOfZeros
<1> QED BY <1>3, <1>4, <1>5, <1>6, <1>7

(* A child's scope is what its parent's gives up. *)
LEMMA CommitBalances ==
  ASSUME TypeOK, TypeOK', Balance, NEW a \in proposals, CommitChild(a)
  PROVE  Root \in DOMAIN budgets' /\ Balanced(budgets', charged')
<1> DEFINE D == DOMAIN budgets
<1>1. PICK p \in D, c \in Work :
        /\ p = a.parent /\ c = a.child
        /\ c \notin D
        /\ a.before = budgets[p].left
        /\ \A q \in Quota : a.request[q] <= a.before[q]
        /\ charged' = charged
        /\ budgets' = Extend([budgets EXCEPT ![p] = Rewritten(@, Less(a.before, a.request))], c,
                             [depth |-> works[p].depth + 1, left |-> a.request, gen |-> 1])
  BY DEF CommitChild, Fresh, Admissible, Allocatable, TypeOK, Proposal
<1>2. /\ DOMAIN budgets' = D \cup {c}
      /\ budgets'[c].left = a.request
      /\ budgets'[p].left = Less(a.before, a.request)
      /\ \A w \in D \ {p} : budgets'[w] = budgets[w]
  <2>1. budgets'[c].left = a.request
    BY <1>1 DEF Extend
  <2>2. budgets'[p] = Rewritten(budgets[p], Less(a.before, a.request))
    BY <1>1 DEF Extend
  <2>3. budgets'[p].left = Less(a.before, a.request)
    BY <2>2 DEF Rewritten
  <2> QED BY <1>1, <2>1, <2>3 DEF Extend
<1>3. Root \in D /\ Balanced(budgets, charged)
  BY <1>1 DEF Balance
<1> SUFFICES ASSUME NEW q \in Quota
             PROVE  RootQuota[q] = Total(Left(budgets', q), DOMAIN budgets')
                                   + Total(Taken(charged, q), Work)
  BY <1>1, <1>2, <1>3 DEF Balanced
<1>4. PICK f : f = Left(budgets, q)
  OBVIOUS
<1>5. PICK e : e = Left(budgets', q)
  OBVIOUS
<1>6. /\ IsFiniteSet(D)
      /\ \A w \in D : f[w] = budgets[w].left[q] /\ f[w] \in Nat
      /\ Total(f, D) \in Nat
  BY <1>4, LedgerType DEF TypeOK
<1>7. /\ IsFiniteSet(DOMAIN budgets')
      /\ \A w \in DOMAIN budgets' : e[w] = budgets'[w].left[q] /\ e[w] \in Nat
  <2>1. /\ DOMAIN budgets' \subseteq Work
        /\ budgets' \in [DOMAIN budgets' -> BudgetRow]
        /\ charged \in [Work -> [Quota -> Nat]]
    BY DEF TypeOK
  <2> QED BY <1>5, <2>1, LedgerType
<1>8. PICK n \in Nat : n = a.request[q]
  BY DEF TypeOK, Proposal
<1>9. e[c] = n
  BY <1>2, <1>7, <1>8
<1>10. f[p] = a.before[q] /\ e[p] = a.before[q] - n
  <2>1. f[p] = a.before[q]
    BY <1>1, <1>6
  <2>2. p \in DOMAIN budgets'
    BY <1>1, <1>2
  <2>3. e[p] = Less(a.before, a.request)[q]
    BY <1>2, <1>7, <2>2
  <2>4. Less(a.before, a.request)[q] = a.before[q] - a.request[q]
    BY DEF Less
  <2> QED BY <1>8, <2>1, <2>3, <2>4
<1>11. Total(e, D \cup {c}) = e[c] + Total(e, (D \cup {c}) \ {c})
  <2>1. IsFiniteSet(D \cup {c}) /\ \A w \in D \cup {c} : e[w] \in Nat
    BY <1>2, <1>7
  <2> QED BY <2>1, TotalSplits
<1>12. (D \cup {c}) \ {c} = D
  BY <1>1
<1>13. Total(e, D) + f[p] = Total(f, D) + e[p]
  <2>1. \A w \in D : f[w] \in Nat
    BY <1>6
  <2>2. \A w \in D : e[w] \in Nat
    BY <1>2, <1>7
  <2>3. \A w \in D : w # p => e[w] = f[w]
    <3> SUFFICES ASSUME NEW w \in D, w # p PROVE e[w] = f[w]
      OBVIOUS
    <3>1. budgets'[w] = budgets[w] /\ w \in DOMAIN budgets'
      BY <1>2
    <3> QED BY <1>6, <1>7, <3>1
  <2>4. IsFiniteSet(D) /\ p \in D
    BY <1>1, <1>6
  <2> HIDE DEF D
  <2> QED BY <2>1, <2>2, <2>3, <2>4, TotalMoves
<1>14. Total(e, D) \in Nat
  <2>1. \A w \in D : e[w] \in Nat
    BY <1>2, <1>7
  <2> QED BY <1>6, <2>1, TotalType
<1>15. Total(e, D) + n = Total(f, D)
  <2>1. f[p] \in Nat
    BY <1>1, <1>6
  <2> QED BY <1>6, <1>10, <1>13, <1>14, <2>1
<1>16. Total(e, D \cup {c}) = n + Total(e, D)
  BY <1>9, <1>11, <1>12
<1>17. Total(e, D \cup {c}) = Total(f, D)
  BY <1>14, <1>15, <1>16
<1>18. RootQuota[q] = Total(f, D) + Total(Taken(charged, q), Work)
  BY <1>3, <1>4 DEF Balanced
<1> QED BY <1>2, <1>5, <1>17, <1>18

(* What a dispatch admission takes from a scope it charges to its work. *)
LEMMA DispatchBalances ==
  ASSUME TypeOK, TypeOK', Balance, NEW w \in Work, DispatchAdmit(w)
  PROVE  Root \in DOMAIN budgets' /\ Balanced(budgets', charged')
<1> DEFINE D == DOMAIN budgets
<1>1. /\ w \in D
      /\ Price(w) \in [Quota -> Nat]
      /\ budgets[w].left \in [Quota -> Nat]
      /\ \A q \in Quota : Price(w)[q] <= budgets[w].left[q]
      /\ charged[w] \in [Quota -> Nat]
  BY PriceType DEF DispatchAdmit, TypeOK, BudgetRow
<1>2. PICK price : price = Price(w)
  OBVIOUS
<1>3. /\ budgets' = [budgets EXCEPT ![w] = Rewritten(budgets[w], Less(budgets[w].left, price))]
      /\ charged' = [charged EXCEPT ![w] = [q \in Quota |-> charged[w][q] + price[q]]]
  BY <1>2 DEF DispatchAdmit
<1>4. /\ DOMAIN budgets' = D
      /\ budgets'[w].left = Less(budgets[w].left, price)
      /\ \A v \in D \ {w} : budgets'[v] = budgets[v]
  <2>1. budgets'[w] = Rewritten(budgets[w], Less(budgets[w].left, price))
    BY <1>1, <1>3
  <2>2. budgets'[w].left = Less(budgets[w].left, price)
    BY <2>1 DEF Rewritten
  <2> QED BY <1>3, <2>2
<1>5. /\ charged'[w] = [q \in Quota |-> charged[w][q] + price[q]]
      /\ \A v \in Work \ {w} : charged'[v] = charged[v]
  BY <1>3 DEF TypeOK
<1>6. Root \in D /\ Balanced(budgets, charged)
  BY <1>1 DEF Balance
<1> SUFFICES ASSUME NEW q \in Quota
             PROVE  RootQuota[q] = Total(Left(budgets', q), D) + Total(Taken(charged', q), Work)
  BY <1>4, <1>6 DEF Balanced
<1>7. PICK f : f = Left(budgets, q)
  OBVIOUS
<1>8. PICK e : e = Left(budgets', q)
  OBVIOUS
<1>9. PICK k : k = Taken(charged, q)
  OBVIOUS
<1>10. PICK m : m = Taken(charged', q)
  OBVIOUS
<1>11. /\ IsFiniteSet(D) /\ IsFiniteSet(Work)
       /\ \A v \in D : f[v] = budgets[v].left[q] /\ f[v] \in Nat
       /\ \A v \in Work : k[v] = charged[v][q] /\ k[v] \in Nat
       /\ Total(f, D) \in Nat /\ Total(k, Work) \in Nat
  <2>1. /\ DOMAIN budgets \subseteq Work
        /\ budgets \in [DOMAIN budgets -> BudgetRow]
        /\ charged \in [Work -> [Quota -> Nat]]
    BY DEF TypeOK
  <2>2. IsFiniteSet(Work)
    BY LineageAssumption
  <2> QED BY <1>7, <1>9, <2>1, <2>2, LedgerType
<1>12. /\ \A v \in D : e[v] = budgets'[v].left[q] /\ e[v] \in Nat
       /\ \A v \in Work : m[v] = charged'[v][q] /\ m[v] \in Nat
       /\ Total(e, D) \in Nat /\ Total(m, Work) \in Nat
  <2>1. /\ DOMAIN budgets' \subseteq Work
        /\ budgets' \in [DOMAIN budgets' -> BudgetRow]
        /\ charged' \in [Work -> [Quota -> Nat]]
    BY DEF TypeOK
  <2> QED BY <1>4, <1>8, <1>10, <2>1, LedgerType
<1>13. PICK n \in Nat : n = price[q]
  BY <1>1, <1>2
<1>14. e[w] = f[w] - n
  BY <1>1, <1>4, <1>11, <1>12, <1>13 DEF Less
<1>15. m[w] = k[w] + n
  BY <1>5, <1>11, <1>12, <1>13
<1>16. Total(e, D) + f[w] = Total(f, D) + e[w]
  <2>1. \A v \in D : v # w => e[v] = f[v]
    BY <1>4, <1>11, <1>12
  <2>2. (\A v \in D : f[v] \in Nat) /\ (\A v \in D : e[v] \in Nat)
    BY <1>11, <1>12
  <2> QED BY <1>1, <1>11, <2>1, <2>2, TotalMoves
<1>17. Total(m, Work) + k[w] = Total(k, Work) + m[w]
  <2>1. \A v \in Work : v # w => m[v] = k[v]
    BY <1>5, <1>11, <1>12
  <2>2. (\A v \in Work : k[v] \in Nat) /\ (\A v \in Work : m[v] \in Nat)
    BY <1>11, <1>12
  <2> QED BY <1>11, <2>1, <2>2, TotalMoves
<1>18. f[w] \in Nat /\ k[w] \in Nat
  BY <1>1, <1>11
<1>19. Total(e, D) + n = Total(f, D)
  BY <1>11, <1>12, <1>14, <1>16, <1>18
<1>20. Total(m, Work) = Total(k, Work) + n
  BY <1>11, <1>12, <1>15, <1>17, <1>18
<1>21. RootQuota[q] = Total(f, D) + Total(k, Work)
  BY <1>6, <1>7, <1>9 DEF Balanced
<1>22. RootQuota[q] = Total(e, D) + Total(m, Work)
  BY <1>11, <1>12, <1>19, <1>20, <1>21
<1> QED BY <1>8, <1>10, <1>22

LEMMA NextBalance ==
  ASSUME TypeOK, TypeOK', Balance, [Next]_vars
  PROVE  Balance'
<1>1. CASE UNCHANGED <<budgets, charged>>
  BY <1>1 DEF Balance, Balanced
<1>2. CASE Root \in DOMAIN budgets' /\ Balanced(budgets', charged')
  BY <1>2 DEF Balance, Balanced
<1>3. CASE UNCHANGED vars
  BY <1>1, <1>3 DEF vars
<1>4. ASSUME NEW s \in Standing, PutRootWork(s)
      PROVE  Balance'
  BY <1>1, <1>4 DEF PutRootWork
<1>5. CASE PutRootBudget
  BY <1>2, <1>5, RootBalances
<1>6. ASSUME NEW p \in Work, NEW c \in Work, NEW request \in Requests,
             NEW target \in Targets, Propose(p, c, request, target)
      PROVE  Balance'
  BY <1>1, <1>6 DEF Propose
<1>7. ASSUME NEW a \in proposals, CommitChild(a)
      PROVE  Balance'
  BY <1>2, <1>7, CommitBalances
<1>8. ASSUME NEW w \in Work, DispatchAdmit(w)
      PROVE  Balance'
  BY <1>2, <1>8, DispatchBalances
<1>9. ASSUME NEW w \in Work, NEW s \in Standing, Progress(w, s)
      PROVE  Balance'
  BY <1>1, <1>9 DEF Progress
<1> QED BY <1>3, <1>4, <1>5, <1>6, <1>7, <1>8, <1>9 DEF Next

(* The ledger is what the conservation property adds up. *)
LEMMA BalanceIsConservation == Balance => TreeQuotaIsConserved
<1> SUFFICES ASSUME Balance, Root \in DOMAIN budgets, NEW q \in Quota
             PROVE  RootQuota[q] =
                      MapThenSumSet(LAMBDA w : budgets[w].left[q], DOMAIN budgets)
                      + MapThenSumSet(LAMBDA w : charged[w][q], Work)
  BY DEF TreeQuotaIsConserved
<1>1. RootQuota[q] = Total(Left(budgets, q), DOMAIN budgets) + Total(Taken(charged, q), Work)
  BY DEF Balance, Balanced
<1>2. Total(Left(budgets, q), DOMAIN budgets)
        = MapThenSumSet(LAMBDA w : budgets[w].left[q], DOMAIN budgets)
  BY DEF Total, Left, MapThenSumSet, MapThenFoldSet
<1>3. Total(Taken(charged, q), Work) = MapThenSumSet(LAMBDA w : charged[w][q], Work)
  BY DEF Total, Taken, MapThenSumSet, MapThenFoldSet
<1> QED BY <1>1, <1>2, <1>3

(* Recursion creates and loses no budget: for every tree of work units,    *)
(* what scopes have left and what commit_child and dispatch admission took *)
(* from them is what the root was given.                                   *)
THEOREM QuotaOfTreeIsConserved == Spec => []TreeQuotaIsConserved
<1>1. Init => Balance
  BY DEF Init, Balance
<1>2. TypeOK /\ TypeOK' /\ Balance /\ [Next]_vars => Balance'
  BY NextBalance
<1> QED BY TypeCorrect, <1>1, <1>2, BalanceIsConservation, PTL DEF Spec

=============================================================================
