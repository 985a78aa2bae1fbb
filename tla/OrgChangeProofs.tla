--------------------------- MODULE OrgChangeProofs --------------------------
(***************************************************************************)
(* Theorems about OrgChange, for any number of servers, requests, plans,   *)
(* units, activities and crashes.                                          *)
(*                                                                         *)
(* For the plans, what a worker remembers between its steps is enough: the *)
(* plan it is at, and for a loop that it may apply what is due only.  For  *)
(* the organization, each item is shown to keep activities in active units,*)
(* and then, by induction, so does a list of them.                         *)
(***************************************************************************)
EXTENDS OrgChange, WellFoundedInduction, TLAPS

\* What a worker may remember at each of its steps.
WorkerOK(w, state) ==
  /\ state.pc \in {"save", "apply", "fail"} => state.plan \in Plan
  /\ state.pc \in {"listed", "apply", "fail"} => state.left \subseteq Plan
  /\ state.pc = "save" => state.items \in Items
  /\ state.pc = "apply" /\ w \in Server => state.onlyDue
WorkersOK ==
  /\ DOMAIN worker = Worker
  /\ \A w \in Worker : WorkerOK(w, worker[w])

\* The plans, and their applications in the history.
PlansOK ==
  /\ plan \in [Plan -> Saved \union {NoPlan, Deleted}]
  /\ effected \subseteq Plan
  /\ \A p \in Plan : plan[p].status = "applied" => p \in effected

Inv == WorkersOK /\ PlansOK

-----------------------------------------------------------------------------
\* A step of one worker keeps what the others remember.
LEMMA BecomesOK ==
  ASSUME WorkersOK, NEW v \in Worker, NEW state, Becomes(v, state), WorkerOK(v, state)
  PROVE  WorkersOK'
<1>1. DOMAIN worker' = Worker
  BY DEF Becomes, WorkersOK
<1>2. ASSUME NEW w \in Worker PROVE WorkerOK(w, worker'[w])
  <2>1. CASE w = v
    BY <2>1, worker'[v] = state DEF Becomes, WorkersOK
  <2>2. CASE w # v
    BY <2>2, worker'[w] = worker[w] DEF Becomes, WorkersOK
  <2>. QED  BY <2>1, <2>2
<1>. QED  BY <1>1, <1>2 DEF WorkersOK, WorkerOK

\* So does a step of none.
LEMMA SameWorkersOK ==
  ASSUME WorkersOK, UNCHANGED worker
  PROVE  WorkersOK'
BY DEF WorkersOK, WorkerOK

\* The end of an application leads back to the list of the worker, or to rest.
LEMMA GoesOnOK ==
  ASSUME WorkersOK, NEW v \in Worker, worker[v].pc \in {"apply", "fail"}, GoesOn(v)
  PROVE  WorkersOK'
<1>1. WorkerOK(v, Idle)
  BY DEF WorkerOK, Idle
<1>2. WorkerOK(v, [pc |-> "listed", left |-> worker[v].left])
  BY DEF WorkerOK, WorkersOK
<1>. QED  BY <1>1, <1>2, BecomesOK DEF GoesOn

-----------------------------------------------------------------------------
\* Init establishes the invariant: no worker is at anything, there is no plan.
THEOREM InitInv == Init => Inv
<1>. SUFFICES ASSUME Init PROVE Inv
  OBVIOUS
<1>1. WorkersOK
  BY DEF Init, WorkersOK, WorkerOK, Idle
<1>2. PlansOK
  BY DEF Init, PlansOK, NoPlan
<1>. QED  BY <1>1, <1>2 DEF Inv

\* What a person or the calendar does to a plan that is there.
LEMMA EditedPlanOK ==
  ASSUME Inv, NEW p \in Plan, Cancel(p) \/ Delete(p) \/ DayComes(p)
  PROVE  Inv'
<1>1. WorkersOK'
  BY SameWorkersOK DEF Inv, Cancel, Delete, DayComes
<1>2. CASE Cancel(p)
  <2>1. plan[p] \in Saved
    BY <1>2 DEF Inv, PlansOK, Cancel, NoPlan, Deleted
  <2>2. [plan[p] EXCEPT !.status = "cancelled"] \in Saved
    BY <2>1 DEF Saved
  <2>. QED  BY <1>1, <1>2, <2>2 DEF Inv, PlansOK, Cancel
<1>3. CASE Delete(p)
  BY <1>1, <1>3 DEF Inv, PlansOK, Delete, Deleted
<1>4. CASE DayComes(p)
  <2>1. plan[p] \in Saved
    BY <1>4 DEF Inv, PlansOK, DayComes, NoPlan, Deleted
  <2>2. [plan[p] EXCEPT !.due = TRUE] \in Saved
    BY <2>1 DEF Saved
  <2>3. [plan[p] EXCEPT !.due = TRUE].status = "scheduled"
    BY <1>4, <2>1 DEF Saved, DayComes
  <2>. QED  BY <1>1, <1>4, <2>2, <2>3 DEF Inv, PlansOK, DayComes
<1>. QED  BY <1>2, <1>3, <1>4

\* A request that validates a plan and saves it in a second transaction.
LEMMA SavingOK ==
  ASSUME Inv, NEW r \in Worker, NEW p \in Plan, NEW items \in Items,
         Validate(r, p, items) \/ SavePlan(r)
  PROVE  Inv'
<1>1. CASE Validate(r, p, items)
  <2>1. WorkerOK(r, [pc |-> "save", plan |-> p, items |-> items, new |-> plan[p] = NoPlan])
    BY DEF WorkerOK
  <2>2. WorkersOK'
    BY <1>1, <2>1, BecomesOK DEF Inv, Validate
  <2>. QED  BY <1>1, <2>2 DEF Inv, PlansOK, Validate
<1>2. CASE SavePlan(r)
  <2>1. WorkerOK(r, Idle)
    BY DEF WorkerOK, Idle
  <2>2. WorkersOK'
    BY <1>2, <2>1, BecomesOK DEF Inv, SavePlan
  <2>3. worker[r].plan \in Plan /\ worker[r].items \in Items
    BY <1>2 DEF Inv, WorkersOK, WorkerOK, SavePlan
  <2>4. [status |-> "scheduled", due |-> FALSE, items |-> worker[r].items] \in Saved
    BY <2>3 DEF Saved
  <2>. QED  BY <1>2, <2>2, <2>3, <2>4 DEF Inv, PlansOK, SavePlan
<1>. QED  BY <1>1, <1>2

\* The list of a loop, and the first read of an application.
LEMMA TakingOK ==
  ASSUME Inv, NEW w \in Worker, NEW p \in Plan,
         ListDue(w) \/ TakeNext(w) \/ (w \in Request /\ ApplyNow(w, p))
  PROVE  Inv'
<1>1. CASE ListDue(w)
  <2>1. WorkerOK(w, [pc |-> "listed", left |-> DuePlans])
    BY DEF WorkerOK, DuePlans
  <2>. QED  BY <1>1, <2>1, BecomesOK DEF Inv, PlansOK, ListDue
<1>2. CASE TakeNext(w)
  <2>1. PICK q \in worker[w].left :
          Becomes(w, [pc |-> "apply", plan |-> q, onlyDue |-> TRUE,
                      left |-> worker[w].left \ {q}])
    BY <1>2 DEF TakeNext
  <2>2. worker[w].left \subseteq Plan
    BY <1>2 DEF Inv, WorkersOK, WorkerOK, TakeNext
  <2>3. WorkerOK(w, [pc |-> "apply", plan |-> q, onlyDue |-> TRUE,
                     left |-> worker[w].left \ {q}])
    BY <2>2 DEF WorkerOK
  <2>4. WorkersOK'
    BY <2>1, <2>3, BecomesOK DEF Inv
  <2>. QED  BY <1>2, <2>4 DEF Inv, PlansOK, TakeNext
<1>3. CASE w \in Request /\ ApplyNow(w, p)
  <2>1. WorkerOK(w, [pc |-> "apply", plan |-> p, onlyDue |-> FALSE, left |-> {}])
    BY <1>3, WorkersAssumption DEF WorkerOK
  <2>2. WorkersOK'
    BY <1>3, <2>1, BecomesOK DEF Inv, ApplyNow
  <2>. QED  BY <1>3, <2>2 DEF Inv, PlansOK, ApplyNow
<1>. QED  BY <1>1, <1>2, <1>3

\* The transaction of an application, and the mark after its rollback.
LEMMA ApplyingOK ==
  ASSUME Inv, NEW w \in Worker, Apply(w) \/ MarkFailed(w)
  PROVE  Inv'
<1>. DEFINE p == worker[w].plan
<1>1. p \in Plan /\ worker[w].left \subseteq Plan
  BY DEF Inv, WorkersOK, WorkerOK, Apply, MarkFailed
<1>2. CASE Apply(w)
  <2>1. CASE ~Applicable(w, p)
    <3>1. WorkersOK'
      BY <1>2, <2>1, GoesOnOK DEF Inv, Apply
    <3>. QED  BY <1>2, <2>1, <3>1 DEF Inv, PlansOK, Apply
  <2>2. CASE Applicable(w, p) /\ ApplyItems(org, plan[p].items) = Impossible
    <3>1. WorkerOK(w, [pc |-> "fail", plan |-> p, left |-> worker[w].left])
      BY <1>1 DEF WorkerOK
    <3>2. WorkersOK'
      BY <1>2, <2>2, <3>1, BecomesOK DEF Inv, Apply
    <3>. QED  BY <1>2, <2>2, <3>2 DEF Inv, PlansOK, Apply
  <2>3. CASE Applicable(w, p) /\ ApplyItems(org, plan[p].items) # Impossible
    <3>1. WorkersOK'
      BY <1>2, <2>3, GoesOnOK DEF Inv, Apply
    <3>2. plan[p] \in Saved
      BY <1>1, <2>3 DEF Inv, PlansOK, Applicable, NoPlan, Deleted
    <3>3. [plan[p] EXCEPT !.status = "applied"] \in Saved
      BY <3>2 DEF Saved
    <3>4. /\ plan' = [plan EXCEPT ![p].status = "applied"]
          /\ effected' = effected \union {p}
      BY <1>2, <2>3 DEF Apply
    <3>. QED  BY <1>1, <3>1, <3>3, <3>4 DEF Inv, PlansOK
  <2>. QED  BY <2>1, <2>2, <2>3
<1>3. CASE MarkFailed(w)
  <2>1. WorkersOK'
    BY <1>3, GoesOnOK DEF Inv, MarkFailed
  <2>2. CASE plan[p] \in Saved
    <3>1. [plan[p] EXCEPT !.status = "failed"] \in Saved
      BY <2>2 DEF Saved
    <3>2. [plan[p] EXCEPT !.status = "failed"].status = "failed"
      BY <2>2 DEF Saved
    <3>. QED  BY <1>1, <1>3, <2>1, <2>2, <3>1, <3>2 DEF Inv, PlansOK, MarkFailed
  <2>3. CASE plan[p] \notin Saved
    BY <1>3, <2>1, <2>3 DEF Inv, PlansOK, MarkFailed
  <2>. QED  BY <2>2, <2>3
<1>. QED  BY <1>2, <1>3

\* An item that fails, a worker that dies, and what happens to units and
\* activities besides.
LEMMA OthersOK ==
  ASSUME Inv, (\E w \in Worker : ItemFails(w) \/ Crash(w)) \/ Reorganize
  PROVE  Inv'
<1>1. ASSUME NEW w \in Worker, Crash(w) PROVE Inv'
  <2>1. WorkerOK(w, Idle)
    BY DEF WorkerOK, Idle
  <2>2. WorkersOK'
    BY <1>1, <2>1, BecomesOK DEF Inv, Crash
  <2>. QED  BY <1>1, <2>2 DEF Inv, PlansOK, Crash
<1>2. CASE Reorganize
  <2>1. UNCHANGED <<plan, effected, worker>>
    BY <1>2 DEF Reorganize, ArchiveUnit, UnarchiveUnit, DeleteUnit, MergeUnit,
                DeleteActivity, CreateActivity, UpdateActivity, Becoming
  <2>. QED  BY <2>1, SameWorkersOK DEF Inv, PlansOK
<1>3. ASSUME NEW w \in Worker, ItemFails(w) PROVE Inv'
  <2>1. worker[w].plan \in Plan /\ worker[w].left \subseteq Plan
    BY <1>3 DEF Inv, WorkersOK, WorkerOK, ItemFails
  <2>2. WorkerOK(w, [pc |-> "fail", plan |-> worker[w].plan, left |-> worker[w].left])
    BY <2>1 DEF WorkerOK
  <2>3. WorkersOK'
    BY <1>3, <2>2, BecomesOK DEF Inv, ItemFails
  <2>. QED  BY <1>3, <2>3 DEF Inv, PlansOK, ItemFails
<1>. QED  BY <1>1, <1>2, <1>3

\* Every step keeps the invariant.
THEOREM NextInv == Inv /\ [Next]_vars => Inv'
<1>. SUFFICES ASSUME Inv, [Next]_vars PROVE Inv'
  OBVIOUS
<1>1. ASSUME NEW w \in Worker, Step(w) PROVE Inv'
  <2>1. CASE Apply(w) \/ MarkFailed(w)
    BY <2>1, ApplyingOK
  <2>2. CASE SavePlan(w)
    <3>1. worker[w].plan \in Plan /\ worker[w].items \in Items
      BY <2>2 DEF Inv, WorkersOK, WorkerOK, SavePlan
    <3>. QED  BY <2>2, <3>1, SavingOK
  <2>3. CASE ListDue(w)
    <3>1. PICK p \in Plan : TRUE
      BY <2>3 DEF ListDue, DuePlans
    <3>. QED  BY <2>3, <3>1, TakingOK
  <2>4. CASE TakeNext(w)
    <3>1. PICK p \in Plan : TRUE
      BY <2>4 DEF TakeNext, Inv, WorkersOK, WorkerOK
    <3>. QED  BY <2>4, <3>1, TakingOK
  <2>. QED  BY <1>1, <2>1, <2>2, <2>3, <2>4 DEF Step
<1>2. ASSUME NEW r \in Request, NEW p \in Plan, ApplyNow(r, p) PROVE Inv'
  BY <1>2, TakingOK DEF Worker
<1>3. ASSUME NEW r \in Request, NEW p \in Plan, NEW items \in Items, Validate(r, p, items)
      PROVE  Inv'
  BY <1>3, SavingOK DEF Worker
<1>4. ASSUME NEW p \in Plan, Cancel(p) \/ Delete(p) \/ DayComes(p) PROVE Inv'
  BY <1>4, EditedPlanOK
<1>5. CASE (\E w \in Worker : ItemFails(w) \/ Crash(w)) \/ Reorganize
  BY <1>5, OthersOK
<1>6. CASE UNCHANGED vars
  BY <1>6, SameWorkersOK DEF vars, Inv, PlansOK
<1>. QED  BY <1>1, <1>2, <1>3, <1>4, <1>5, <1>6 DEF Next, Edit

\* What every worker is at and what every plan is stay of their kinds, for any
\* number of servers, requests and plans.
THEOREM SpecInv == Spec => []Inv
BY InitInv, NextInv, PTL DEF Spec

-----------------------------------------------------------------------------
\* Which steps touch the table of plans.
LEMMA PlanSteps ==
  ASSUME Next, plan' # plan
  PROVE  \/ \E r \in Worker : SavePlan(r) \/ Apply(r) \/ MarkFailed(r)
         \/ \E p \in Plan : Cancel(p) \/ Delete(p) \/ DayComes(p)
<1>1. CASE Edit
  BY <1>1 DEF Edit, ApplyNow, Validate
<1>2. CASE Reorganize
  BY <1>2 DEF Reorganize, ArchiveUnit, UnarchiveUnit, DeleteUnit, MergeUnit,
              DeleteActivity, CreateActivity, UpdateActivity, Becoming
<1>3. ASSUME NEW w \in Worker, Step(w) \/ ItemFails(w) \/ Crash(w)
      PROVE  SavePlan(w) \/ Apply(w) \/ MarkFailed(w)
  BY <1>3 DEF Step, ItemFails, Crash, ListDue, TakeNext
<1>. QED  BY <1>1, <1>2, <1>3 DEF Next

\* A step that makes a plan an applied one is an application of this plan.
LEMMA AppliedByApply ==
  ASSUME Inv, Next, NEW p \in Plan, plan[p].status # "applied", plan'[p].status = "applied"
  PROVE  \E w \in Worker : /\ Apply(w) /\ worker[w].plan = p /\ Applicable(w, p)
<1>1. ASSUME NEW r \in Worker, SavePlan(r) PROVE FALSE
  BY <1>1 DEF Inv, PlansOK, SavePlan
<1>2. ASSUME NEW r \in Worker, MarkFailed(r) PROVE FALSE
  <2>1. \A q \in Plan : plan[q] \in Saved => [plan[q] EXCEPT !.status = "failed"].status = "failed"
    BY DEF Saved
  <2>2. worker[r].plan \in Plan
    BY <1>2 DEF Inv, WorkersOK, WorkerOK, MarkFailed
  <2>. QED  BY <1>2, <2>1, <2>2 DEF Inv, PlansOK, MarkFailed
<1>3. ASSUME NEW q \in Plan, Cancel(q) \/ Delete(q) \/ DayComes(q) PROVE FALSE
  <2>1. ASSUME Cancel(q) PROVE FALSE
    <3>1. plan[q] \in Saved
      BY <2>1 DEF Inv, PlansOK, Cancel, NoPlan, Deleted
    <3>2. [plan[q] EXCEPT !.status = "cancelled"].status = "cancelled"
      BY <3>1 DEF Saved
    <3>. QED  BY <2>1, <3>2 DEF Inv, PlansOK, Cancel
  <2>2. ASSUME Delete(q) PROVE FALSE
    BY <2>2 DEF Inv, PlansOK, Delete, Deleted
  <2>3. ASSUME DayComes(q) PROVE FALSE
    <3>1. plan[q] \in Saved
      BY <2>3 DEF Inv, PlansOK, DayComes, NoPlan, Deleted
    <3>2. [plan[q] EXCEPT !.due = TRUE].status = plan[q].status
      BY <3>1 DEF Saved
    <3>. QED  BY <2>3, <3>2 DEF Inv, PlansOK, DayComes
  <2>. QED  BY <1>3, <2>1, <2>2, <2>3
<1>4. PICK w \in Worker : Apply(w)
  BY PlanSteps, <1>1, <1>2, <1>3
<1>5. worker[w].plan \in Plan
  BY <1>4 DEF Inv, WorkersOK, WorkerOK, Apply
<1>6. Applicable(w, worker[w].plan) /\ worker[w].plan = p
  BY <1>4, <1>5 DEF Apply, Inv, PlansOK
<1>. QED  BY <1>4, <1>6

\* A loop that applies a plan has found it scheduled and due in the same
\* transaction: Apply of orgchange tests both under the row lock.
THEOREM LoopsApplyDuePlans == Spec => LoopsApplyWhatIsDue
<1>1. Inv /\ [Next]_vars => [AppliesWhatIsDue]_vars
  <2>. SUFFICES ASSUME Inv, Next, NEW w \in Server, NEW p \in Plan,
                       worker[w].pc = "apply", worker[w].plan = p, worker'[w] # worker[w],
                       plan[p].status # "applied", plan'[p].status = "applied"
                PROVE  plan[p].status = "scheduled" /\ plan[p].due
    BY DEF AppliesWhatIsDue
  <2>1. PICK v \in Worker : Apply(v) /\ worker[v].plan = p /\ Applicable(v, p)
    BY AppliedByApply
  <2>2. v = w
    BY <2>1 DEF Apply, GoesOn, Becomes, Inv, WorkersOK, Worker
  <2>3. worker[w].onlyDue
    BY DEF Inv, WorkersOK, WorkerOK, Worker
  <2>. QED  BY <2>1, <2>2, <2>3 DEF Applicable
<1>. QED  BY <1>1, SpecInv, PTL DEF Spec, LoopsApplyWhatIsDue

\* No edit, cancellation, deletion or application takes an applied plan out of
\* the history; what remains is markFailed, which writes by the id alone.
THEOREM AppliedPlansStay == Spec => AppliedStays
<1>1. Inv /\ [Next]_vars => [UndoneByLateMark]_vars
  <2>. SUFFICES ASSUME Inv, Next, NEW p \in Plan,
                       plan[p].status = "applied", plan'[p].status # "applied"
                PROVE  \E w \in Worker : worker[w].pc = "fail" /\ worker[w].plan = p
    BY DEF UndoneByLateMark
  <2>1. ASSUME NEW r \in Worker, SavePlan(r) PROVE FALSE
    BY <2>1 DEF Inv, PlansOK, SavePlan
  <2>2. ASSUME NEW q \in Plan, Cancel(q) \/ Delete(q) PROVE FALSE
    BY <2>2 DEF Inv, PlansOK, Cancel, Delete
  <2>3. ASSUME NEW q \in Plan, DayComes(q) PROVE FALSE
    BY <2>3 DEF Inv, PlansOK, DayComes
  <2>4. ASSUME NEW w \in Worker, Apply(w) PROVE FALSE
    <3>1. worker[w].plan \in Plan
      BY <2>4 DEF Inv, WorkersOK, WorkerOK, Apply
    <3>2. worker[w].plan # p
      BY <2>4, <3>1 DEF Apply, Applicable, Inv, PlansOK
    <3>. QED  BY <2>4, <3>1, <3>2 DEF Apply, Inv, PlansOK
  <2>5. PICK w \in Worker : MarkFailed(w)
    BY PlanSteps, <2>1, <2>2, <2>3, <2>4
  <2>6. worker[w].plan = p
    BY <2>5 DEF MarkFailed, Inv, PlansOK
  <2>. QED  BY <2>5, <2>6 DEF MarkFailed
<1>. QED  BY <1>1, SpecInv, PTL DEF Spec, AppliedStays

-----------------------------------------------------------------------------
\* Induction over the naturals, with a set for the predicate: the least number
\* outside of a set that is closed under successor would have a predecessor.
LEMMA SetInduction ==
  ASSUME NEW S, 0 \in S, \A n \in Nat : n \in S => n + 1 \in S
  PROVE  Nat \subseteq S
<1>. SUFFICES ASSUME Nat \ S # {} PROVE FALSE
  OBVIOUS
<1>1. \E x \in Nat \ S : \A y \in Nat \ S : ~(<<y, x>> \in OpToRel(<, Nat))
  BY NatLessThanWellFounded, WFMin, Nat \ S \subseteq Nat
<1>2. \E x \in Nat \ S : \A y \in Nat \ S : ~(y < x)
  BY ONLY <1>1, Zenon DEF OpToRel
<1>. QED  BY <1>2

\* The function by which ApplyItems is defined exists.
LEMMA StagesExist ==
  ASSUME NEW o, NEW items \in Seq(Item)
  PROVE  \E f : f = [n \in 0..Len(items) |->
                       IF n = 0 THEN o ELSE ApplyItem(f[n - 1], items[n])]
<1>. DEFINE S == {k \in Nat : k <= Len(items) =>
                    \E f : f = [n \in 0..k |->
                                  IF n = 0 THEN o ELSE ApplyItem(f[n - 1], items[n])]}
<1>1. 0 \in S
  <2>. DEFINE f == [n \in 0..0 |-> o]
  <2>1. f = [n \in 0..0 |-> IF n = 0 THEN o ELSE ApplyItem(f[n - 1], items[n])]
    OBVIOUS
  <2>. QED  BY <2>1
<1>2. ASSUME NEW k \in Nat, k \in S PROVE k + 1 \in S
  <2>. SUFFICES ASSUME k + 1 <= Len(items)
                PROVE  \E f : f = [n \in 0..(k + 1) |->
                                     IF n = 0 THEN o ELSE ApplyItem(f[n - 1], items[n])]
    OBVIOUS
  <2>1. PICK f : f = [n \in 0..k |-> IF n = 0 THEN o ELSE ApplyItem(f[n - 1], items[n])]
    BY <1>2
  <2>. DEFINE g == [n \in 0..(k + 1) |->
                      IF n = k + 1 THEN ApplyItem(f[k], items[n]) ELSE f[n]]
  <2>2. ASSUME NEW n \in 0..(k + 1)
        PROVE  g[n] = IF n = 0 THEN o ELSE ApplyItem(g[n - 1], items[n])
    <3>1. CASE n = k + 1
      BY <3>1
    <3>2. CASE n # k + 1
      <4>1. n \in 0..k /\ g[n] = f[n]
        BY <3>2
      <4>2. n # 0 => n - 1 \in 0..k /\ g[n - 1] = f[n - 1]
        BY <4>1
      <4>3. f[n] = IF n = 0 THEN o ELSE ApplyItem(f[n - 1], items[n])
        BY <2>1, <4>1
      <4>. QED  BY <4>1, <4>2, <4>3
    <3>. QED  BY <3>1, <3>2
  <2>3. g = [n \in 0..(k + 1) |-> IF n = 0 THEN o ELSE ApplyItem(g[n - 1], items[n])]
    BY <2>2
  <2>. QED  BY <2>3
<1>. HIDE DEF S
<1>3. Nat \subseteq S
  BY <1>1, <1>2, SetInduction
<1>. QED  BY <1>3, Len(items) \in Nat DEF S

\* What every item keeps, the whole list keeps.
LEMMA ItemsKeep ==
  ASSUME NEW P, NEW o \in P, NEW items \in Seq(Item),
         \A x \in P, item \in Item : ApplyItem(x, item) \in P
  PROVE  ApplyItems(o, items) \in P
<1>. DEFINE after[n \in 0..Len(items)] ==
              IF n = 0 THEN o ELSE ApplyItem(after[n - 1], items[n])
<1>1. after = [n \in 0..Len(items) |->
                 IF n = 0 THEN o ELSE ApplyItem(after[n - 1], items[n])]
  BY StagesExist
<1>2. ApplyItems(o, items) = after[Len(items)]
  BY DEF ApplyItems
<1>. HIDE DEF after
<1>. DEFINE S == {k \in Nat : k <= Len(items) => after[k] \in P}
<1>3. 0 \in S
  BY <1>1
<1>4. \A k \in Nat : k \in S => k + 1 \in S
  BY <1>1
<1>. HIDE DEF S
<1>5. Nat \subseteq S
  BY <1>3, <1>4, SetInduction
<1>. QED  BY <1>2, <1>5, Len(items) \in Nat DEF S

\* An organization in which every activity is in an active unit.
Proper == {o \in Org : \A x \in Activity : o.of[x] # NoUnit => o.units[o.of[x]] = "active"}

LEMMA MoveProper ==
  ASSUME NEW o \in Proper, NEW x \in Activity, NEW target \in Unit,
         Move(o, x, target) # Impossible
  PROVE  Move(o, x, target) \in Proper
<1>. DEFINE m == [o EXCEPT !.of[x] = target]
<1>1. Move(o, x, target) = m /\ o.units[target] = "active"
  BY DEF Move
<1>2. m \in Org
  BY DEF Proper, Org
<1>3. m.units = o.units /\ \A z \in Activity : m.of[z] = IF z = x THEN target ELSE o.of[z]
  BY DEF Proper, Org
<1>. HIDE DEF m
<1>. QED  BY <1>1, <1>2, <1>3 DEF Proper

\* A merge leaves nothing in the unit it archives, and moves it to another one.
LEMMA MergeProper ==
  ASSUME NEW o \in Proper, NEW u \in Unit, NEW target \in Unit,
         Merge(o, u, target) # Impossible
  PROVE  Merge(o, u, target) \in Proper
<1>. DEFINE m == [of |-> [x \in Activity |-> IF o.of[x] = u THEN target ELSE o.of[x]],
                  units |-> [o.units EXCEPT ![u] = "archived"]]
<1>1. Merge(o, u, target) = m /\ u # target /\ o.units[target] = "active"
  BY DEF Merge
<1>2. m \in Org
  BY DEF Proper, Org
<1>3. /\ \A v \in Unit : m.units[v] = IF v = u THEN "archived" ELSE o.units[v]
      /\ \A x \in Activity : m.of[x] = IF o.of[x] = u THEN target ELSE o.of[x]
      /\ \A x \in Activity : o.of[x] \in Unit \union {NoUnit}
  BY DEF Proper, Org
<1>. HIDE DEF m
<1>. QED  BY <1>1, <1>2, <1>3 DEF Proper

\* applyItems: all the items, or none, and never an activity in a closed unit.
LEMMA ItemsProper ==
  ASSUME NEW o \in Proper, NEW items \in Items, ApplyItems(o, items) # Impossible
  PROVE  ApplyItems(o, items) \in Proper
<1>. DEFINE P == Proper \union {Impossible}
<1>1. ASSUME NEW x \in P, NEW item \in Item PROVE ApplyItem(x, item) \in P
  <2>1. CASE x = Impossible
    BY <2>1 DEF ApplyItem
  <2>2. CASE x # Impossible /\ item.kind = "merge_unit"
    <3>1. item.unit \in Unit /\ item.target \in Unit
      BY <2>2 DEF Item
    <3>2. ApplyItem(x, item) = Merge(x, item.unit, item.target)
      BY <2>2 DEF ApplyItem
    <3>. QED  BY <2>2, <3>1, <3>2, MergeProper
  <2>3. CASE x # Impossible /\ item.kind # "merge_unit"
    <3>1. item.activity \in Activity /\ item.target \in Unit
      BY <2>3 DEF Item
    <3>2. ApplyItem(x, item) = Move(x, item.activity, item.target)
      BY <2>3 DEF ApplyItem
    <3>. QED  BY <2>3, <3>1, <3>2, MoveProper
  <2>. QED  BY <2>1, <2>2, <2>3
<1>2. items \in Seq(Item)
  BY ItemsAssumption
<1>. HIDE DEF P
<1>3. ApplyItems(o, items) \in P
  BY <1>1, <1>2, ItemsKeep DEF P
<1>. QED  BY <1>3 DEF P

\* The transactions about units and activities besides the plans.
LEMMA ReorganizedProper ==
  ASSUME org \in Proper, Reorganize
  PROVE  org' \in Proper
<1>1. ASSUME NEW u \in Unit, NEW state \in {"active", "archived", "gone"},
             state = "active" \/ ~InUse(u), org' = [org EXCEPT !.units[u] = state]
      PROVE  org' \in Proper
  <2>1. org' \in Org /\ org'.of = org.of
    BY <1>1 DEF Proper, Org
  <2>2. \A v \in Unit : org'.units[v] = IF v = u THEN state ELSE org.units[v]
    BY <1>1 DEF Proper, Org
  <2>3. \A x \in Activity : org.of[x] \in Unit \union {NoUnit}
    BY DEF Proper, Org
  <2>. QED  BY <1>1, <2>1, <2>2, <2>3 DEF Proper, InUse
<1>2. ASSUME NEW u \in Unit, ArchiveUnit(u) \/ UnarchiveUnit(u) \/ DeleteUnit(u)
      PROVE  org' \in Proper
  BY <1>1, <1>2 DEF ArchiveUnit, UnarchiveUnit, DeleteUnit, Becoming
<1>3. ASSUME NEW u \in Unit, NEW target \in Unit, MergeUnit(u, target)
      PROVE  org' \in Proper
  BY <1>3, MergeProper DEF MergeUnit, Becoming
<1>4. ASSUME NEW x \in Activity, NEW u \in Unit, UpdateActivity(x, u)
      PROVE  org' \in Proper
  BY <1>4, MoveProper DEF UpdateActivity, Becoming
<1>5. ASSUME NEW x \in Activity, NEW u \in Unit \union {NoUnit},
             u # NoUnit => org.units[u] = "active", org' = [org EXCEPT !.of[x] = u]
      PROVE  org' \in Proper
  <2>1. org' \in Org /\ org'.units = org.units
    BY <1>5 DEF Proper, Org
  <2>2. \A z \in Activity : org'.of[z] = IF z = x THEN u ELSE org.of[z]
    BY <1>5 DEF Proper, Org
  <2>. QED  BY <1>5, <2>1, <2>2 DEF Proper
<1>6. ASSUME NEW x \in Activity, DeleteActivity(x) \/ \E u \in Unit : CreateActivity(x, u)
      PROVE  org' \in Proper
  BY <1>5, <1>6 DEF DeleteActivity, CreateActivity, Becoming
<1>. QED  BY <1>2, <1>3, <1>4, <1>6 DEF Reorganize

\* Only the application of a plan and these transactions change the organization.
LEMMA NextProper == Inv /\ org \in Proper /\ [Next]_vars => org' \in Proper
<1>. SUFFICES ASSUME Inv, org \in Proper, [Next]_vars PROVE org' \in Proper
  OBVIOUS
<1>1. CASE Edit
  <2>1. org' = org
    BY <1>1 DEF Edit, ApplyNow, Validate, Cancel, Delete, DayComes
  <2>. QED  BY <2>1
<1>2. CASE Reorganize
  BY <1>2, ReorganizedProper
<1>3. ASSUME NEW w \in Worker, Step(w) \/ ItemFails(w) \/ Crash(w) PROVE org' \in Proper
  <2>1. CASE Apply(w)
    <3>. DEFINE p == worker[w].plan
    <3>1. p \in Plan
      BY <2>1 DEF Inv, WorkersOK, WorkerOK, Apply
    <3>2. CASE Applicable(w, p) /\ ApplyItems(org, plan[p].items) # Impossible
      <4>1. plan[p].items \in Items
        BY <3>1, <3>2 DEF Inv, PlansOK, Applicable, NoPlan, Deleted, Saved
      <4>2. org' = ApplyItems(org, plan[p].items)
        BY <2>1, <3>2 DEF Apply
      <4>. QED  BY <3>2, <4>1, <4>2, ItemsProper
    <3>3. CASE ~(Applicable(w, p) /\ ApplyItems(org, plan[p].items) # Impossible)
      BY <2>1, <3>3 DEF Apply
    <3>. QED  BY <3>2, <3>3
  <2>2. CASE ~Apply(w)
    BY <1>3, <2>2 DEF Step, ItemFails, Crash, ListDue, TakeNext, MarkFailed, SavePlan
  <2>. QED  BY <2>1, <2>2
<1>4. CASE UNCHANGED vars
  BY <1>4 DEF vars
<1>. QED  BY <1>1, <1>2, <1>3, <1>4 DEF Next

OrgProper == org \in Proper
LEMMA SpecProper == Spec => []OrgProper
<1>1. Init => OrgProper
  BY DEF Init, Proper, Org, OrgProper
<1>2. Inv /\ OrgProper /\ [Next]_vars => OrgProper'
  BY NextProper DEF OrgProper
<1>. QED  BY <1>1, <1>2, SpecInv, PTL DEF Spec

\* A unit that is archived or deleted has no activities, whatever plans with
\* whatever items, merges and edits come in whatever order
\* (ActivitiesInActiveUnits of OrgChange).
THEOREM NoActivityInAClosedUnit == Spec => []ActivitiesInActiveUnits
<1>1. OrgProper => ActivitiesInActiveUnits
  BY DEF OrgProper, Proper, ActivitiesInActiveUnits
<1>. QED  BY <1>1, SpecProper, PTL

\* The plans, the history, the organization and the workers stay of their kinds,
\* and an applied plan is in the history (TypeOK of OrgChange).
THEOREM SpecTypeOK == Spec => []TypeOK
<1>1. Inv /\ OrgProper => TypeOK
  BY DEF OrgProper, Inv, PlansOK, WorkersOK, Proper, TypeOK
<1>. QED  BY <1>1, SpecInv, SpecProper, PTL

=============================================================================
