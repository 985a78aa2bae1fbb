------------------------------ MODULE OrgChange -----------------------------
(***************************************************************************)
(* Scheduled changes of the organization (api/internal/orgchange) and what *)
(* they move: the activities of the units.  The loops of the API servers   *)
(* apply a plan when its day comes, and people apply it at once, edit it,  *)
(* cancel it or delete it meanwhile.                                       *)
(*                                                                         *)
(* A transaction takes the row locks of the plan, the units and the        *)
(* activities it is about before it reads them, so it is one step; what a  *)
(* worker reads outside of it (the list of the due plans, the validation   *)
(* of a plan, the mark after a failure) is a step of its own.              *)
(*                                                                         *)
(* Abstracted: dates, to whether the day of a plan has come.  Left out: the*)
(* owners and the nodes units belong to, with the items that change them.  *)
(***************************************************************************)
EXTENDS Naturals, Sequences

CONSTANTS
  Server,      \* the API servers, each with one loop
  Request,     \* the requests of FP&A under way at once
  Plan, Unit, Activity,
  NoUnit,      \* of an activity that does not exist
  Items,       \* the lists of items people put into plans
  MaxCrashes   \* bound: the workers that die and the statements that fail

ASSUME NoUnitAssumption == NoUnit \notin Unit
ASSUME WorkersAssumption == Server \intersect Request = {}

VARIABLES
  plan,        \* org_change_plans and org_change_items
  effected,    \* the plans that have a change set of their application
  org,         \* of: activities.unit_id; units: active, archived or gone
  worker,      \* what each loop and each request is doing
  crashes

vars == <<plan, effected, org, worker, crashes>>

Worker == Server \union Request
Item ==
  [kind : {"move_activity"}, activity : Activity, target : Unit]
    \union [kind : {"merge_unit"}, unit : Unit, target : Unit]
ASSUME ItemsAssumption == Items \subseteq Seq(Item) \ {<<>>}

NoPlan == [status |-> "none"]
Deleted == [status |-> "deleted"]
Saved == [status : {"scheduled", "applied", "failed", "cancelled"}, due : BOOLEAN, items : Items]

Org == [of : [Activity -> Unit \union {NoUnit}], units : [Unit -> {"active", "archived", "gone"}]]
Impossible == [of |-> <<>>, units |-> <<>>]

Idle == [pc |-> "idle"]
Becomes(w, state) == worker' = [worker EXCEPT ![w] = state]

-----------------------------------------------------------------------------
\* moveActivity and MergeUnit: the organization afterwards.
Move(o, x, target) ==
  IF o.of[x] = NoUnit \/ o.units[target] # "active" THEN Impossible
  ELSE [o EXCEPT !.of[x] = target]
MergeMutant(o, u, target) ==
  IF u = target \/ o.units[u] # "active" THEN Impossible
  ELSE [of |-> [x \in Activity |-> IF o.of[x] = u THEN target ELSE o.of[x]],
        units |-> [o.units EXCEPT ![u] = "archived"]]
Merge(o, u, target) ==
  IF u = target \/ o.units[u] # "active" \/ o.units[target] # "active" THEN Impossible
  ELSE [of |-> [x \in Activity |-> IF o.of[x] = u THEN target ELSE o.of[x]],
        units |-> [o.units EXCEPT ![u] = "archived"]]

\* applyItems: the items in their order, or none of them.
ApplyItem(o, item) ==
  IF o = Impossible THEN Impossible
  ELSE IF item.kind = "merge_unit" THEN Merge(o, item.unit, item.target)
  ELSE Move(o, item.activity, item.target)
ApplyItems(o, items) ==
  LET after[n \in 0..Len(items)] == IF n = 0 THEN o ELSE ApplyItem(after[n - 1], items[n])
  IN  after[Len(items)]

-----------------------------------------------------------------------------
\* createPlan and updatePlan.  The items are tried out and rolled back first;
\* the plan is saved in a second transaction, for a day to come.
Validate(r, p, items) ==
  /\ worker[r].pc = "idle" /\ plan[p] # Deleted
  /\ ApplyItems(org, items) # Impossible
  /\ Becomes(r, [pc |-> "save", plan |-> p, items |-> items, new |-> plan[p] = NoPlan])
  /\ UNCHANGED <<plan, effected, org, crashes>>
SavePlan(r) ==
  LET p == worker[r].plan
  IN  /\ worker[r].pc = "save"
      /\ plan' = IF plan[p].status \in (IF worker[r].new THEN {"none"} ELSE {"scheduled", "failed"})
                 THEN [plan EXCEPT ![p] = [status |-> "scheduled", due |-> FALSE,
                                           items |-> worker[r].items]]
                 ELSE plan
      /\ Becomes(r, Idle)
      /\ UNCHANGED <<effected, org, crashes>>

CancelMutant(p) ==
  /\ plan[p].status \in {"scheduled", "failed", "applied"}
  /\ plan' = [plan EXCEPT ![p].status = "cancelled"]
  /\ UNCHANGED <<effected, org, worker, crashes>>
Cancel(p) ==
  /\ plan[p].status \in {"scheduled", "failed"}
  /\ plan' = [plan EXCEPT ![p].status = "cancelled"]
  /\ UNCHANGED <<effected, org, worker, crashes>>
Delete(p) ==
  /\ plan[p].status \in {"scheduled", "failed", "cancelled"}
  /\ plan' = [plan EXCEPT ![p] = Deleted]
  /\ UNCHANGED <<effected, org, worker, crashes>>

\* The day of a plan comes; that of a plan that is not scheduled changes nothing.
DayComes(p) ==
  /\ plan[p].status = "scheduled" /\ ~plan[p].due
  /\ plan' = [plan EXCEPT ![p].due = TRUE]
  /\ UNCHANGED <<effected, org, worker, crashes>>

-----------------------------------------------------------------------------
\* ApplyDue: the list of the due plans, and the first read of Apply for the
\* next one; applyNow begins with that read.
DuePlans == {p \in Plan : plan[p].status = "scheduled" /\ plan[p].due}
ListDue(w) ==
  /\ w \in Server /\ worker[w].pc = "idle" /\ DuePlans # {}
  /\ Becomes(w, [pc |-> "listed", left |-> DuePlans])
  /\ UNCHANGED <<plan, effected, org, crashes>>
TakeNext(w) ==
  /\ worker[w].pc = "listed"
  /\ \E p \in worker[w].left :
       Becomes(w, [pc |-> "apply", plan |-> p, onlyDue |-> TRUE, left |-> worker[w].left \ {p}])
  /\ UNCHANGED <<plan, effected, org, crashes>>
ApplyNow(r, p) ==
  /\ worker[r].pc = "idle" /\ plan[p] \in Saved
  /\ Becomes(r, [pc |-> "apply", plan |-> p, onlyDue |-> FALSE, left |-> {}])
  /\ UNCHANGED <<plan, effected, org, crashes>>

\* The end of Apply; a loop goes on with the next plan, after a failure, too.
GoesOn(w) ==
  Becomes(w, IF worker[w].left = {} THEN Idle ELSE [pc |-> "listed", left |-> worker[w].left])

\* The transaction of Apply.
ApplicableMutant(w, p) == plan[p].status \in {"scheduled", "failed"}
Applicable(w, p) ==
  IF worker[w].onlyDue THEN plan[p].status = "scheduled" /\ plan[p].due
  ELSE plan[p].status \in {"scheduled", "failed"}
ApplyMutant(w) ==
  LET p == worker[w].plan
  IN  /\ worker[w].pc = "apply"
      /\ IF ~Applicable(w, p) THEN GoesOn(w) /\ UNCHANGED <<plan, effected, org>>
         ELSE /\ plan' = [plan EXCEPT ![p].status = "applied"]
              /\ effected' = effected \union {p}
              /\ org' = ApplyItems(org, plan[p].items)
              /\ GoesOn(w)
      /\ UNCHANGED crashes
Apply(w) ==
  LET p == worker[w].plan
      after == ApplyItems(org, plan[p].items)
  IN  /\ worker[w].pc = "apply"
      /\ IF ~Applicable(w, p) THEN GoesOn(w) /\ UNCHANGED <<plan, effected, org>>
         ELSE IF after = Impossible
         THEN /\ Becomes(w, [pc |-> "fail", plan |-> p, left |-> worker[w].left])
              /\ UNCHANGED <<plan, effected, org>>
         ELSE /\ plan' = [plan EXCEPT ![p].status = "applied"]
              /\ effected' = effected \union {p}
              /\ org' = after
              /\ GoesOn(w)
      /\ UNCHANGED crashes

\* markFailed: an UPDATE by the id, whatever the plan has become meanwhile.
MarkFailedMutant(w) ==
  /\ worker[w].pc = "fail"
  /\ GoesOn(w)
  /\ UNCHANGED <<plan, effected, org, crashes>>
MarkFailed(w) ==
  LET p == worker[w].plan
  IN  /\ worker[w].pc = "fail"
      /\ plan' = IF plan[p] \in Saved THEN [plan EXCEPT ![p].status = "failed"] ELSE plan
      /\ GoesOn(w)
      /\ UNCHANGED <<effected, org, crashes>>

\* A statement of an item fails, in a deadlock or by a lock wait that takes too
\* long: applyItems makes an error of the item of it, as of one that cannot be
\* applied.
ItemFails(w) ==
  LET p == worker[w].plan
  IN  /\ worker[w].pc = "apply" /\ Applicable(w, p) /\ crashes < MaxCrashes
      /\ crashes' = crashes + 1
      /\ Becomes(w, [pc |-> "fail", plan |-> p, left |-> worker[w].left])
      /\ UNCHANGED <<plan, effected, org>>

\* A server stops, a request is cancelled, or a statement outside of the items
\* fails: nothing of what the worker had begun is left, and the plan is as it was.
Crash(w) ==
  /\ worker[w].pc # "idle" /\ crashes < MaxCrashes
  /\ crashes' = crashes + 1
  /\ Becomes(w, Idle)
  /\ UNCHANGED <<plan, effected, org>>

-----------------------------------------------------------------------------
\* The other transactions about units and activities.
Becoming(o) ==
  /\ o # Impossible /\ org' = o
  /\ UNCHANGED <<plan, effected, worker, crashes>>
InUse(u) == \E x \in Activity : org.of[x] = u

MergeUnit(u, target) == Becoming(Merge(org, u, target))
ArchiveUnit(u) ==
  org.units[u] = "active" /\ ~InUse(u) /\ Becoming([org EXCEPT !.units[u] = "archived"])
UnarchiveUnit(u) ==
  org.units[u] = "archived" /\ Becoming([org EXCEPT !.units[u] = "active"])
\* Bound: one unit stays, as no units are created.
DeleteUnit(u) ==
  /\ org.units[u] # "gone" /\ ~InUse(u)
  /\ \E v \in Unit \ {u} : org.units[v] # "gone"
  /\ Becoming([org EXCEPT !.units[u] = "gone"])

CreateActivity(x, u) ==
  org.of[x] = NoUnit /\ org.units[u] = "active" /\ Becoming([org EXCEPT !.of[x] = u])
UpdateActivity(x, u) == Becoming(Move(org, x, u))
DeleteActivity(x) == org.of[x] # NoUnit /\ Becoming([org EXCEPT !.of[x] = NoUnit])

-----------------------------------------------------------------------------
Init ==
  /\ plan = [p \in Plan |-> NoPlan]
  /\ effected = {}
  /\ org = [of |-> [x \in Activity |-> NoUnit], units |-> [u \in Unit |-> "active"]]
  /\ worker = [w \in Worker |-> Idle]
  /\ crashes = 0

Step(w) == ListDue(w) \/ TakeNext(w) \/ Apply(w) \/ MarkFailed(w) \/ SavePlan(w)
Edit ==
  \/ \E r \in Request, p \in Plan : ApplyNow(r, p) \/ \E items \in Items : Validate(r, p, items)
  \/ \E p \in Plan : Cancel(p) \/ Delete(p) \/ DayComes(p)
Reorganize ==
  \/ \E u \in Unit : ArchiveUnit(u) \/ UnarchiveUnit(u) \/ DeleteUnit(u)
  \/ \E u, target \in Unit : MergeUnit(u, target)
  \/ \E x \in Activity : DeleteActivity(x) \/ \E u \in Unit : CreateActivity(x, u) \/ UpdateActivity(x, u)

Next == Edit \/ Reorganize \/ \E w \in Worker : Step(w) \/ ItemFails(w) \/ Crash(w)

\* The loops run, once a minute; nothing makes a request end.
Spec == Init /\ [][Next]_vars /\ \A w \in Server : WF_vars(Step(w))

-----------------------------------------------------------------------------
\* The state; the effected plans are those whose application is in the history.
TypeOK ==
  /\ plan \in [Plan -> Saved \union {NoPlan, Deleted}]
  /\ effected \subseteq Plan
  /\ org \in Org
  /\ DOMAIN worker = Worker
  /\ \A p \in Plan : plan[p].status = "applied" => p \in effected

\* plan.md 2.15: a unit that is archived or deleted has no activities, in
\* whatever order plans, merges and edits come.
ActivitiesInActiveUnits ==
  \A x \in Activity : org.of[x] # NoUnit => org.units[org.of[x]] = "active"

\* A loop applies what is scheduled and due at the moment, not what was when it
\* made its list: not a plan that has been cancelled, postponed or has failed.
AppliesWhatIsDue ==
  \A w \in Server, p \in Plan :
    worker[w].pc = "apply" /\ worker[w].plan = p /\ worker'[w] # worker[w]
      /\ plan[p].status # "applied" /\ plan'[p].status = "applied"
    => plan[p].status = "scheduled" /\ plan[p].due
LoopsApplyWhatIsDue == [][AppliesWhatIsDue]_vars

\* An applied plan is part of the history: only the late mark of a worker that
\* had failed to apply it before can take that away.
UndoneByLateMark ==
  \A p \in Plan : plan[p].status = "applied" /\ plan'[p].status # "applied" =>
    \E w \in Worker : worker[w].pc = "fail" /\ worker[w].plan = p
AppliedStays == [][UndoneByLateMark]_vars

\* A plan whose day has come is applied or fails, is put off or taken back; one
\* that fails does not keep the others from it.
DueIsSettled == \A p \in Plan : p \in DuePlans ~> p \notin DuePlans
=============================================================================
