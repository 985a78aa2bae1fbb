------------------------------- MODULE Notify -------------------------------
(***************************************************************************)
(* The notifications about the update of a forecast (api/internal/notify), *)
(* made by the loops of several API servers and by requests at once.       *)
(*                                                                         *)
(* Every statement outside a transaction reads or writes the latest rows,  *)
(* so a worker (a loop or a request) is a sequence of steps between which  *)
(* everything may change: what it read, the day, and the rows.             *)
(*                                                                         *)
(* Abstracted: the texts; the activities of a person, for whom it counts   *)
(* whether one of them is not completed; the managers (Manager gets what   *)
(* is overdue, whoever it is about); the time of the day, which is before  *)
(* or after the time of sending; the settings, which do not change and     *)
(* have every kind enabled.  Slack is configured.  Notices are counted, not*)
(* read, and not cleaned up after 180 days.                                *)
(***************************************************************************)
EXTENDS Integers, FiniteSets, FiniteSetsExt

CONSTANTS
  Server,            \* the API servers, each with one loop
  Request,           \* the requests under way at once
  Scenario,          \* versions that are the current forecast or a next plan
  User, Manager,
  FirstDay, LastDay, \* bound: the days
  Weekend,           \* the Saturdays and Sundays of them
  ReminderDays,      \* notification_settings.reminder_days
  Deadlines,         \* the deadlines that are entered
  MaxSlackAttempts,
  MaxCrashes,        \* bound: the workers that die
  NoDeadline, NoRun

ASSUME PeopleAssumption == IsFiniteSet(User) /\ Manager \in User
ASSUME DaysAssumption ==
  FirstDay \in Int /\ LastDay \in Int /\ FirstDay <= LastDay /\ ReminderDays \subseteq Nat
ASSUME AttemptsAssumption == MaxSlackAttempts \in Nat \ {0}

VARIABLES
  day, late,  \* the clock: the day, and whether it is past the time of sending
  scenario,   \* scenarios: active and not locked; update_deadline
  todo,       \* the people with an activity that is not completed
  runs,       \* notification_runs
  notices,    \* notifications: how many a person has of a kind, version and day
  worker,     \* what each worker is doing
  crashes

table == <<runs, notices>>
world == <<day, late, scenario, todo>>
vars == <<day, late, scenario, todo, runs, notices, worker, crashes>>

Worker == Server \union Request
Days == FirstDay .. LastDay
DueKinds == {"deadline_reminder", "deadline_overdue"}
Recorded == DueKinds \union {"update_started", "actuals_reflected"}
Kinds == Recorded \union {"manual_reminder"}
Key == [kind : Kinds, scenario : Scenario, day : Days]
Run == [status : {"skipped", "sent", "failed"}, attempts : Nat, recipients : Nat,
        rested : BOOLEAN]
ASSUME NoRunAssumption == NoRun \notin Run

Idle == [pc |-> "idle"]
KeyOf(w) == worker[w].key

\* reminderDate: so many days before the deadline, or the Friday before.
ReminderDate(deadline, n) ==
  Max({d \in (deadline - n - 2) .. (deadline - n) : d \notin Weekend})

\* runDueFor: the kind that is due on a day, and "none".
DueKindMutant(deadline, today) ==
  IF today > deadline + 1 THEN "deadline_overdue"
  ELSE IF \E n \in ReminderDays : ReminderDate(deadline, n) = today
       THEN "deadline_reminder" ELSE "none"
DueKind(deadline, today) ==
  IF today > deadline THEN "deadline_overdue"
  ELSE IF \E n \in ReminderDays : ReminderDate(deadline, n) = today
       THEN "deadline_reminder" ELSE "none"

\* The people deadlineReminder and deadlineOverdue write to.
DueRecipients(kind, s) ==
  IF kind = "deadline_overdue" /\ todo[s] # {} THEN todo[s] \union {Manager} ELSE todo[s]

-----------------------------------------------------------------------------
\* What a worker does next; a worker whose message is dealt with goes on with
\* the other versions of its list (requests have none) or is done.
Becomes(w, state) == worker' = [worker EXCEPT ![w] = state]
Deliver(w, kind, s, today, to, left) ==
  Becomes(w, [pc |-> "deliver", key |-> [kind |-> kind, scenario |-> s, day |-> today],
              to |-> to, left |-> left])
GoesOn(w) ==
  Becomes(w, IF worker[w].left = {} THEN Idle
             ELSE [pc |-> "listed", today |-> KeyOf(w).day, left |-> worker[w].left])

\* The steps of RunDue: the time of sending is past; the day, and the versions
\* with a deadline unless it is a weekend; for each of them what is due.
WakeUp(w) ==
  /\ w \in Server /\ worker[w].pc = "idle" /\ late
  /\ Becomes(w, [pc |-> "woken", today |-> day])
  /\ UNCHANGED <<world, table, crashes>>
ListVersions(w) ==
  LET listed == {s \in Scenario : scenario[s].open /\ scenario[s].deadline # NoDeadline}
  IN  /\ worker[w].pc = "woken"
      /\ Becomes(w, IF day \in Weekend \/ listed = {} THEN Idle
                    ELSE [pc |-> "listed", today |-> day,
                          left |-> {<<s, scenario[s].deadline>> : s \in listed}])
      /\ UNCHANGED <<world, table, crashes>>
RunDueFor(w) ==
  /\ worker[w].pc = "listed"
  /\ \E sd \in worker[w].left :
       LET kind == DueKind(sd[2], worker[w].today)
           to == DueRecipients(kind, sd[1])
           left == worker[w].left \ {sd}
       IN  IF kind # "none" /\ to # {}
           THEN Deliver(w, kind, sd[1], worker[w].today, to, left)
           ELSE Becomes(w, IF left = {} THEN Idle ELSE [worker[w] EXCEPT !.left = left])
  /\ UNCHANGED <<world, table, crashes>>

-----------------------------------------------------------------------------
\* deliver: the record of the day, if there is one.  A post that has failed is
\* tried again, ten minutes after the last attempt, three times at most.
RetryEndlesslyMutant(r) == r.status = "failed" /\ r.rested
RetryOnceLessMutant(r) ==
  r.status = "failed" /\ r.attempts < MaxSlackAttempts - 1 /\ r.rested
Retry(r) == r.status = "failed" /\ r.attempts < MaxSlackAttempts /\ r.rested
LookUp(w) ==
  LET r == runs[KeyOf(w)]
  IN  /\ worker[w].pc = "deliver"
      /\ IF r = NoRun THEN Becomes(w, [worker[w] EXCEPT !.pc = "insert"])
         ELSE IF Retry(r)
         THEN Becomes(w, [pc |-> "post", key |-> KeyOf(w), left |-> worker[w].left,
                          attempts |-> r.attempts])
         ELSE GoesOn(w)
      /\ UNCHANGED <<world, table, crashes>>

\* The transaction of deliver: the record, which is unique, and the notices.
InsertMutant(w) ==
  LET key == KeyOf(w)
  IN  /\ worker[w].pc = "insert"
      /\ notices' = [notices EXCEPT ![key] =
           [u \in User |-> @[u] + (IF u \in worker[w].to THEN 1 ELSE 0)]]
      /\ IF runs[key] # NoRun THEN GoesOn(w) /\ UNCHANGED runs
         ELSE /\ runs' = [runs EXCEPT ![key] =
                   [status |-> "skipped", attempts |-> 0, rested |-> FALSE,
                    recipients |-> Cardinality(worker[w].to)]]
              /\ Becomes(w, [pc |-> "post", key |-> key, left |-> worker[w].left,
                             attempts |-> 0])
      /\ UNCHANGED <<world, crashes>>
Insert(w) ==
  LET key == KeyOf(w)
  IN  /\ worker[w].pc = "insert"
      /\ IF runs[key] # NoRun THEN GoesOn(w) /\ UNCHANGED table
         ELSE /\ runs' = [runs EXCEPT ![key] =
                   [status |-> "skipped", attempts |-> 0, rested |-> FALSE,
                    recipients |-> Cardinality(worker[w].to)]]
              /\ notices' = [notices EXCEPT ![key] =
                   [u \in User |-> @[u] + (IF u \in worker[w].to THEN 1 ELSE 0)]]
              /\ Becomes(w, [pc |-> "post", key |-> key, left |-> worker[w].left,
                             attempts |-> 0])
      /\ UNCHANGED <<world, crashes>>

\* postSlack: the channel takes the post, or the post is refused or not
\* answered in time.
PostSlack(w) ==
  /\ worker[w].pc = "post"
  /\ \E status \in {"sent", "failed"} :
       Becomes(w, [pc |-> "record", key |-> KeyOf(w), left |-> worker[w].left,
                   attempts |-> worker[w].attempts, status |-> status])
  /\ UNCHANGED <<world, table, crashes>>

\* The end of retrySlack.  updated_at stays when the row is as it was.
Record(w) ==
  LET before == runs[KeyOf(w)]
      after == [before EXCEPT !.status = worker[w].status, !.attempts = worker[w].attempts + 1]
  IN  /\ worker[w].pc = "record"
      /\ runs' = [runs EXCEPT ![KeyOf(w)] =
                    IF after = before THEN before ELSE [after EXCEPT !.rested = FALSE]]
      /\ GoesOn(w)
      /\ UNCHANGED <<world, notices, crashes>>

-----------------------------------------------------------------------------
\* The requests.  A version is made active (with its deadline, if it has one),
\* or its first deadline is entered, and the request tells of the start of the
\* update; other deadlines, locking and completion tell of nothing.
SaveScenario(r, s, open, deadline) ==
  /\ worker[r].pc = "idle"
  /\ scenario' = [scenario EXCEPT ![s] = [open |-> open, deadline |-> deadline]]
  /\ IF /\ open /\ deadline # NoDeadline
        /\ ~scenario[s].open \/ scenario[s].deadline = NoDeadline
     THEN Becomes(r, [pc |-> "started", scenario |-> s]) ELSE UNCHANGED worker
  /\ UNCHANGED <<day, late, todo, table, crashes>>

\* updateStarted: once for a version, whatever happens to its deadline later.
UpdateStarted(r) ==
  LET s == worker[r].scenario
      sent == \E d \in Days : runs[[kind |-> "update_started", scenario |-> s, day |-> d]] # NoRun
  IN  /\ worker[r].pc = "started"
      /\ IF ~scenario[s].open \/ scenario[s].deadline = NoDeadline \/ sent
         THEN Becomes(r, Idle)
         ELSE Deliver(r, "update_started", s, day, User, {})
      /\ UNCHANGED <<world, table, crashes>>

\* actualsReflected, after the month of actuals has moved on: to the people
\* with an activity that differs much from the forecast before.
ActualsReflected(r) ==
  /\ worker[r].pc = "idle"
  /\ \E s \in Scenario, to \in SUBSET User \ {{}} :
       scenario[s].open /\ Deliver(r, "actuals_reflected", s, day, to, {})
  /\ UNCHANGED <<world, table, crashes>>

\* sendReminder: the checks, the notice, and a post whose outcome is not kept.
CheckReminder(r) ==
  /\ worker[r].pc = "idle"
  /\ \E s \in Scenario, u \in User :
       /\ scenario[s].open /\ u \in todo[s]
       /\ notices[[kind |-> "manual_reminder", scenario |-> s, day |-> day]][u] = 0
       /\ Becomes(r, [pc |-> "remind", scenario |-> s, user |-> u])
  /\ UNCHANGED <<world, table, crashes>>
SendReminder(r) ==
  LET key == [kind |-> "manual_reminder", scenario |-> worker[r].scenario, day |-> day]
  IN  /\ worker[r].pc = "remind"
      /\ notices' = [notices EXCEPT ![key][worker[r].user] = @ + 1]
      /\ Becomes(r, Idle)
      /\ UNCHANGED <<world, runs, crashes>>

\* People complete their activities, and take them up again.
Complete(s, done) ==
  /\ done # todo[s]
  /\ todo' = [todo EXCEPT ![s] = done]
  /\ UNCHANGED <<day, late, scenario, table, worker, crashes>>

-----------------------------------------------------------------------------
\* The clock.  A post takes ten seconds at most, so no post is under way for
\* the ten minutes after which a failed one is tried again.
Posting == {w \in Worker : worker[w].pc \in {"post", "record"}}
Tick ==
  /\ IF late THEN day < LastDay /\ day' = day + 1 ELSE day' = day
  /\ late' = ~late
  /\ UNCHANGED <<scenario, todo, table, worker, crashes>>
TenMinutes ==
  /\ Posting = {}
  /\ \E k \in Key : runs[k] # NoRun /\ ~runs[k].rested
  /\ runs' = [k \in Key |-> IF runs[k] = NoRun THEN NoRun ELSE [runs[k] EXCEPT !.rested = TRUE]]
  /\ UNCHANGED <<world, notices, worker, crashes>>

\* A server stops, a request is cancelled or a statement fails: what the worker
\* was about to do is not done.  A loop begins again.
Crash(w) ==
  /\ worker[w].pc # "idle" /\ crashes < MaxCrashes
  /\ crashes' = crashes + 1
  /\ Becomes(w, Idle)
  /\ UNCHANGED <<world, table>>

-----------------------------------------------------------------------------
Init ==
  /\ day = FirstDay /\ late = FALSE
  /\ scenario = [s \in Scenario |-> [open |-> FALSE, deadline |-> NoDeadline]]
  /\ todo = [s \in Scenario |-> User]
  /\ runs = [k \in Key |-> NoRun]
  /\ notices = [k \in Key |-> [u \in User |-> 0]]
  /\ worker = [w \in Worker |-> Idle]
  /\ crashes = 0

Step(w) ==
  \/ WakeUp(w) \/ ListVersions(w) \/ RunDueFor(w)
  \/ LookUp(w) \/ Insert(w) \/ PostSlack(w) \/ Record(w)
  \/ UpdateStarted(w) \/ SendReminder(w)
Receive(r) ==
  \/ ActualsReflected(r) \/ CheckReminder(r)
  \/ \E s \in Scenario, open \in BOOLEAN, deadline \in Deadlines \union {NoDeadline} :
       SaveScenario(r, s, open, deadline)

Next ==
  \/ \E w \in Worker : Step(w) \/ Crash(w)
  \/ \E r \in Request : Receive(r)
  \/ \E s \in Scenario, done \in SUBSET User : Complete(s, done)
  \/ Tick \/ TenMinutes

\* The loops run, and requests that have been received run to their end; ten
\* minutes pass.  Nothing makes the day end, or people and requests appear.
Fairness == WF_vars(TenMinutes) /\ \A w \in Worker : WF_vars(Step(w))
Spec == Init /\ [][Next]_vars /\ Fairness

-----------------------------------------------------------------------------
\* The state, and the counters of the records: MaxSlackAttempts at most (attempts,
\* not posts: two workers may post for the same one).
TypeOK ==
  /\ day \in Days /\ late \in BOOLEAN
  /\ scenario \in [Scenario -> [open : BOOLEAN, deadline : Deadlines \union {NoDeadline}]]
  /\ todo \in [Scenario -> SUBSET User]
  /\ \A k \in Key : runs[k] # NoRun => runs[k] \in Run /\ runs[k].attempts <= MaxSlackAttempts
  /\ notices \in [Key -> [User -> Nat]]
  /\ DOMAIN worker = Worker

\* architecture.md, "safe with several servers and restarts": a person gets a
\* notice of a kind about a version once a day, and the record of the day
\* counts the people who got it, however servers and requests meet and die.
NoticesFollowTheRecord ==
  \A k \in Key : k.kind \in Recorded =>
    /\ \A u \in User : notices[k][u] <= 1
    /\ Cardinality({u \in User : notices[k][u] > 0}) =
         IF runs[k] = NoRun THEN 0 ELSE runs[k].recipients

\* Every day after a deadline on which somebody has work left ends up with a
\* record, as long as the day, the deadline and the work stay.
Overdue(s, d) ==
  /\ day = d /\ late /\ todo[s] # {}
  /\ scenario[s].open /\ scenario[s].deadline # NoDeadline /\ scenario[s].deadline < d
OverdueRun(s, d) == runs[[kind |-> "deadline_overdue", scenario |-> s, day |-> d]]
OverdueIsNotified ==
  \A s \in Scenario, d \in Days \ Weekend :
    Overdue(s, d) ~> ~Overdue(s, d) \/ OverdueRun(s, d) # NoRun

\* A post about what is overdue that has failed is tried again that day, until
\* it is sent or has been tried three times.
FailedPostIsRetried ==
  \A s \in Scenario, d \in Days \ Weekend :
    Overdue(s, d) /\ OverdueRun(s, d) # NoRun /\ OverdueRun(s, d).status = "failed"
      ~> \/ ~Overdue(s, d)
         \/ OverdueRun(s, d) # NoRun /\ OverdueRun(s, d).status = "sent"
         \/ OverdueRun(s, d) # NoRun /\ OverdueRun(s, d).attempts = MaxSlackAttempts
=============================================================================
