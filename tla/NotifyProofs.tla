---------------------------- MODULE NotifyProofs ----------------------------
(***************************************************************************)
(* Theorems about Notify, for any number of servers, requests, versions,   *)
(* people and days, and any number of crashes.                             *)
(*                                                                         *)
(* What keeps the notices right is the record of the day, which one        *)
(* transaction writes together with the notices and nothing takes away     *)
(* again.  A worker that goes on to post remembers of it only its key and  *)
(* the number of attempts, both of which are bounded when it looks.        *)
(***************************************************************************)
EXTENDS Notify, FiniteSetTheorems, TLAPS

\* The message a worker is dealing with: its key, and the versions left to do.
KeyOK(state) ==
  /\ state.key \in Key /\ state.key.kind \in Recorded
  /\ state.left \subseteq Scenario \X (Deadlines \union {NoDeadline})

\* What a worker may remember at each of its steps.
WorkerOK(state) ==
  /\ state.pc = "listed" => /\ state.today \in Days
                            /\ state.left \subseteq Scenario \X (Deadlines \union {NoDeadline})
  /\ state.pc \in {"deliver", "insert"} => KeyOK(state) /\ state.to \subseteq User
  /\ state.pc \in {"post", "record"} =>
       KeyOK(state) /\ state.attempts \in 0 .. (MaxSlackAttempts - 1)
  /\ state.pc = "record" => state.status \in {"sent", "failed"}
  /\ state.pc = "started" => state.scenario \in Scenario
  /\ state.pc = "remind" => state.scenario \in Scenario /\ state.user \in User

\* A worker posts about what has a record.
PostsOK == \A w \in Worker : worker[w].pc \in {"post", "record"} => runs[worker[w].key] # NoRun
WorkersOK == DOMAIN worker = Worker /\ \A w \in Worker : WorkerOK(worker[w])

WorldOK ==
  /\ day \in Days /\ late \in BOOLEAN
  /\ scenario \in [Scenario -> [open : BOOLEAN, deadline : Deadlines \union {NoDeadline}]]
  /\ todo \in [Scenario -> SUBSET User]

RunOK(r) == r # NoRun => r \in Run /\ r.attempts <= MaxSlackAttempts
RunsOK == DOMAIN runs = Key /\ \A k \in Key : RunOK(runs[k])
NoticesOK == notices \in [Key -> [User -> Nat]] /\ NoticesFollowTheRecord

Inv == WorldOK /\ RunsOK /\ NoticesOK /\ WorkersOK /\ PostsOK

-----------------------------------------------------------------------------
\* A worker that takes up a new state, while the records stay or grow.
LEMMA BecomesOK ==
  ASSUME WorkersOK, PostsOK, NEW v \in Worker, NEW state, Becomes(v, state), WorkerOK(state),
         \A k \in Key : runs[k] # NoRun => runs'[k] # NoRun,
         state.pc \in {"post", "record"} => runs'[state.key] # NoRun
  PROVE  WorkersOK' /\ PostsOK'
<1>1. DOMAIN worker' = Worker
  BY DEF Becomes, WorkersOK
<1>2. ASSUME NEW w \in Worker
      PROVE  /\ WorkerOK(worker'[w])
             /\ worker'[w].pc \in {"post", "record"} => runs'[worker'[w].key] # NoRun
  <2>1. CASE w = v
    BY <2>1, worker'[v] = state DEF Becomes, WorkersOK
  <2>2. CASE w # v
    <3>1. worker'[w] = worker[w] /\ WorkerOK(worker[w])
      BY <2>2 DEF Becomes, WorkersOK
    <3>2. worker[w].pc \in {"post", "record"} =>
            runs[worker[w].key] # NoRun /\ worker[w].key \in Key
      BY <3>1 DEF PostsOK, WorkerOK, KeyOK
    <3>. QED  BY <3>1, <3>2
  <2>. QED  BY <2>1, <2>2
<1>. QED  BY <1>1, <1>2 DEF WorkersOK, PostsOK, WorkerOK, KeyOK

\* The same for a worker that rests, or goes on with its list.
LEMMA RestsOK ==
  ASSUME WorkersOK, PostsOK, NEW v \in Worker, Becomes(v, Idle), UNCHANGED runs
  PROVE  WorkersOK' /\ PostsOK'
<1>1. WorkerOK(Idle) /\ Idle.pc = "idle"
  BY DEF WorkerOK, Idle
<1>. QED  BY <1>1, BecomesOK

LEMMA GoesOnOK ==
  ASSUME WorkersOK, PostsOK, NEW v \in Worker, GoesOn(v),
         worker[v].pc \in {"deliver", "insert", "post", "record"},
         \A k \in Key : runs[k] # NoRun => runs'[k] # NoRun
  PROVE  WorkersOK' /\ PostsOK'
<1>. DEFINE next == [pc |-> "listed", today |-> KeyOf(v).day, left |-> worker[v].left]
<1>1. KeyOK(worker[v])
  BY DEF WorkersOK, WorkerOK
<1>2. WorkerOK(next)
  BY <1>1 DEF WorkerOK, KeyOK, KeyOf, Key
<1>3. next.pc = "listed" /\ WorkerOK(Idle) /\ Idle.pc = "idle"
  BY DEF WorkerOK, Idle
<1>4. Becomes(v, Idle) \/ Becomes(v, next)
  BY DEF GoesOn
<1>. HIDE DEF next
<1>. QED  BY <1>2, <1>3, <1>4, BecomesOK

\* A worker takes up a message for people.
LEMMA DeliverOK ==
  ASSUME WorkersOK, PostsOK, NEW v \in Worker, NEW kind \in Recorded, NEW s \in Scenario,
         NEW today \in Days, NEW to \in SUBSET User,
         NEW left \in SUBSET (Scenario \X (Deadlines \union {NoDeadline})),
         Deliver(v, kind, s, today, to, left), UNCHANGED runs
  PROVE  WorkersOK' /\ PostsOK'
<1>. DEFINE next == [pc |-> "deliver", key |-> [kind |-> kind, scenario |-> s, day |-> today],
                     to |-> to, left |-> left]
<1>1. WorkerOK(next)
  BY DEF WorkerOK, KeyOK, Key, Kinds
<1>2. next.pc = "deliver" /\ Becomes(v, next)
  BY DEF Deliver
<1>. HIDE DEF next
<1>. QED  BY <1>1, <1>2, BecomesOK

\* A step that leaves the workers alone, and keeps what is recorded.
LEMMA SameWorkersOK ==
  ASSUME WorkersOK, PostsOK, UNCHANGED worker,
         \A k \in Key : runs[k] # NoRun => runs'[k] # NoRun
  PROVE  WorkersOK' /\ PostsOK'
<1>1. \A w \in Worker : worker[w].pc \in {"post", "record"} => worker[w].key \in Key
  BY DEF WorkersOK, WorkerOK, KeyOK
<1>2. PostsOK'
  BY <1>1 DEF PostsOK
<1>. QED  BY <1>2 DEF WorkersOK, WorkerOK, KeyOK

LEMMA SameWorldOK == ASSUME WorldOK, UNCHANGED world PROVE WorldOK'
BY DEF WorldOK, world

LEMMA SameTableOK ==
  ASSUME RunsOK, NoticesOK, UNCHANGED table
  PROVE  RunsOK' /\ NoticesOK'
BY DEF RunsOK, RunOK, NoticesOK, NoticesFollowTheRecord, table

-----------------------------------------------------------------------------
\* Nothing has been recorded, and nobody has been told anything.
THEOREM InitInv == Init => Inv
<1>. SUFFICES ASSUME Init PROVE Inv
  OBVIOUS
<1>1. WorldOK
  <2>1. day \in Days
    BY DaysAssumption DEF Init, Days
  <2>2. scenario \in [Scenario -> [open : BOOLEAN, deadline : Deadlines \union {NoDeadline}]]
    BY DEF Init
  <2>3. late \in BOOLEAN /\ todo \in [Scenario -> SUBSET User]
    BY DEF Init
  <2>. QED  BY <2>1, <2>2, <2>3 DEF WorldOK
<1>2. RunsOK
  BY DEF Init, RunsOK, RunOK
<1>3. NoticesOK
  <2>1. \A k \in Key : Cardinality({u \in User : notices[k][u] > 0}) = 0
    <3>1. \A k \in Key : {u \in User : notices[k][u] > 0} = {}
      BY DEF Init
    <3>2. Cardinality({}) = 0
      BY FS_EmptySet
    <3>. QED  BY <3>1, <3>2
  <2>2. notices \in [Key -> [User -> Nat]]
    BY DEF Init
  <2>3. \A k \in Key, u \in User : notices[k][u] <= 1 /\ runs[k] = NoRun
    BY DEF Init
  <2>4. NoticesFollowTheRecord
    <3>. SUFFICES ASSUME NEW k \in Key, k.kind \in Recorded
                  PROVE  /\ \A u \in User : notices[k][u] <= 1
                         /\ Cardinality({u \in User : notices[k][u] > 0}) =
                              IF runs[k] = NoRun THEN 0 ELSE runs[k].recipients
      BY DEF NoticesFollowTheRecord
    <3>1. runs[k] = NoRun
      BY DEF Init
    <3>2. \A u \in User : notices[k][u] <= 1
      BY <2>3
    <3>3. Cardinality({u \in User : notices[k][u] > 0}) = 0
      BY <2>1
    <3>. QED  BY <3>1, <3>2, <3>3
  <2>. QED  BY <2>2, <2>4 DEF NoticesOK
<1>4. WorkersOK /\ PostsOK
  BY DEF Init, WorkersOK, PostsOK, WorkerOK, Idle
<1>. QED  BY <1>1, <1>2, <1>3, <1>4 DEF Inv

\* RunDue: the clock, the list, and what is due for one version of it.
LEMMA RunDueOK ==
  ASSUME Inv, NEW w \in Worker, WakeUp(w) \/ ListVersions(w) \/ RunDueFor(w)
  PROVE  Inv'
<1>1. WorldOK' /\ RunsOK' /\ NoticesOK'
  BY SameWorldOK, SameTableOK DEF Inv, WakeUp, ListVersions, RunDueFor
<1>2. UNCHANGED runs
  BY DEF WakeUp, ListVersions, RunDueFor, table
<1>3. CASE WakeUp(w)
  <2>. DEFINE next == [pc |-> "woken", today |-> day]
  <2>1. WorkerOK(next) /\ next.pc = "woken" /\ Becomes(w, next)
    BY <1>3 DEF WorkerOK, WakeUp
  <2>. HIDE DEF next
  <2>2. WorkersOK' /\ PostsOK'
    BY <1>2, <2>1, BecomesOK DEF Inv
  <2>. QED  BY <1>1, <2>2 DEF Inv
<1>4. CASE ListVersions(w)
  <2>. DEFINE listed == {s \in Scenario : scenario[s].open /\ scenario[s].deadline # NoDeadline}
              next == [pc |-> "listed", today |-> day,
                       left |-> {<<s, scenario[s].deadline>> : s \in listed}]
  <2>1. Becomes(w, Idle) \/ Becomes(w, next)
    BY <1>4 DEF ListVersions
  <2>2. {<<s, scenario[s].deadline>> : s \in listed}
          \subseteq Scenario \X (Deadlines \union {NoDeadline})
    BY DEF Inv, WorldOK
  <2>3. WorkerOK(next) /\ next.pc = "listed"
    BY <2>2 DEF WorkerOK, Inv, WorldOK
  <2>. HIDE DEF next
  <2>4. WorkersOK' /\ PostsOK'
    BY <1>2, <2>1, <2>3, BecomesOK, RestsOK DEF Inv
  <2>. QED  BY <1>1, <2>4 DEF Inv
<1>5. CASE RunDueFor(w)
  <2>1. WorkerOK(worker[w]) /\ worker[w].pc = "listed"
    BY <1>5 DEF Inv, WorkersOK, RunDueFor
  <2>2. PICK sd \in worker[w].left :
          LET kind == DueKind(sd[2], worker[w].today)
              to == DueRecipients(kind, sd[1])
              left == worker[w].left \ {sd}
          IN  IF kind # "none" /\ to # {}
              THEN Deliver(w, kind, sd[1], worker[w].today, to, left)
              ELSE Becomes(w, IF left = {} THEN Idle ELSE [worker[w] EXCEPT !.left = left])
    BY <1>5 DEF RunDueFor
  <2>. DEFINE kind == DueKind(sd[2], worker[w].today)
              to == DueRecipients(kind, sd[1])
              left == worker[w].left \ {sd}
              next == [worker[w] EXCEPT !.left = left]
  <2>3. /\ left \subseteq Scenario \X (Deadlines \union {NoDeadline})
        /\ sd[1] \in Scenario /\ worker[w].today \in Days
    BY <2>1 DEF WorkerOK
  <2>4. CASE kind # "none" /\ to # {}
    <3>1. kind \in Recorded
      BY <2>4 DEF DueKind, Recorded, DueKinds
    <3>2. to \subseteq User
      BY <2>3, PeopleAssumption DEF DueRecipients, Inv, WorldOK
    <3>3. Deliver(w, kind, sd[1], worker[w].today, to, left)
      BY <2>2, <2>4
    <3>. HIDE DEF kind, to, left
    <3>4. WorkersOK' /\ PostsOK'
      BY <1>2, <2>3, <3>1, <3>2, <3>3, DeliverOK DEF Inv
    <3>. QED  BY <1>1, <3>4 DEF Inv
  <2>5. CASE ~(kind # "none" /\ to # {})
    <3>1. Becomes(w, Idle) \/ Becomes(w, next)
      BY <2>2, <2>5
    <3>2. next.pc = "listed" /\ next.today = worker[w].today /\ (next.left = left \/ next.left = worker[w].left)
      BY <2>1
    <3>. HIDE DEF next
    <3>3. WorkerOK(next)
      BY <2>1, <2>3, <3>2 DEF WorkerOK
    <3>4. WorkersOK' /\ PostsOK'
      BY <1>2, <3>1, <3>2, <3>3, BecomesOK, RestsOK DEF Inv
    <3>. QED  BY <1>1, <3>4 DEF Inv
  <2>. QED  BY <2>4, <2>5
<1>. QED  BY <1>3, <1>4, <1>5

\* deliver: what is recorded is left alone, or retried a limited number of times;
\* the record of the day and its notices are written at once.
LEMMA LookUpOK == ASSUME Inv, NEW w \in Worker, LookUp(w) PROVE Inv'
<1>. DEFINE r == runs[KeyOf(w)]
            next == [pc |-> "post", key |-> KeyOf(w), left |-> worker[w].left,
                     attempts |-> r.attempts]
            insert == [worker[w] EXCEPT !.pc = "insert"]
<1>1. WorldOK' /\ RunsOK' /\ NoticesOK' /\ UNCHANGED runs
  BY SameWorldOK, SameTableOK DEF Inv, LookUp, table
<1>2. KeyOK(worker[w]) /\ worker[w].to \subseteq User /\ worker[w].pc = "deliver"
  BY DEF Inv, WorkersOK, WorkerOK, LookUp
<1>3. KeyOf(w) \in Key /\ RunOK(r)
  BY <1>2 DEF KeyOf, KeyOK, Inv, RunsOK
<1>4. CASE r = NoRun
  <2>1. Becomes(w, insert)
    BY <1>4 DEF LookUp
  <2>2. WorkerOK(insert) /\ insert.pc = "insert"
    <3>1. insert.pc = "insert" /\ insert.key = worker[w].key
          /\ insert.left = worker[w].left /\ insert.to = worker[w].to
      BY <1>2
    <3>. HIDE DEF insert
    <3>. QED  BY <1>2, <3>1 DEF WorkerOK, KeyOK
  <2>. HIDE DEF insert
  <2>3. WorkersOK' /\ PostsOK'
    BY <1>1, <2>1, <2>2, BecomesOK DEF Inv
  <2>. QED  BY <1>1, <2>3 DEF Inv
<1>5. CASE r # NoRun /\ Retry(r)
  <2>1. Becomes(w, next)
    BY <1>5 DEF LookUp
  <2>2. r.attempts \in 0 .. (MaxSlackAttempts - 1)
    BY <1>3, <1>5, AttemptsAssumption DEF Retry, RunOK, Run
  <2>3. WorkerOK(next) /\ next.pc = "post" /\ next.key = KeyOf(w)
    BY <1>2, <2>2 DEF WorkerOK, KeyOK, KeyOf
  <2>4. runs'[next.key] # NoRun
    BY <1>1, <1>5, <2>3
  <2>. HIDE DEF next
  <2>5. WorkersOK' /\ PostsOK'
    BY <1>1, <2>1, <2>3, <2>4, BecomesOK DEF Inv
  <2>. QED  BY <1>1, <2>5 DEF Inv
<1>6. CASE r # NoRun /\ ~Retry(r)
  <2>1. GoesOn(w)
    BY <1>6 DEF LookUp
  <2>2. WorkersOK' /\ PostsOK'
    BY <1>1, <1>2, <2>1, GoesOnOK DEF Inv
  <2>. QED  BY <1>1, <2>2 DEF Inv
<1>. QED  BY <1>4, <1>5, <1>6

\* Whom the transaction writes to is whom the record counts: nobody had a
\* notice of the day before.
LEMMA InsertOK == ASSUME Inv, NEW w \in Worker, Insert(w) PROVE Inv'
<1>. DEFINE key == KeyOf(w)
            to == worker[w].to
            run == [status |-> "skipped", attempts |-> 0, rested |-> FALSE,
                    recipients |-> Cardinality(to)]
            next == [pc |-> "post", key |-> key, left |-> worker[w].left, attempts |-> 0]
<1>1. WorldOK'
  BY SameWorldOK DEF Inv, Insert
<1>2. KeyOK(worker[w]) /\ to \subseteq User /\ worker[w].pc = "insert"
  BY DEF Inv, WorkersOK, WorkerOK, Insert
<1>3. key \in Key /\ key.kind \in Recorded
  BY <1>2 DEF KeyOf, KeyOK
<1>4. CASE runs[key] # NoRun
  <2>1. GoesOn(w) /\ UNCHANGED table
    BY <1>4 DEF Insert
  <2>2. WorkersOK' /\ PostsOK'
    BY <1>2, <2>1, GoesOnOK DEF Inv, table
  <2>. QED  BY <1>1, <2>1, <2>2, SameTableOK DEF Inv
<1>5. CASE runs[key] = NoRun
  <2>1. /\ runs' = [runs EXCEPT ![key] = run] /\ Becomes(w, next)
        /\ notices' = [notices EXCEPT ![key] =
             [u \in User |-> @[u] + (IF u \in to THEN 1 ELSE 0)]]
    BY <1>5 DEF Insert
  <2>2. IsFiniteSet(to) /\ Cardinality(to) \in Nat
    BY <1>2, PeopleAssumption, FS_Subset, FS_CardinalityType
  <2>3. run \in Run /\ run.attempts <= MaxSlackAttempts /\ run.recipients = Cardinality(to)
    BY <2>2, AttemptsAssumption DEF Run
  <2>. HIDE DEF run
  <2>4. run # NoRun
    BY <2>3, NoRunAssumption
  <2>5. RunsOK'
    <3>1. DOMAIN runs' = Key
      BY <2>1 DEF Inv, RunsOK
    <3>2. \A k \in Key : runs'[k] = IF k = key THEN run ELSE runs[k]
      BY <2>1 DEF Inv, RunsOK
    <3>. QED  BY <2>3, <3>1, <3>2 DEF Inv, RunsOK, RunOK
  <2>6. \A u \in User : notices[key][u] = 0
    <3>1. Cardinality({u \in User : notices[key][u] > 0}) = 0
      BY <1>3, <1>5 DEF Inv, NoticesOK, NoticesFollowTheRecord
    <3>2. IsFiniteSet({u \in User : notices[key][u] > 0})
      BY PeopleAssumption, FS_Subset
    <3>3. {u \in User : notices[key][u] > 0} = {}
      BY <3>1, <3>2, FS_EmptySet
    <3>4. \A u \in User : notices[key][u] \in Nat
      BY <1>3 DEF Inv, NoticesOK
    <3>. QED  BY <3>3, <3>4
  <2>7. \A k \in Key, u \in User :
          notices'[k][u] = IF k # key THEN notices[k][u] ELSE IF u \in to THEN 1 ELSE 0
    BY <2>1, <2>6 DEF Inv, NoticesOK
  <2>8. notices' \in [Key -> [User -> Nat]]
    <3>1. [u \in User |-> notices[key][u] + (IF u \in to THEN 1 ELSE 0)] \in [User -> Nat]
      BY <1>3 DEF Inv, NoticesOK
    <3>. QED  BY <2>1, <3>1, <1>3 DEF Inv, NoticesOK
  <2>9. NoticesFollowTheRecord'
    <3>1. ASSUME NEW k \in Key, k.kind \in Recorded, k # key
          PROVE  /\ \A u \in User : notices'[k][u] <= 1
                 /\ Cardinality({u \in User : notices'[k][u] > 0}) =
                      IF runs'[k] = NoRun THEN 0 ELSE runs'[k].recipients
      <4>1. {u \in User : notices'[k][u] > 0} = {u \in User : notices[k][u] > 0}
        BY <2>7, <3>1
      <4>2. runs'[k] = runs[k]
        BY <2>1, <3>1 DEF Inv, RunsOK
      <4>. QED  BY <2>7, <3>1, <4>1, <4>2 DEF Inv, NoticesOK, NoticesFollowTheRecord
    <3>2. /\ \A u \in User : notices'[key][u] <= 1
          /\ Cardinality({u \in User : notices'[key][u] > 0}) =
               IF runs'[key] = NoRun THEN 0 ELSE runs'[key].recipients
      <4>1. {u \in User : notices'[key][u] > 0} = to
        BY <1>2, <1>3, <2>7
      <4>2. runs'[key] = run
        BY <1>3, <2>1 DEF Inv, RunsOK
      <4>3. \A u \in User : notices'[key][u] <= 1
        BY <1>3, <2>7
      <4>4. Cardinality({u \in User : notices'[key][u] > 0}) = runs'[key].recipients
        BY <2>3, <4>1, <4>2
      <4>. QED  BY <2>4, <4>2, <4>3, <4>4
    <3>. QED  BY <3>1, <3>2 DEF NoticesFollowTheRecord
  <2>10. WorkersOK' /\ PostsOK'
    <3>1. WorkerOK(next) /\ next.pc = "post" /\ next.key = key
      BY <1>2, AttemptsAssumption DEF WorkerOK, KeyOK, KeyOf
    <3>2. \A k \in Key : runs'[k] = IF k = key THEN run ELSE runs[k]
      BY <2>1 DEF Inv, RunsOK
    <3>. HIDE DEF next
    <3>. QED  BY <1>3, <2>1, <2>4, <3>1, <3>2, BecomesOK DEF Inv
  <2>. QED  BY <1>1, <2>5, <2>8, <2>9, <2>10 DEF Inv, NoticesOK
<1>. QED  BY <1>4, <1>5

\* postSlack, and the end of retrySlack: the record stays one of at most so
\* many attempts, and says of the people what it said before.
LEMMA PostOK == ASSUME Inv, NEW w \in Worker, PostSlack(w) \/ Record(w) PROVE Inv'
<1>1. /\ KeyOK(worker[w]) /\ worker[w].attempts \in 0 .. (MaxSlackAttempts - 1)
      /\ worker[w].pc \in {"post", "record"}
  BY DEF Inv, WorkersOK, WorkerOK, PostSlack, Record
<1>2. KeyOf(w) \in Key /\ runs[KeyOf(w)] # NoRun
  BY <1>1 DEF KeyOf, KeyOK, Inv, PostsOK
<1>3. CASE PostSlack(w)
  <2>1. PICK status \in {"sent", "failed"} :
          Becomes(w, [pc |-> "record", key |-> KeyOf(w), left |-> worker[w].left,
                      attempts |-> worker[w].attempts, status |-> status])
    BY <1>3 DEF PostSlack
  <2>. DEFINE next == [pc |-> "record", key |-> KeyOf(w), left |-> worker[w].left,
                       attempts |-> worker[w].attempts, status |-> status]
  <2>2. WorkerOK(next) /\ next.pc = "record" /\ next.key = KeyOf(w) /\ Becomes(w, next)
    BY <1>1, <2>1 DEF WorkerOK, KeyOK, KeyOf
  <2>3. UNCHANGED runs
    BY <1>3 DEF PostSlack, table
  <2>. HIDE DEF next
  <2>4. WorkersOK' /\ PostsOK'
    BY <1>2, <2>2, <2>3, BecomesOK DEF Inv
  <2>. QED  BY <1>3, <2>4, SameWorldOK, SameTableOK DEF Inv, PostSlack
<1>4. CASE Record(w)
  <2>. DEFINE before == runs[KeyOf(w)]
              after == [before EXCEPT !.status = worker[w].status,
                                      !.attempts = worker[w].attempts + 1]
              run == IF after = before THEN before ELSE [after EXCEPT !.rested = FALSE]
  <2>1. before \in Run /\ worker[w].status \in {"sent", "failed"}
    BY <1>2, <1>4 DEF Inv, RunsOK, RunOK, WorkersOK, WorkerOK, Record
  <2>2. /\ run \in Run /\ run.attempts <= MaxSlackAttempts
        /\ run.recipients = before.recipients
    <3>1. worker[w].attempts + 1 \in Nat /\ worker[w].attempts + 1 <= MaxSlackAttempts
      BY <1>1, AttemptsAssumption
    <3>2. after \in Run /\ after.attempts = worker[w].attempts + 1
          /\ after.recipients = before.recipients
      BY <2>1, <3>1 DEF Run
    <3>3. [after EXCEPT !.rested = FALSE] \in Run
          /\ [after EXCEPT !.rested = FALSE].attempts = after.attempts
          /\ [after EXCEPT !.rested = FALSE].recipients = after.recipients
      BY <3>2 DEF Run
    <3>. HIDE DEF after, before
    <3>. QED  BY <3>1, <3>2, <3>3
  <2>3. runs' = [runs EXCEPT ![KeyOf(w)] = run] /\ GoesOn(w)
    BY <1>4 DEF Record
  <2>. HIDE DEF run
  <2>4. run # NoRun
    BY <2>2, NoRunAssumption
  <2>5. /\ DOMAIN runs' = Key
        /\ \A k \in Key : runs'[k] = IF k = KeyOf(w) THEN run ELSE runs[k]
    BY <2>3 DEF Inv, RunsOK
  <2>6. RunsOK'
    BY <2>2, <2>5 DEF Inv, RunsOK, RunOK
  <2>7. NoticesOK'
    <3>1. notices' = notices
      BY <1>4 DEF Record
    <3>2. \A k \in Key : (runs'[k] = NoRun <=> runs[k] = NoRun)
                         /\ (runs[k] # NoRun => runs'[k].recipients = runs[k].recipients)
      BY <1>2, <2>2, <2>4, <2>5
    <3>. QED  BY <3>1, <3>2 DEF Inv, NoticesOK, NoticesFollowTheRecord
  <2>8. WorkersOK' /\ PostsOK'
    BY <1>1, <2>3, <2>4, <2>5, GoesOnOK DEF Inv
  <2>9. WorldOK'
    BY <1>4, SameWorldOK DEF Inv, Record
  <2>. QED  BY <2>6, <2>7, <2>8, <2>9 DEF Inv
<1>. QED  BY <1>3, <1>4

-----------------------------------------------------------------------------
\* The requests that save a version and tell of the start of its update, or of
\* new actuals.
LEMMA SavingOK ==
  ASSUME Inv, NEW r \in Worker, NEW s \in Scenario, NEW open \in BOOLEAN,
         NEW deadline \in Deadlines \union {NoDeadline}, SaveScenario(r, s, open, deadline)
  PROVE  Inv'
<1>1. WorldOK'
  <2>1. scenario' = [scenario EXCEPT ![s] = [open |-> open, deadline |-> deadline]]
        /\ UNCHANGED <<day, late, todo>>
    BY DEF SaveScenario
  <2>. QED  BY <2>1 DEF Inv, WorldOK
<1>2. RunsOK' /\ NoticesOK' /\ UNCHANGED runs
  BY SameTableOK DEF Inv, SaveScenario, table
<1>3. WorkersOK' /\ PostsOK'
  <2>. DEFINE next == [pc |-> "started", scenario |-> s]
  <2>1. WorkerOK(next) /\ next.pc = "started"
    BY DEF WorkerOK
  <2>2. Becomes(r, next) \/ UNCHANGED worker
    BY DEF SaveScenario
  <2>. HIDE DEF next
  <2>. QED  BY <1>2, <2>1, <2>2, BecomesOK, SameWorkersOK DEF Inv
<1>. QED  BY <1>1, <1>2, <1>3 DEF Inv

LEMMA TellingOK ==
  ASSUME Inv, NEW r \in Worker, UpdateStarted(r) \/ ActualsReflected(r)
  PROVE  Inv'
<1>1. WorldOK' /\ RunsOK' /\ NoticesOK' /\ UNCHANGED runs
  BY SameWorldOK, SameTableOK DEF Inv, UpdateStarted, ActualsReflected, table
<1>2. day \in Days /\ {} \in SUBSET (Scenario \X (Deadlines \union {NoDeadline}))
  BY DEF Inv, WorldOK
<1>3. CASE UpdateStarted(r)
  <2>1. worker[r].scenario \in Scenario
    BY <1>3 DEF UpdateStarted, Inv, WorkersOK, WorkerOK
  <2>2. Becomes(r, Idle) \/ Deliver(r, "update_started", worker[r].scenario, day, User, {})
    BY <1>3 DEF UpdateStarted
  <2>3. "update_started" \in Recorded
    BY DEF Recorded
  <2>4. WorkersOK' /\ PostsOK'
    BY <1>1, <1>2, <2>1, <2>2, <2>3, RestsOK, DeliverOK DEF Inv
  <2>. QED  BY <1>1, <2>4 DEF Inv
<1>4. CASE ActualsReflected(r)
  <2>1. PICK s \in Scenario, to \in SUBSET User \ {{}} :
          Deliver(r, "actuals_reflected", s, day, to, {})
    BY <1>4 DEF ActualsReflected
  <2>2. "actuals_reflected" \in Recorded
    BY DEF Recorded
  <2>3. WorkersOK' /\ PostsOK'
    BY <1>1, <1>2, <2>1, <2>2, DeliverOK DEF Inv
  <2>. QED  BY <1>1, <2>3 DEF Inv
<1>. QED  BY <1>3, <1>4

\* A reminder by hand has no record, and its notices are of a kind of their own.
LEMMA RemindingOK ==
  ASSUME Inv, NEW r \in Worker, CheckReminder(r) \/ SendReminder(r)
  PROVE  Inv'
<1>1. WorldOK' /\ UNCHANGED runs
  BY SameWorldOK DEF Inv, CheckReminder, SendReminder, table
<1>2. CASE CheckReminder(r)
  <2>1. PICK s \in Scenario, u \in User : Becomes(r, [pc |-> "remind", scenario |-> s, user |-> u])
    BY <1>2 DEF CheckReminder
  <2>. DEFINE next == [pc |-> "remind", scenario |-> s, user |-> u]
  <2>2. WorkerOK(next) /\ next.pc = "remind" /\ Becomes(r, next)
    BY <2>1 DEF WorkerOK
  <2>. HIDE DEF next
  <2>3. WorkersOK' /\ PostsOK'
    BY <1>1, <2>2, BecomesOK DEF Inv
  <2>. QED  BY <1>1, <1>2, <2>3, SameTableOK DEF Inv, CheckReminder
<1>3. CASE SendReminder(r)
  <2>. DEFINE key == [kind |-> "manual_reminder", scenario |-> worker[r].scenario, day |-> day]
              u == worker[r].user
  <2>1. worker[r].scenario \in Scenario /\ u \in User
    BY <1>3 DEF SendReminder, Inv, WorkersOK, WorkerOK
  <2>2. key \in Key /\ key.kind \notin Recorded
    BY <2>1 DEF Key, Kinds, Recorded, DueKinds, Inv, WorldOK
  <2>3. notices' = [notices EXCEPT ![key][u] = @ + 1] /\ Becomes(r, Idle)
    BY <1>3 DEF SendReminder
  <2>. HIDE DEF key
  <2>4. notices' \in [Key -> [User -> Nat]] /\ \A k \in Key : k # key => notices'[k] = notices[k]
    <3>1. notices[key] \in [User -> Nat]
      BY <2>2 DEF Inv, NoticesOK
    <3>2. [notices[key] EXCEPT ![u] = @ + 1] \in [User -> Nat]
      BY <3>1, <2>1
    <3>. QED  BY <2>2, <2>3, <3>2 DEF Inv, NoticesOK
  <2>5. NoticesFollowTheRecord'
    <3>1. \A k \in Key : k.kind \in Recorded => notices'[k] = notices[k] /\ runs'[k] = runs[k]
      BY <1>1, <2>2, <2>4
    <3>. QED  BY <3>1 DEF NoticesFollowTheRecord, Inv, NoticesOK
  <2>6. RunsOK'
    BY <1>1 DEF Inv, RunsOK, RunOK
  <2>7. WorkersOK' /\ PostsOK'
    BY <1>1, <2>3, RestsOK DEF Inv
  <2>. QED  BY <1>1, <2>4, <2>5, <2>6, <2>7 DEF Inv, NoticesOK
<1>. QED  BY <1>2, <1>3

\* People, the clock and crashes leave the notices alone; the ten minutes after
\* an attempt change nothing else of a record.
LEMMA OthersOK ==
  ASSUME Inv, \/ \E w \in Worker : Crash(w)
              \/ \E s \in Scenario, done \in SUBSET User : Complete(s, done)
              \/ Tick \/ TenMinutes
  PROVE  Inv'
<1>1. ASSUME NEW w \in Worker, Crash(w) PROVE Inv'
  <2>1. WorkersOK' /\ PostsOK'
    BY <1>1, RestsOK DEF Inv, Crash, table
  <2>. QED  BY <1>1, <2>1, SameWorldOK, SameTableOK DEF Inv, Crash
<1>2. ASSUME NEW s \in Scenario, NEW done \in SUBSET User, Complete(s, done) PROVE Inv'
  <2>1. WorldOK'
    <3>1. todo' = [todo EXCEPT ![s] = done] /\ UNCHANGED <<day, late, scenario>>
      BY <1>2 DEF Complete
    <3>. QED  BY <3>1 DEF Inv, WorldOK
  <2>2. UNCHANGED worker /\ UNCHANGED table
    BY <1>2 DEF Complete
  <2>. QED  BY <2>1, <2>2, SameWorkersOK, SameTableOK DEF Inv, table
<1>3. CASE Tick
  <2>1. WorldOK'
    <3>1. day' \in Days
      BY <1>3, DaysAssumption DEF Tick, Inv, WorldOK, Days
    <3>2. late' \in BOOLEAN /\ UNCHANGED <<scenario, todo>>
      BY <1>3 DEF Tick
    <3>. QED  BY <3>1, <3>2 DEF Inv, WorldOK
  <2>2. UNCHANGED worker /\ UNCHANGED table
    BY <1>3 DEF Tick
  <2>. QED  BY <2>1, <2>2, SameWorkersOK, SameTableOK DEF Inv, table
<1>4. CASE TenMinutes
  <2>1. /\ runs' = [k \in Key |-> IF runs[k] = NoRun THEN NoRun ELSE [runs[k] EXCEPT !.rested = TRUE]]
        /\ notices' = notices /\ worker' = worker /\ UNCHANGED world
    BY <1>4 DEF TenMinutes
  <2>2. ASSUME NEW k \in Key, runs[k] # NoRun
        PROVE  /\ runs'[k] \in Run /\ runs'[k] # NoRun
               /\ runs'[k].attempts = runs[k].attempts
               /\ runs'[k].recipients = runs[k].recipients
    <3>1. runs[k] \in Run /\ runs'[k] = [runs[k] EXCEPT !.rested = TRUE]
      BY <2>1, <2>2 DEF Inv, RunsOK, RunOK
    <3>2. /\ runs'[k] \in Run
          /\ runs'[k].attempts = runs[k].attempts
          /\ runs'[k].recipients = runs[k].recipients
      BY <3>1 DEF Run
    <3>. QED  BY <3>2, NoRunAssumption
  <2>3. \A k \in Key : runs[k] = NoRun => runs'[k] = NoRun
    BY <2>1
  <2>4. RunsOK'
    <3>1. DOMAIN runs' = Key
      BY <2>1
    <3>. QED  BY <2>2, <2>3, <3>1 DEF Inv, RunsOK, RunOK
  <2>5. NoticesOK'
    <3>1. \A k \in Key : (runs'[k] = NoRun <=> runs[k] = NoRun)
                         /\ (runs[k] # NoRun => runs'[k].recipients = runs[k].recipients)
      BY <2>2, <2>3
    <3>. QED  BY <2>1, <3>1 DEF Inv, NoticesOK, NoticesFollowTheRecord
  <2>6. WorkersOK' /\ PostsOK'
    BY <2>1, <2>2, SameWorkersOK DEF Inv
  <2>. QED  BY <2>1, <2>4, <2>5, <2>6, SameWorldOK DEF Inv
<1>. QED  BY <1>1, <1>2, <1>3, <1>4

\* Every step of every worker, of people and of the clock keeps the invariant.
THEOREM NextInv == Inv /\ [Next]_vars => Inv'
<1>. SUFFICES ASSUME Inv, [Next]_vars PROVE Inv'
  OBVIOUS
<1>1. ASSUME NEW w \in Worker, Step(w) PROVE Inv'
  BY <1>1, RunDueOK, LookUpOK, InsertOK, PostOK, TellingOK, RemindingOK DEF Step
<1>2. ASSUME NEW r \in Request, Receive(r) PROVE Inv'
  <2>1. r \in Worker
    BY DEF Worker
  <2>. QED  BY <1>2, <2>1, SavingOK, TellingOK, RemindingOK DEF Receive
<1>3. CASE UNCHANGED vars
  <2>1. UNCHANGED world /\ UNCHANGED table /\ UNCHANGED worker /\ UNCHANGED runs
    BY <1>3 DEF vars, world, table
  <2>. QED  BY <2>1, SameWorldOK, SameTableOK, SameWorkersOK DEF Inv
<1>. QED  BY <1>1, <1>2, <1>3, OthersOK DEF Next

\* The strengthened invariant, for any number of servers, requests and crashes.
THEOREM SpecInv == Spec => []Inv
BY InitInv, NextInv, PTL DEF Spec

\* The rows and the clock stay of their kinds, and no record counts more than
\* MaxSlackAttempts attempts, however many workers post about it (TypeOK).
THEOREM SpecTypeOK == Spec => []TypeOK
<1>1. Inv => TypeOK
  BY DEF Inv, WorldOK, RunsOK, RunOK, NoticesOK, WorkersOK, TypeOK
<1>. QED  BY <1>1, SpecInv, PTL

\* deliver: nobody gets a notice of a kind about a version twice a day, and the
\* record counts those who got it, with any number of servers and requests that
\* meet and die at any step (NoticesFollowTheRecord of Notify).
THEOREM NobodyIsToldTwice == Spec => []NoticesFollowTheRecord
<1>1. Inv => NoticesFollowTheRecord
  BY DEF Inv, NoticesOK
<1>. QED  BY <1>1, SpecInv, PTL

=============================================================================
