---------------------------- MODULE ActualsProofs ---------------------------
(***************************************************************************)
(* Theorems about Actuals, for any number of calls, months, years, box ids *)
(* and activities.                                                         *)
(*                                                                         *)
(* The argument is about who holds a month.  What a call has written of it *)
(* was made from the entries of the moment, and those stay as they are     *)
(* until the call commits, because only a holder publishes entries.  So    *)
(* the sums of a call are right exactly when its snapshot of the month was *)
(* still the truth when it took the locks.  The rows a SELECT adds up are  *)
(* told apart by their identity, which is why identities have to be unique *)
(* in a month.                                                             *)
(***************************************************************************)
EXTENDS Actuals, TLAPS

\* The entries of a month: of one file, each identity once.
Whole(rows) ==
  /\ rows \subseteq Row
  /\ \A r, s \in rows : r.from = s.from
  /\ \A r, s \in rows : Id(r) = Id(s) => r = s

Asked ==
  [kind : {"import"}, months : SUBSET Month, lines : SUBSET (Month \X Box)]
    \union [kind : {"reallocate"}, months : SUBSET Month]
    \union [kind : {"assign"}, box : Box, activity : Activity]
Snapshots ==
  [entries : [Month -> SUBSET Row], codes : [Box -> Targets], closed : SUBSET Year]

TablesOK ==
  /\ entries \in [Month -> SUBSET Row]
  /\ facts \in [Month -> SUBSET Row]
  /\ codes \in [Box -> Targets]
  /\ closed \subseteq Year
  /\ holder \in [Month -> Call \union {NoCall}]
  /\ pc \in [Call -> {"idle", "begun", "locked", "done"}]
  /\ seen \in [Call -> Snapshots]
  /\ DOMAIN request = Call
  /\ DOMAIN written = Call
  /\ \A m \in Month : Whole(entries[m])

RequestsOK ==
  \A c \in Call : IF pc[c] \in {"begun", "locked"} THEN request[c] \in Asked
                  ELSE request[c] = NoRequest

\* What a call has written: only of months it holds, and only while it holds
\* them; with the sums right if its snapshot is, and, by an assignment, nothing
\* new in a closed year.  The months it writes without their totals are those an
\* assignment found closed when it began and open when it wrote.
WithoutTotals(c, m) ==
  /\ pc[c] = "locked" /\ request[c].kind = "assign"
  /\ YearOf[m] \in seen[c].closed \ closed
WrittenOK(c) ==
  /\ DOMAIN written[c].entries = {m \in Month : holder[m] = c}
  /\ DOMAIN written[c].facts \subseteq DOMAIN written[c].entries
  /\ pc[c] # "locked" => written[c] = NoWrites
  /\ \A m \in DOMAIN written[c].entries : Whole(written[c].entries[m])
  /\ \A m \in DOMAIN written[c].facts :
       /\ written[c].facts[m] \subseteq Row
       /\ seen[c].entries[m] = entries[m] => written[c].facts[m] = written[c].entries[m]
  /\ \A m \in DOMAIN written[c].entries \ DOMAIN written[c].facts : WithoutTotals(c, m)
  /\ pc[c] = "locked" /\ request[c].kind = "assign" =>
       \A m \in DOMAIN written[c].entries \intersect ClosedMonths(closed) :
         written[c].entries[m] = entries[m]

Inv == TablesOK /\ RequestsOK /\ \A c \in Call : WrittenOK(c)

-----------------------------------------------------------------------------
\* Whoever writes nothing holds nothing.
LEMMA NothingWritten ==
  /\ DOMAIN NoWrites.entries = {}
  /\ DOMAIN NoWrites.facts = {}
BY DEF NoWrites

\* A plain SELECT of a month that is still as in the snapshot sees what the
\* statements have left of it.
LEMMA ViewOfUnchanged ==
  ASSUME NEW c \in Call, NEW m \in Month, seen[c].entries[m] = entries[m],
         Whole(entries[m]), NEW touched \in SUBSET entries[m], NEW rows
  PROVE  View(c, m, touched, rows) = (entries[m] \ touched) \union rows
<1>1. \A r \in entries[m] : Id(r) \in {Id(x) : x \in touched} <=> r \in touched
  BY DEF Whole
<1>. QED  BY <1>1 DEF View

\* The rows a SELECT sees are rows.
LEMMA ViewIsRows ==
  ASSUME Inv, NEW c \in Call, NEW m \in Month, NEW touched, NEW rows \in SUBSET Row
  PROVE  View(c, m, touched, rows) \subseteq Row
<1>1. seen[c].entries[m] \subseteq Row
  BY DEF Inv, TablesOK, Snapshots
<1>. QED  BY <1>1 DEF View

\* A month stays whole when some of its rows are removed and others are
\* rewritten with their identities.
LEMMA RewrittenIsWhole ==
  ASSUME NEW before, Whole(before), NEW touched \in SUBSET before,
         NEW after \in SUBSET Row,
         \A x \in after : \E r \in touched : Id(x) = Id(r) /\ x.from = r.from,
         \A x, y \in after : Id(x) = Id(y) => x = y
  PROVE  Whole((before \ touched) \union after)
<1>. DEFINE rows == (before \ touched) \union after
<1>1. \A x \in rows : \E r \in before : x.from = r.from
  OBVIOUS
<1>2. \A r, s \in rows : r.from = s.from
  BY <1>1 DEF Whole
<1>3. \A r, s \in rows : Id(r) = Id(s) => r = s
  BY DEF Whole
<1>4. rows \subseteq Row
  BY DEF Whole
<1>. QED  BY <1>2, <1>3, <1>4 DEF Whole

-----------------------------------------------------------------------------
\* Nothing is written before a call begins.
THEOREM InitInv == Init => Inv
<1>. SUFFICES ASSUME Init PROVE Inv
  OBVIOUS
<1>1. NothingSeen \in Snapshots
  BY DEF NothingSeen, Snapshots, Targets
<1>2. \A m \in Month : Whole(entries[m])
  BY DEF Init, Whole
<1>3. TablesOK
  BY <1>1, <1>2 DEF Init, TablesOK, Targets
<1>4. RequestsOK
  BY DEF Init, RequestsOK
<1>5. ASSUME NEW c \in Call PROVE WrittenOK(c)
  <2>1. {m \in Month : holder[m] = c} = {}
    BY NoCallAssumption DEF Init
  <2>2. written[c] = NoWrites /\ pc[c] = "idle"
    BY DEF Init
  <2>. QED  BY <2>1, <2>2, NothingWritten DEF WrittenOK
<1>. QED  BY <1>3, <1>4, <1>5 DEF Inv

\* A call that begins has written nothing.
LEMMA BeginInv ==
  ASSUME Inv, NEW c \in Call, NEW req \in Asked, Begin(c, req)
  PROVE  Inv'
<1>1. Now \in Snapshots
  BY DEF Inv, TablesOK, Now, Snapshots
<1>2. TablesOK'
  BY <1>1 DEF Inv, TablesOK, Begin
<1>3. RequestsOK'
  BY DEF Inv, TablesOK, RequestsOK, Begin
<1>4. ASSUME NEW d \in Call PROVE WrittenOK(d)'
  <2>1. CASE d = c
    <3>1. written'[c] = NoWrites /\ pc'[c] = "begun"
      BY DEF Begin, Inv, WrittenOK, TablesOK
    <3>2. DOMAIN written'[c].entries = {m \in Month : holder'[m] = c}
      BY DEF Begin, Inv, WrittenOK
    <3>. QED  BY <2>1, <3>1, <3>2, NothingWritten DEF WrittenOK
  <2>2. CASE d # c
    <3>1. /\ pc'[d] = pc[d] /\ request'[d] = request[d] /\ seen'[d] = seen[d]
          /\ UNCHANGED <<entries, closed, holder, written>>
      BY <2>2 DEF Begin, Inv, TablesOK
    <3>. QED  BY <3>1 DEF Inv, WrittenOK, WithoutTotals, ClosedMonths
  <2>. QED  BY <2>1, <2>2
<1>. QED  BY <1>2, <1>3, <1>4 DEF Inv

\* What the statements of a call may do to the months it takes.
Proper(c, months, synced, touched, rows) ==
  /\ months \in SUBSET Month /\ synced \in SUBSET months
  /\ \A m \in months :
       /\ touched[m] \subseteq entries[m] /\ rows[m] \subseteq Row
       /\ Whole((entries[m] \ touched[m]) \union rows[m])
       /\ request[c].kind = "assign" /\ m \in ClosedMonths(closed) =>
            (entries[m] \ touched[m]) \union rows[m] = entries[m]
       /\ m \notin synced =>
            request[c].kind = "assign" /\ YearOf[m] \in seen[c].closed \ closed

\* What a call writes, whichever statements it comes from: rows made from the
\* entries of the moment that are of one file again.
LEMMA WriteInv ==
  ASSUME Inv, NEW c \in Call, pc[c] = "begun",
         NEW months, NEW synced, NEW touched, NEW rows,
         Proper(c, months, synced, touched, rows),
         Write(c, months, synced, touched, rows)
  PROVE  Inv'
<1>. USE DEF Proper
<1>1. TablesOK'
  BY DEF Inv, TablesOK, Write
<1>2. RequestsOK'
  BY DEF Inv, TablesOK, RequestsOK, Write
<1>3. \A m \in Month : (m \in months => holder[m] = NoCall) /\ holder'[m] = IF m \in months THEN c ELSE holder[m]
  BY DEF Write
<1>4. WrittenOK(c)'
  <2>1. {m \in Month : holder[m] = c} = {}
    BY NothingWritten DEF Inv, WrittenOK
  <2>2. {m \in Month : holder'[m] = c} = months
    BY <1>3, <2>1
  <2>3. /\ DOMAIN written'[c].entries = months
        /\ DOMAIN written'[c].facts = synced
        /\ \A m \in months : written'[c].entries[m] = (entries[m] \ touched[m]) \union rows[m]
        /\ \A m \in synced : written'[c].facts[m] = View(c, m, touched[m], rows[m])
    BY DEF Write, Inv, TablesOK
  <2>4. pc'[c] = "locked" /\ UNCHANGED <<entries, seen, request, closed>>
    BY DEF Write, Inv, TablesOK
  <2>5. ASSUME NEW m \in synced
        PROVE  /\ written'[c].facts[m] \subseteq Row
               /\ seen[c].entries[m] = entries[m] => written'[c].facts[m] = written'[c].entries[m]
    <3>1. Whole(entries[m]) /\ touched[m] \subseteq entries[m] /\ rows[m] \subseteq Row /\ m \in Month
      BY DEF Inv, TablesOK
    <3>2. View(c, m, touched[m], rows[m]) \subseteq Row
      BY <3>1, ViewIsRows
    <3>3. seen[c].entries[m] = entries[m] =>
            View(c, m, touched[m], rows[m]) = (entries[m] \ touched[m]) \union rows[m]
      BY <3>1, ViewOfUnchanged
    <3>. QED  BY <2>3, <3>2, <3>3
  <2>6. \A m \in months : Whole(written'[c].entries[m])
    BY <2>3
  <2>7. (\A m \in DOMAIN written[c].entries : Whole(written[c].entries[m]))'
    BY <2>3, <2>6 DEF Whole, Id, Row, Targets
  <2>8. (\A m \in DOMAIN written[c].facts :
           /\ written[c].facts[m] \subseteq Row
           /\ seen[c].entries[m] = entries[m] => written[c].facts[m] = written[c].entries[m])'
    BY <2>3, <2>4, <2>5 DEF Row, Targets
  <2>9. (pc[c] = "locked" /\ request[c].kind = "assign" =>
           \A m \in DOMAIN written[c].entries \intersect ClosedMonths(closed) :
             written[c].entries[m] = entries[m])'
    BY <2>3, <2>4 DEF ClosedMonths
  <2>10. (\A m \in DOMAIN written[c].entries \ DOMAIN written[c].facts : WithoutTotals(c, m))'
    BY <2>3, <2>4 DEF WithoutTotals
  <2>. QED  BY <2>2, <2>3, <2>4, <2>7, <2>8, <2>9, <2>10 DEF WrittenOK
<1>5. ASSUME NEW d \in Call, d # c PROVE WrittenOK(d)'
  <2>1. {m \in Month : holder'[m] = d} = {m \in Month : holder[m] = d}
    BY <1>3, <1>5, NoCallAssumption
  <2>2. /\ pc'[d] = pc[d] /\ written'[d] = written[d]
        /\ UNCHANGED <<entries, seen, request, closed>>
    BY <1>5 DEF Write, Inv, TablesOK
  <2>. QED  BY <2>1, <2>2 DEF Inv, WrittenOK, WithoutTotals, ClosedMonths, Whole
<1>. QED  BY <1>1, <1>2, <1>4, <1>5 DEF Inv

\* The statements of an import: the rows of the file replace the month.
LEMMA ImportInv ==
  ASSUME Inv, NEW c \in Call, AcquireImport(c)
  PROVE  Inv'
<1>1. /\ request[c] \in [kind : {"import"}, months : SUBSET Month, lines : SUBSET (Month \X Box)]
      /\ seen[c] \in Snapshots
  BY DEF AcquireImport, Inv, RequestsOK, TablesOK, Asked
<1>. DEFINE months == request[c].months
            rows == [m \in Month |-> ImportedRows(c, m)]
<1>2. months \in SUBSET Month
  BY <1>1
<1>3. ASSUME NEW m \in months
      PROVE  /\ entries[m] \subseteq entries[m] /\ rows[m] \subseteq Row
             /\ Whole((entries[m] \ entries[m]) \union rows[m])
  <2>1. \A r \in rows[m] : \E b \in Box : r = [from |-> c, box |-> b, activity |-> seen[c].codes[b]]
    BY <1>2 DEF ImportedRows
  <2>2. \A b \in Box : [from |-> c, box |-> b, activity |-> seen[c].codes[b]] \in Row
    BY <1>1 DEF Snapshots, Row
  <2>. HIDE DEF rows
  <2>3. rows[m] \subseteq Row
    BY <2>1, <2>2
  <2>4. Whole(rows[m])
    <3>1. \A r \in rows[m] : r.from = c
      BY <2>1
    <3>2. ASSUME NEW r \in rows[m], NEW s \in rows[m], Id(r) = Id(s) PROVE r = s
      <4>1. PICK b \in Box : r = [from |-> c, box |-> b, activity |-> seen[c].codes[b]]
        BY <2>1
      <4>2. PICK d \in Box : s = [from |-> c, box |-> d, activity |-> seen[c].codes[d]]
        BY <2>1
      <4>. QED  BY <3>2, <4>1, <4>2 DEF Id
    <3>. QED  BY <2>3, <3>1, <3>2 DEF Whole
  <2>5. (entries[m] \ entries[m]) \union rows[m] = rows[m]
    OBVIOUS
  <2>. QED  BY <2>3, <2>4, <2>5
<1>4. Write(c, months, months, entries, rows) /\ pc[c] = "begun" /\ request[c].kind # "assign"
  BY DEF AcquireImport
<1>. HIDE DEF months, rows
<1>5. Proper(c, months, months, entries, rows)
  BY <1>2, <1>3, <1>4 DEF Proper
<1>. QED  BY <1>4, <1>5, WriteInv

\* The statements of a reallocation: entries keep their identity.
LEMMA ReallocateInv ==
  ASSUME Inv, NEW c \in Call, AcquireReallocate(c)
  PROVE  Inv'
<1>1. /\ request[c] \in [kind : {"reallocate"}, months : SUBSET Month]
      /\ seen[c] \in Snapshots
  BY DEF AcquireReallocate, Inv, RequestsOK, TablesOK, Asked
<1>2. PICK excluded \in SUBSET Box :
       LET moved(m) == {r \in entries[m] : r.box \in excluded \/ Reallocated(c, r) # r}
           left(m) == {r \in moved(m) : r.box \notin excluded}
       IN  Write(c, request[c].months, request[c].months, [m \in Month |-> moved(m)],
                 [m \in Month |-> {Reallocated(c, r) : r \in left(m)}])
  BY DEF AcquireReallocate
<1>. DEFINE moved(m) == {r \in entries[m] : r.box \in excluded \/ Reallocated(c, r) # r}
            left(m) == {r \in moved(m) : r.box \notin excluded}
            months == request[c].months
            touched == [m \in Month |-> moved(m)]
            rows == [m \in Month |-> {Reallocated(c, r) : r \in left(m)}]
<1>3. months \in SUBSET Month
  BY <1>1
<1>4. \A r \in Row : Reallocated(c, r) \in Row /\ Id(Reallocated(c, r)) = Id(r)
                        /\ Reallocated(c, r).from = r.from
  BY <1>1 DEF Snapshots, Row, Reallocated, Id
<1>5. ASSUME NEW m \in months
      PROVE  /\ touched[m] \subseteq entries[m] /\ rows[m] \subseteq Row
             /\ Whole((entries[m] \ touched[m]) \union rows[m])
  <2>1. Whole(entries[m]) /\ touched[m] = moved(m) /\ rows[m] = {Reallocated(c, r) : r \in left(m)}
    BY <1>3 DEF Inv, TablesOK
  <2>2. touched[m] \subseteq entries[m] /\ left(m) \subseteq touched[m]
    BY <2>1
  <2>. HIDE DEF touched, rows, moved, left
  <2>3. entries[m] \subseteq Row
    BY <2>1 DEF Whole
  <2>4. rows[m] \subseteq Row
    BY <1>4, <2>1, <2>2, <2>3
  <2>5. Whole((entries[m] \ touched[m]) \union rows[m])
    <3>1. \A x \in rows[m] : \E r \in touched[m] : Id(x) = Id(r) /\ x.from = r.from
      BY <1>4, <2>1, <2>2, <2>3
    <3>2. \A x, y \in rows[m] : Id(x) = Id(y) => x = y
      BY <1>4, <2>1, <2>2, <2>3 DEF Whole
    <3>. QED  BY <2>1, <2>2, <2>4, <3>1, <3>2, RewrittenIsWhole
  <2>. QED  BY <2>2, <2>4, <2>5
<1>6. Write(c, months, months, touched, rows) /\ pc[c] = "begun" /\ request[c].kind # "assign"
  BY <1>2 DEF AcquireReallocate
<1>. HIDE DEF months, touched, rows
<1>7. Proper(c, months, months, touched, rows)
  BY <1>3, <1>5, <1>6 DEF Proper
<1>. QED  BY <1>6, <1>7, WriteInv

\* The statements of an assignment: entries keep their identity, and those of
\* the years that are closed by then are not touched.
LEMMA AssignInv ==
  ASSUME Inv, NEW c \in Call, AcquireAssign(c)
  PROVE  Inv'
<1>. DEFINE open == Month \ ClosedMonths(closed)
            assigned(m) == IF m \in open THEN Assignable(c, m) ELSE {}
            synced == {m \in Month \ ClosedMonths(seen[c].closed) : Assignable(c, m) # {}}
            months == synced \union {m \in Month : assigned(m) # {}}
            touched == [m \in Month |-> assigned(m)]
            rows == [m \in Month |-> {[r EXCEPT !.activity = request[c].activity] :
                                          r \in assigned(m)}]
<1>1. request[c].activity \in Activity
  BY DEF AcquireAssign, Inv, RequestsOK, TablesOK, Asked
<1>2. ASSUME NEW r \in Row, NEW x, x = [r EXCEPT !.activity = request[c].activity]
      PROVE  x \in Row /\ Id(x) = Id(r) /\ x.from = r.from
  BY <1>1, <1>2 DEF Row, Id, Targets
<1>3. ASSUME NEW m \in months
      PROVE  /\ touched[m] \subseteq entries[m] /\ rows[m] \subseteq Row
             /\ Whole((entries[m] \ touched[m]) \union rows[m])
             /\ m \in ClosedMonths(closed) =>
                  (entries[m] \ touched[m]) \union rows[m] = entries[m]
  <2>1. /\ Whole(entries[m])
        /\ touched[m] = assigned(m)
        /\ rows[m] = {[r EXCEPT !.activity = request[c].activity] : r \in assigned(m)}
    BY DEF Inv, TablesOK
  <2>2. touched[m] \subseteq entries[m]
    BY <2>1 DEF Assignable
  <2>3. m \in ClosedMonths(closed) => touched[m] = {} /\ rows[m] = {}
    BY <2>1
  <2>4. \A x \in rows[m] : \E r \in touched[m] : x = [r EXCEPT !.activity = request[c].activity]
    BY <2>1
  <2>. HIDE DEF touched, rows, assigned, months
  <2>5. entries[m] \subseteq Row
    BY <2>1 DEF Whole
  <2>6. \A x \in rows[m] : \E r \in touched[m] :
          x = [r EXCEPT !.activity = request[c].activity] /\ x \in Row
            /\ Id(x) = Id(r) /\ x.from = r.from
    BY <1>2, <2>2, <2>4, <2>5
  <2>7. rows[m] \subseteq Row
    BY <2>6
  <2>8. \A x, y \in rows[m] : Id(x) = Id(y) => x = y
    <3>1. \A q, r \in touched[m] : Id(q) = Id(r) => q = r
      BY <2>1, <2>2 DEF Whole
    <3>2. SUFFICES ASSUME NEW x \in rows[m], NEW y \in rows[m], Id(x) = Id(y) PROVE x = y
      OBVIOUS
    <3>3. PICK q \in touched[m] : x = [q EXCEPT !.activity = request[c].activity] /\ Id(x) = Id(q)
      BY <2>6
    <3>4. PICK r \in touched[m] : y = [r EXCEPT !.activity = request[c].activity] /\ Id(y) = Id(r)
      BY <2>6
    <3>5. q = r
      BY <3>1, <3>2, <3>3, <3>4
    <3>. QED  BY <3>3, <3>4, <3>5
  <2>9. Whole((entries[m] \ touched[m]) \union rows[m])
    <3>1. \A x \in rows[m] : \E r \in touched[m] : Id(x) = Id(r) /\ x.from = r.from
      BY <2>6
    <3>. QED  BY <2>1, <2>2, <2>7, <2>8, <3>1, RewrittenIsWhole
  <2>. QED  BY <2>2, <2>3, <2>7, <2>9
<1>4. Write(c, months, synced, touched, rows) /\ pc[c] = "begun"
  BY DEF AcquireAssign, AssignIn
<1>5. months \in SUBSET Month /\ synced \in SUBSET months
  OBVIOUS
<1>6. \A m \in months : m \notin synced =>
        request[c].kind = "assign" /\ YearOf[m] \in seen[c].closed \ closed
  BY DEF AcquireAssign, ClosedMonths
<1>. HIDE DEF months, synced, touched, rows
<1>7. Proper(c, months, synced, touched, rows)
  BY <1>3, <1>5, <1>6 DEF Proper
<1>. QED  BY <1>4, <1>7, WriteInv

\* A call that is over leaves the months of the others as they were.
LEMMA FinishInv ==
  ASSUME Inv, NEW c \in Call, Finish(c),
         (entries \in [Month -> SUBSET Row])', (facts \in [Month -> SUBSET Row])',
         (codes \in [Box -> Targets])', (\A m \in Month : Whole(entries[m]))',
         \A m \in Month : entries'[m] = entries[m] \/ holder[m] = c
  PROVE  Inv'
<1>1. TablesOK'
  <2>1. (seen \in [Call -> Snapshots])'
    <3>1. NothingSeen \in Snapshots
      BY DEF NothingSeen, Snapshots, Targets
    <3>. QED  BY <3>1 DEF Finish, Inv, TablesOK, Snapshots, Row, Targets
  <2>2. /\ (closed \subseteq Year)'
        /\ (holder \in [Month -> Call \union {NoCall}])'
        /\ (pc \in [Call -> {"idle", "begun", "locked", "done"}])'
        /\ (DOMAIN request = Call)' /\ (DOMAIN written = Call)'
    BY DEF Finish, Inv, TablesOK
  <2>. QED  BY <2>1, <2>2 DEF TablesOK
<1>2. RequestsOK'
  BY DEF Finish, Inv, TablesOK, RequestsOK, Asked
<1>3. ASSUME NEW d \in Call PROVE WrittenOK(d)'
  <2>1. CASE d = c
    <3>1. written'[c] = NoWrites /\ pc'[c] = "done"
      BY DEF Finish, Inv, TablesOK
    <3>2. {m \in Month : holder'[m] = c} = {}
      BY NoCallAssumption DEF Finish
    <3>. QED  BY <2>1, <3>1, <3>2, NothingWritten DEF WrittenOK
  <2>2. CASE d # c
    <3>1. /\ pc'[d] = pc[d] /\ request'[d] = request[d] /\ seen'[d] = seen[d]
          /\ written'[d] = written[d] /\ closed' = closed
      BY <2>2 DEF Finish, Inv, TablesOK
    <3>2. {m \in Month : holder'[m] = d} = {m \in Month : holder[m] = d}
      BY <2>2, NoCallAssumption DEF Finish
    <3>3. \A m \in DOMAIN written[d].entries : entries'[m] = entries[m]
      BY <2>2 DEF Inv, WrittenOK
    <3>. QED  BY <3>1, <3>2, <3>3 DEF Inv, WrittenOK, WithoutTotals, ClosedMonths, Whole
  <2>. QED  BY <2>1, <2>2
<1>. QED  BY <1>1, <1>2, <1>3 DEF Inv

\* What is published is what was written, of months the call holds.
LEMMA CommitInv ==
  ASSUME Inv, NEW c \in Call, Commit(c)
  PROVE  Inv'
<1>1. \A m \in Month : m \in DOMAIN written[c].entries <=> holder[m] = c
  BY DEF Inv, WrittenOK
<1>2. \A m \in Month : Whole(entries'[m])
  BY DEF Commit, Inv, WrittenOK, TablesOK
<1>3. (\A m \in Month : Whole(entries[m]))'
  BY <1>2 DEF Whole, Id, Row, Targets
<1>4. (entries \in [Month -> SUBSET Row])'
  BY <1>2 DEF Commit, Whole
<1>5. (facts \in [Month -> SUBSET Row])'
  BY DEF Commit, Inv, WrittenOK, TablesOK
<1>6. (codes \in [Box -> Targets])'
  <2>1. CASE request[c].kind = "assign"
    <3>1. request[c].activity \in Activity
      BY <2>1 DEF Commit, Inv, RequestsOK, TablesOK, Asked
    <3>. QED  BY <2>1, <3>1 DEF Commit, Inv, TablesOK, Targets
  <2>2. CASE request[c].kind # "assign"
    BY <2>2 DEF Commit, Inv, TablesOK, Targets
  <2>. QED  BY <2>1, <2>2
<1>7. \A m \in Month : entries'[m] = entries[m] \/ holder[m] = c
  BY <1>1 DEF Commit
<1>. QED  BY <1>3, <1>4, <1>5, <1>6, <1>7, FinishInv DEF Commit

LEMMA RollBackInv ==
  ASSUME Inv, NEW c \in Call, RollBack(c)
  PROVE  Inv'
<1>1. UNCHANGED <<entries, facts, codes>> /\ Finish(c)
  BY DEF RollBack
<1>2. /\ (entries \in [Month -> SUBSET Row])' /\ (facts \in [Month -> SUBSET Row])'
      /\ (codes \in [Box -> Targets])' /\ (\A m \in Month : Whole(entries[m]))'
      /\ \A m \in Month : entries'[m] = entries[m] \/ holder[m] = c
  BY <1>1 DEF Inv, TablesOK, Whole, Row, Targets
<1>. QED  BY <1>1, <1>2, FinishInv

\* A year is closed or reopened when no assignment holds the closed years.
LEMMA ClosingInv ==
  ASSUME Inv, Assigning = {}, closed' \in SUBSET Year,
         UNCHANGED <<entries, facts, codes, holder, pc, request, seen, written>>
  PROVE  Inv'
<1>1. TablesOK' /\ RequestsOK'
  BY DEF Inv, TablesOK, RequestsOK, Whole
<1>2. ASSUME NEW c \in Call PROVE WrittenOK(c)'
  <2>1. ~(pc[c] = "locked" /\ request[c].kind = "assign")
    BY DEF Assigning
  <2>. QED  BY <2>1 DEF Inv, WrittenOK, WithoutTotals, Whole
<1>. QED  BY <1>1, <1>2 DEF Inv

\* Every step keeps the invariant.
THEOREM NextInv == Inv /\ [Next]_vars => Inv'
<1>. SUFFICES ASSUME Inv, [Next]_vars PROVE Inv'
  OBVIOUS
<1>1. ASSUME NEW c \in Call, BeginCall(c) PROVE Inv'
  <2>1. ASSUME NEW months \in SUBSET Month \ {{}}, NEW lines \in SUBSET (months \X Box),
               BeginImport(c, months, lines)
        PROVE  Inv'
    <3>1. [kind |-> "import", months |-> months, lines |-> lines] \in Asked
      <4>1. lines \in SUBSET (Month \X Box)
        OBVIOUS
      <4>. QED  BY <4>1 DEF Asked
    <3>. QED  BY <2>1, <3>1, BeginInv DEF BeginImport
  <2>2. ASSUME NEW months \in SUBSET Month \ {{}}, BeginReallocate(c, months)
        PROVE  Inv'
    <3>1. [kind |-> "reallocate", months |-> months] \in Asked
      BY DEF Asked
    <3>. QED  BY <2>2, <3>1, BeginInv DEF BeginReallocate
  <2>3. ASSUME NEW b \in Box, NEW a \in Activity, BeginAssign(c, b, a)
        PROVE  Inv'
    <3>1. [kind |-> "assign", box |-> b, activity |-> a] \in Asked
      BY DEF Asked
    <3>. QED  BY <2>3, <3>1, BeginInv DEF BeginAssign
  <2>. QED  BY <1>1, <2>1, <2>2, <2>3 DEF BeginCall
<1>2. ASSUME NEW c \in Call, Acquire(c) PROVE Inv'
  BY <1>2, ImportInv, ReallocateInv, AssignInv DEF Acquire
<1>3. ASSUME NEW c \in Call, Commit(c) PROVE Inv'
  BY <1>3, CommitInv
<1>4. ASSUME NEW c \in Call, RollBack(c) PROVE Inv'
  BY <1>4, RollBackInv
<1>5. ASSUME NEW y \in Year, CloseYear(y) \/ ReopenYear(y) PROVE Inv'
  <2>1. closed' \in SUBSET Year
    BY <1>5 DEF CloseYear, ReopenYear, Inv, TablesOK
  <2>. QED  BY <1>5, <2>1, ClosingInv DEF CloseYear, ReopenYear
<1>6. ASSUME NEW b \in Box, NEW target \in Targets, ChangeCode(b, target) PROVE Inv'
  <2>1. TablesOK' /\ RequestsOK'
    BY <1>6 DEF ChangeCode, Inv, TablesOK, RequestsOK, Whole
  <2>. QED  BY <1>6, <2>1 DEF ChangeCode, Inv, WrittenOK, WithoutTotals, Whole, ClosedMonths
<1>7. CASE UNCHANGED vars
  BY <1>7 DEF vars, Inv, TablesOK, RequestsOK, WrittenOK, WithoutTotals, Whole, ClosedMonths
<1>. QED  BY <1>1, <1>2, <1>3, <1>4, <1>5, <1>6, <1>7 DEF Next

\* The inductive invariant: what a call holds, it has made from the entries of
\* the moment.
THEOREM SpecInv == Spec => []Inv
BY InitInv, NextInv, PTL DEF Spec

-----------------------------------------------------------------------------
\* The months a call holds are those it has written: a lock is never left
\* behind by a call that is over, and never shared.
THEOREM HoldersWrite == Spec => []TypeOK
<1>1. Inv => TypeOK
  BY DEF Inv, TablesOK, WrittenOK, TypeOK
<1>. QED  BY <1>1, SpecInv, PTL

\* The entries of a month are of one file, however many imports overlap.
THEOREM OneFile == Spec => []MonthHasOneFile
<1>1. Inv => MonthHasOneFile
  BY DEF Inv, TablesOK, Whole, MonthHasOneFile
<1>. QED  BY <1>1, SpecInv, PTL

\* A call is over by its commit or by being undone.
LEMMA OverByCommitOrUndone ==
  ASSUME Inv, [Next]_vars, NEW c \in Call, pc[c] # "done", pc'[c] = "done"
  PROVE  Commit(c) \/ RollBack(c)
<1>1. ASSUME NEW d \in Call, BeginCall(d) \/ Acquire(d) PROVE FALSE
  <2>1. pc' = [pc EXCEPT ![d] = "begun"] \/ pc' = [pc EXCEPT ![d] = "locked"]
    BY <1>1 DEF BeginCall, BeginImport, BeginReallocate, BeginAssign, Begin, Acquire,
                AcquireImport, AcquireReallocate, AcquireAssign, AssignIn, Write
  <2>. QED  BY <2>1 DEF Inv, TablesOK
<1>2. ASSUME NEW d \in Call, Commit(d) \/ RollBack(d) PROVE Commit(c) \/ RollBack(c)
  <2>1. pc' = [pc EXCEPT ![d] = "done"]
    BY <1>2 DEF Commit, RollBack, Finish
  <2>2. d = c
    BY <2>1 DEF Inv, TablesOK
  <2>. QED  BY <1>2, <2>2
<1>3. ASSUME pc' = pc PROVE FALSE
  BY <1>3
<1>4. ASSUME \/ \E y \in Year : CloseYear(y) \/ ReopenYear(y)
             \/ \E b \in Box, target \in Targets : ChangeCode(b, target)
             \/ UNCHANGED vars
      PROVE  pc' = pc
  BY <1>4 DEF CloseYear, ReopenYear, ChangeCode, vars
<1>. QED  BY <1>1, <1>2, <1>3, <1>4 DEF Next

\* A call that commits leaves totals that are the sums of the entries, of every
\* month it has written whose entries had not changed since it began, but for the
\* months of a year that was closed then and has been reopened.
THEOREM SettledCallsMatch == Spec => SettledCallMatches
<1>1. ASSUME Inv PROVE LeavesSums
  <2>1. SUFFICES ASSUME NEW c \in Call, NEW m \in Month, Commit(c), holder[m] = c,
                        seen[c].entries[m] = entries[m],
                        YearOf[m] \notin seen[c].closed \ closed
                 PROVE  facts'[m] = entries'[m]
    BY DEF LeavesSums
  <2>2. m \in DOMAIN written[c].entries
    BY <1>1, <2>1 DEF Inv, WrittenOK
  <2>3. m \in DOMAIN written[c].facts
    BY <1>1, <2>1, <2>2 DEF Inv, WrittenOK, WithoutTotals
  <2>4. written[c].facts[m] = written[c].entries[m]
    BY <1>1, <2>1, <2>3 DEF Inv, WrittenOK
  <2>. QED  BY <2>1, <2>2, <2>3, <2>4 DEF Commit
<1>. QED  BY <1>1, SpecInv, PTL DEF Spec, SettledCallMatches

\* No assignment changes the entries of a closed year.
THEOREM AssignmentsSkipClosedYears == Spec => AssignSkipsClosedYears
<1>1. ASSUME Inv, [Next]_vars PROVE AssignsOpenYears
  <2>1. SUFFICES ASSUME NEW c \in Call, request[c].kind = "assign", pc'[c] = "done",
                        NEW m \in ClosedMonths(closed)
                 PROVE  entries'[m] = entries[m]
    BY DEF AssignsOpenYears
  <2>2. pc[c] \in {"begun", "locked"}
    BY <1>1, <2>1 DEF Inv, RequestsOK, NoRequest
  <2>3. Commit(c) \/ RollBack(c)
    BY <1>1, <2>1, <2>2, OverByCommitOrUndone
  <2>4. ASSUME Commit(c) PROVE entries'[m] = entries[m]
    <3>1. m \in Month /\ pc[c] = "locked"
      BY <2>4 DEF Commit, ClosedMonths
    <3>2. m \in DOMAIN written[c].entries => written[c].entries[m] = entries[m]
      BY <1>1, <2>1, <3>1 DEF Inv, WrittenOK
    <3>. QED  BY <2>4, <3>1, <3>2 DEF Commit
  <2>. QED  BY <2>3, <2>4 DEF RollBack
<1>. QED  BY <1>1, SpecInv, PTL DEF Spec, AssignSkipsClosedYears
=============================================================================
