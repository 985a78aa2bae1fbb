---------------------------- MODULE EditorProofs ----------------------------
(***************************************************************************)
(* The entry page of ValuesEditor, for any cells, values and texts, any    *)
(* length of the history and any number of readings under way.             *)
(*                                                                         *)
(* The invariant has five parts.  DataOK gives every variable its kind;    *)
(* PageOK says what a page that shows no editor may still have under way;  *)
(* StoredOK what a save has put on the server in each of its stages;       *)
(* KeptOK what of it is still in the grid; and SettledOK, for a page whose *)
(* requests never overlapped, that only one is under way and what the page *)
(* then knows of the server.                                               *)
(***************************************************************************)
EXTENDS ValuesEditor, SequenceTheorems, TLAPS

DataOK ==
  /\ server \in Rows /\ data \in Rows \union {None} /\ error \in BOOLEAN
  /\ page \in {"open", "reloading", "closed"} /\ mixed \in BOOLEAN
  /\ draft \in Texts \union {None}
  /\ loads \in [1..MaxLoads -> Loads \union {None}]
  /\ save \in Saves \union {None}
  /\ op \in [Cards -> Ops \union {None}]

\* What can be undone and what can be done again share the room of the history.
HistoryOK ==
  /\ edits \in Partial(Cells)
  /\ past \in Seq(Partial(Cells)) /\ future \in Seq(Partial(Cells))
  /\ Len(past) + Len(future) <= HistoryMax

\* An answer is a view, and a save goes to the driver values and to the rest.
AnswersOK ==
  /\ \A i \in 1..MaxLoads :
       loads[i] # None /\ loads[i].phase = "answered" => loads[i].answer \in Rows
  /\ \A c \in Cards : op[c] # None /\ op[c].phase = "answered" => op[c].answer \in Rows
  /\ save # None =>
       /\ save.phase = "answered" => save.answer \in Rows
       /\ DOMAIN save.drivers \subseteq Drivers
       /\ DOMAIN save.amounts \intersect Drivers = {}

PageOK ==
  /\ Mounted <=> draft # None
  /\ save # None /\ save.owner = "editor" => Mounted
  /\ page = "closed" =>
       /\ data = None /\ \A i \in 1..MaxLoads : loads[i] = None
       /\ save # None => save.owner = "none"
       /\ \A c \in Cards : op[c] # None => op[c].owner = "none"

\* The trial calculation under way is that of what is in the grid.
TrialOK ==
  trial # None =>
    /\ Mounted
    /\ trial = [phase |-> trial.phase, answer |-> trial.answer,
                payload |-> Payload(data, edits), waits |-> trial.waits]

Holds(num, cells) == \A c \in DOMAIN cells : num[c] = cells[c]
InEdits(cells) == \A c \in DOMAIN cells : c \in DOMAIN edits /\ edits[c] = cells[c]

StoredOK ==
  save # None =>
    /\ save.stage = "amount" \/ save.phase \in {"applied", "answered"}
         => Holds(server.num, save.drivers)
    /\ save.stage = "amount" /\ save.phase \in {"applied", "answered"}
         => Holds(server.num, save.amounts)

KeptOK ==
  save # None /\ save.owner = "editor" /\ ~save.touched =>
    /\ InEdits(save.amounts)
    /\ save.stage = "driver" => InEdits(save.drivers)

SameAs(v, s) == v.num = s.num /\ v.done = s.done /\ v.month = s.month
Same(v) == SameAs(v, server)
NoLoads == \A i \in 1..MaxLoads : loads[i] = None
NoOps == \A c \in Cards : op[c] = None
Known == Mounted => Same(data)

OneUnderWay ==
  /\ save # None => NoLoads /\ NoOps
  /\ \A i \in 1..MaxLoads : loads[i] # None =>
       NoOps /\ \A j \in 1..MaxLoads : j # i => loads[j] = None
  /\ \A c, d \in Cards : op[c] # None /\ op[d] # None => c = d

SaveKnown ==
  save # None =>
    /\ save.owner = "none" => page = "closed"
    /\ save.phase = "answered" => Same(save.answer)
    /\ save.stage = "driver" /\ save.phase \in {"sent", "refused"} => Known
LoadKnown ==
  \A i \in 1..MaxLoads :
    loads[i] # None /\ loads[i].phase = "answered" => Same(loads[i].answer)
OpKnown ==
  \A c \in Cards : op[c] # None =>
    /\ op[c].owner = "none" => page = "closed"
    /\ op[c].phase = "answered" => Same(op[c].answer)
    /\ op[c].phase \in {"sent", "refused"} => Known
    /\ Len(op[c].steps) = 2 => Known /\ (Mounted => ~server.done)

SettledOK ==
  ~mixed =>
    /\ OneUnderWay /\ SaveKnown /\ LoadKnown /\ OpKnown
    /\ save = None /\ NoLoads /\ NoOps => Known

Core == DataOK /\ HistoryOK /\ AnswersOK /\ PageOK /\ StoredOK /\ KeptOK /\ SettledOK
Inv == Core /\ TrialOK

-----------------------------------------------------------------------------
\* Cells that are entered, kept, or taken away are cells with what they hold.
LEMMA PartialIs ==
  ASSUME NEW S, NEW f
  PROVE  f \in Partial(S) <=> \E D \in SUBSET S : f \in [D -> Values]
  BY DEF Partial

LEMMA PartialMakes ==
  ASSUME NEW S, NEW D \in SUBSET S, NEW f \in [D -> Values]
  PROVE  f \in Partial(S)
  BY PartialIs

LEMMA OverPartial ==
  ASSUME NEW S, NEW f \in Partial(S), NEW g \in Partial(S)
  PROVE  Over(f, g) \in Partial(S)
<1>1. PICK D \in SUBSET S : f \in [D -> Values]
  BY PartialIs
<1>2. PICK E \in SUBSET S : g \in [E -> Values]
  BY PartialIs
<1>3. Over(f, g) \in [D \union E -> Values]
  BY <1>1, <1>2 DEF Over
<1>. QED  BY <1>3, PartialMakes

LEMMA OverTotal ==
  ASSUME NEW f \in Partial(Cells), NEW g \in [Cells -> Values]
  PROVE  /\ Over(f, g) \in [Cells -> Values]
         /\ \A c \in DOMAIN f : Over(f, g)[c] = f[c]
         /\ \A c \in Cells \ DOMAIN f : Over(f, g)[c] = g[c]
<1>1. PICK D \in SUBSET Cells : f \in [D -> Values]
  BY PartialIs
<1>. QED  BY <1>1 DEF Over

LEMMA RestrictPartial ==
  ASSUME NEW S, NEW f \in Partial(S), NEW D, D \subseteq DOMAIN f
  PROVE  /\ Restrict(f, D) \in Partial(S) /\ DOMAIN Restrict(f, D) = D
         /\ \A c \in D : Restrict(f, D)[c] = f[c]
<1>1. PICK E \in SUBSET S : f \in [E -> Values]
  BY PartialIs
<1>2. Restrict(f, D) \in [D -> Values] /\ D \in SUBSET S
  BY <1>1 DEF Restrict
<1>. QED  BY <1>2, PartialMakes DEF Restrict

LEMMA NoCells == ASSUME NEW S PROVE <<>> \in Partial(S) /\ DOMAIN <<>> = {}
<1>1. <<>> \in [{} -> Values]
  OBVIOUS
<1>. QED  BY <1>1, PartialMakes

LEMMA DomainOfPartial == ASSUME NEW S, NEW f \in Partial(S) PROVE DOMAIN f \subseteq S
  BY PartialIs

\* A request that goes on is a request.
LEMMA SaveGoesOn ==
  ASSUME NEW s \in Saves
  PROVE  /\ s # None
         /\ \A p \in Phases : [s EXCEPT !.phase = p] \in Saves
         /\ \A r \in Rows : [s EXCEPT !.phase = "answered", !.answer = r] \in Saves
         /\ [s EXCEPT !.stage = "amount", !.phase = "sent", !.answer = None] \in Saves
         /\ \A o \in Owners : [s EXCEPT !.owner = o] \in Saves
         /\ [s EXCEPT !.touched = TRUE] \in Saves
<1>1. s # None
  BY NoneAssumption
<1>2. \A p \in Phases : [s EXCEPT !.phase = p] \in Saves
  BY DEF Saves
<1>3. \A r \in Rows : [s EXCEPT !.phase = "answered", !.answer = r] \in Saves
  BY DEF Saves, Phases
<1>4. [s EXCEPT !.stage = "amount", !.phase = "sent", !.answer = None] \in Saves
  BY DEF Saves, Phases
<1>5. \A o \in Owners : [s EXCEPT !.owner = o] \in Saves
  BY DEF Saves
<1>6. [s EXCEPT !.touched = TRUE] \in Saves
  BY DEF Saves
<1>. QED  BY <1>1, <1>2, <1>3, <1>4, <1>5, <1>6

LEMMA OpGoesOn ==
  ASSUME NEW r \in Ops
  PROVE  /\ r # None
         /\ \A p \in Phases : [r EXCEPT !.phase = p] \in Ops
         /\ \A v \in Rows : [r EXCEPT !.phase = "answered", !.answer = v] \in Ops
         /\ \A o \in Owners : [r EXCEPT !.owner = o] \in Ops
<1>1. r # None
  BY NoneAssumption
<1>2. \A p \in Phases : [r EXCEPT !.phase = p] \in Ops
  BY DEF Ops
<1>3. \A v \in Rows : [r EXCEPT !.phase = "answered", !.answer = v] \in Ops
  BY DEF Ops, Phases
<1>4. \A o \in Owners : [r EXCEPT !.owner = o] \in Ops
  BY DEF Ops
<1>. QED  BY <1>1, <1>2, <1>3, <1>4

LEMMA LoadGoesOn ==
  ASSUME NEW r \in Loads
  PROVE  /\ r # None
         /\ \A p \in Phases : [r EXCEPT !.phase = p] \in Loads
         /\ \A v \in Rows : [r EXCEPT !.phase = "answered", !.answer = v] \in Loads
<1>1. r # None
  BY NoneAssumption
<1>2. \A p \in Phases : [r EXCEPT !.phase = p] \in Loads
  BY DEF Loads
<1>3. \A v \in Rows : [r EXCEPT !.phase = "answered", !.answer = v] \in Loads
  BY DEF Loads, Phases
<1>. QED  BY <1>1, <1>2, <1>3

LEMMA ReadingIs == Reading \in Loads /\ Reading # None
<1>1. Reading \in Loads
  BY DEF Reading, Loads, Phases
<1>. QED  BY <1>1, NoneAssumption

\* A step of the history takes room that another step gives back.
LEMMA HistoryTurns ==
  ASSUME NEW S, NEW p \in Seq(S), NEW f \in Seq(S), NEW e \in S, p # <<>>,
         NEW h, Len(p) + Len(f) <= h
  PROVE  LET q == SubSeq(p, 1, Len(p) - 1)
             g == Append(f, e)
         IN  /\ p[Len(p)] \in S /\ q \in Seq(S) /\ g \in Seq(S)
             /\ Len(q) + Len(g) <= h /\ Len(g) + Len(q) <= h
<1>. DEFINE q == SubSeq(p, 1, Len(p) - 1)
            g == Append(f, e)
<1>. DEFINE n == Len(p) - 1
<1>1. Len(p) \in Nat \ {0} /\ 1..Len(p) = DOMAIN p
  OBVIOUS
<1>2. p[Len(p)] \in S
  BY <1>1
<1>3. n \in Nat /\ \A i \in 1..n : p[i] \in S
  BY <1>1
<1>. HIDE DEF n
<1>4. /\ SubSeq(p, 1, n) \in Seq(S)
      /\ Len(SubSeq(p, 1, n)) = IF 1 <= n THEN n - 1 + 1 ELSE 0
  BY <1>3, SubSeqProperties, Z3
<1>5. q = SubSeq(p, 1, n)
  BY DEF n
<1>6. q \in Seq(S) /\ Len(q) = n
  BY <1>3, <1>4, <1>5
<1>7. g \in Seq(S) /\ Len(g) = Len(f) + 1 /\ Len(f) \in Nat
  OBVIOUS
<1>8. Len(q) = Len(p) - 1
  BY <1>6 DEF n
<1>. HIDE DEF q, g
<1>9. Len(q) + Len(g) <= h /\ Len(g) + Len(q) <= h
  <2>. DEFINE a == Len(p)  b == Len(q)  c == Len(f)  d == Len(g)
  <2>1. a \in Nat /\ c \in Nat /\ b = a - 1 /\ d = c + 1
    BY <1>1, <1>7, <1>8
  <2>. HIDE DEF a, b, c, d
  <2>2. b + d = a + c /\ d + b = a + c
    BY <2>1
  <2>. QED  BY <2>2 DEF a, b, c, d
<1>. QED  BY <1>2, <1>6, <1>7, <1>9 DEF q, g

-----------------------------------------------------------------------------
\* The grids: what is entered, undone and discarded is none of the requests'
\* business, except that a save which is under way is marked as touched.
LEMMA GridKeeps ==
  ASSUME Core, Touch, HistoryOK',
         UNCHANGED <<server, page, data, error, loads, draft, op, mixed>>
  PROVE  Core'
<1>1. save' = IF save = None THEN None ELSE [save EXCEPT !.touched = TRUE]
  BY DEF Touch
<1>2. save # None => save \in Saves
  BY DEF Core, DataOK
<1>3. save' \in Saves \union {None} /\ (save' = None <=> save = None)
  BY <1>1, <1>2, SaveGoesOn
<1>4. save # None =>
        /\ save'.phase = save.phase /\ save'.answer = save.answer /\ save'.owner = save.owner
        /\ save'.drivers = save.drivers /\ save'.amounts = save.amounts
        /\ save'.stage = save.stage /\ save'.touched
  BY <1>1, <1>2 DEF Saves
<1>. HIDE DEF Touch
<1>5. DataOK'
  BY <1>3 DEF Core, DataOK
<1>6. AnswersOK'
  BY <1>3, <1>4 DEF Core, AnswersOK
<1>7. PageOK'
  BY <1>3, <1>4 DEF Core, PageOK, Mounted
<1>8. StoredOK'
  BY <1>3, <1>4 DEF Core, StoredOK, Holds
<1>9. KeptOK'
  BY <1>3, <1>4 DEF KeptOK
<1>10. SettledOK'
  BY <1>3, <1>4 DEF Core, SettledOK, OneUnderWay, SaveKnown, LoadKnown, OpKnown, Known,
                    NoLoads, NoOps, Same, SameAs, Mounted
<1>. QED  BY <1>5, <1>6, <1>7, <1>8, <1>9, <1>10 DEF Core

LEMMA EnterKeeps == ASSUME Core, NEW e \in Partial(Cells), Enter(e) PROVE Core'
<1>1. /\ edits \in Partial(Cells) /\ past \in Seq(Partial(Cells))
      /\ Len(past) + Len(future) <= HistoryMax /\ HistoryMax \in Nat \ {0}
      /\ Len(past) \in Nat /\ Len(future) \in Nat
  BY BoundsAssumption DEF Core, HistoryOK
<1>2. edits' \in Partial(Cells)
  BY <1>1, OverPartial DEF Enter
<1>. DEFINE m == IF Len(past) < HistoryMax THEN 1 ELSE 2
            n == Len(past)
            kept == SubSeq(past, m, n)
<1>3. m \in {1, 2} /\ n \in Nat /\ (n = HistoryMax => m = 2) /\ (n < HistoryMax => m = 1)
  BY <1>1
<1>4. \A i \in m..n : past[i] \in Partial(Cells)
  BY <1>1, <1>3
<1>5. past' = Append(kept, edits) /\ future' = <<>>
  BY DEF Enter
<1>. HIDE DEF m, n
<1>6. kept \in Seq(Partial(Cells)) /\ Len(kept) = IF m <= n THEN n - m + 1 ELSE 0
  BY <1>3, <1>4, SubSeqProperties, Z3
<1>. HIDE DEF kept
<1>7. Len(kept) + 1 <= HistoryMax
  BY <1>1, <1>3, <1>6 DEF n
<1>8. HistoryOK'
  BY <1>1, <1>2, <1>5, <1>6, <1>7 DEF HistoryOK
<1>. QED  BY <1>8, GridKeeps DEF Enter, KeepRest

LEMMA MarkKeeps == ASSUME Core, NEW c \in Cells, NEW x \in Values, Mark(c, x) PROVE Core'
<1>1. [d \in {c} |-> x] \in Partial(Cells)
  <2>1. [d \in {c} |-> x] \in [{c} -> Values] /\ {c} \in SUBSET Cells
    OBVIOUS
  <2>. QED  BY <2>1, PartialMakes
<1>2. edits' \in Partial(Cells)
  BY <1>1, OverPartial DEF Mark, Core, HistoryOK
<1>3. HistoryOK'
  BY <1>2 DEF Mark, Core, HistoryOK
<1>. QED  BY <1>3, GridKeeps DEF Mark, KeepRest

LEMMA UndoKeeps == ASSUME Core, Undo PROVE Core'
<1>. DEFINE P == Partial(Cells)
<1>1. /\ edits \in P /\ past \in Seq(P) /\ future \in Seq(P) /\ past # <<>>
      /\ Len(past) + Len(future) <= HistoryMax /\ HistoryMax \in Nat
  BY BoundsAssumption DEF Core, HistoryOK, Undo
<1>2. /\ edits' = past[Len(past)] /\ past' = SubSeq(past, 1, Len(past) - 1)
      /\ future' = Append(future, edits)
  BY DEF Undo
<1>. HIDE DEF P
<1>3. edits' \in P
  BY <1>1, <1>2, HistoryTurns, Zenon
<1>4. past' \in Seq(P)
  BY <1>1, <1>2, HistoryTurns, Zenon
<1>5. future' \in Seq(P)
  BY <1>1, <1>2, HistoryTurns, Zenon
<1>6. Len(past') + Len(future') <= HistoryMax
  <2>. DEFINE q == SubSeq(past, 1, Len(past) - 1)
              g == Append(future, edits)
  <2>1. Len(q) + Len(g) <= HistoryMax
    BY <1>1, HistoryTurns, Zenon
  <2>2. past' = q /\ future' = g
    BY <1>2
  <2>. HIDE DEF q, g
  <2>. QED  BY <2>1, <2>2
<1>7. HistoryOK'
  BY <1>1, <1>3, <1>4, <1>5, <1>6 DEF P, HistoryOK
<1>. QED  BY <1>7, GridKeeps DEF Undo, KeepRest

LEMMA RedoKeeps == ASSUME Core, Redo PROVE Core'
<1>. DEFINE P == Partial(Cells)
<1>1. /\ edits \in P /\ past \in Seq(P) /\ future \in Seq(P) /\ future # <<>>
      /\ Len(future) + Len(past) <= HistoryMax /\ HistoryMax \in Nat
  BY BoundsAssumption DEF Core, HistoryOK, Redo
<1>2. /\ edits' = future[Len(future)] /\ future' = SubSeq(future, 1, Len(future) - 1)
      /\ past' = Append(past, edits)
  BY DEF Redo
<1>. HIDE DEF P
<1>3. edits' \in P
  BY <1>1, <1>2, HistoryTurns, Zenon
<1>4. past' \in Seq(P)
  BY <1>1, <1>2, HistoryTurns, Zenon
<1>5. future' \in Seq(P)
  BY <1>1, <1>2, HistoryTurns, Zenon
<1>6. Len(past') + Len(future') <= HistoryMax
  <2>. DEFINE q == SubSeq(future, 1, Len(future) - 1)
              g == Append(past, edits)
  <2>1. Len(g) + Len(q) <= HistoryMax
    BY <1>1, HistoryTurns, Zenon
  <2>2. future' = q /\ past' = g
    BY <1>2
  <2>. HIDE DEF q, g
  <2>. QED  BY <2>1, <2>2
<1>7. HistoryOK'
  BY <1>1, <1>3, <1>4, <1>5, <1>6 DEF P, HistoryOK
<1>. QED  BY <1>7, GridKeeps DEF Redo, KeepRest

LEMMA NoHistory ==
  ASSUME edits' = <<>>, past' = <<>>, future' = <<>>
  PROVE  HistoryOK'
  BY NoCells, BoundsAssumption DEF HistoryOK

LEMMA DiscardKeeps == ASSUME Core, Discard PROVE Core'
<1>1. HistoryOK' /\ Touch
  BY NoHistory DEF Discard, Touch
<1>. QED  BY <1>1, GridKeeps DEF Discard, KeepRest

-----------------------------------------------------------------------------
\* A request that is sent while another is under way is noted as mixed.
LEMMA SentAlone ==
  ASSUME DataOK, Overlaps, ~mixed'
  PROVE  ~mixed /\ save = None /\ NoLoads /\ NoOps
<1>1. ~mixed /\ UnderWay = {}
  BY DEF DataOK, Overlaps
<1>2. save = None
  BY <1>1 DEF UnderWay
<1>3. \A i \in 1..MaxLoads : loads[i] = None
  <2>1. ASSUME NEW i \in 1..MaxLoads PROVE loads[i] \in Range(loads)
    BY DEF DataOK, Range
  <2>. QED  BY <1>1, <2>1 DEF UnderWay
<1>4. \A c \in Cards : op[c] = None
  <2>1. ASSUME NEW c \in Cards PROVE op[c] \in Range(op)
    BY DEF DataOK, Range
  <2>. QED  BY <1>1, <2>1 DEF UnderWay
<1>. QED  BY <1>1, <1>2, <1>3, <1>4 DEF NoLoads, NoOps

\* save: what is sent are the changed cells as they are in the grid.
LEMMA StartSaveKeeps == ASSUME Core, StartSave PROVE Core'
<1>. DEFINE changed == Changed(data, edits)
            drivers == Restrict(edits, changed \intersect Drivers)
            amounts == Restrict(edits, changed \ Drivers)
            stage == IF drivers = <<>> THEN "amount" ELSE "driver"
<1>1. changed \subseteq DOMAIN edits /\ edits \in Partial(Cells)
  BY DEF Changed, Core, HistoryOK
<1>2. changed \intersect Drivers \subseteq DOMAIN edits /\ changed \ Drivers \subseteq DOMAIN edits
  BY <1>1
<1>3. /\ drivers \in Partial(Cells) /\ DOMAIN drivers = changed \intersect Drivers
      /\ amounts \in Partial(Cells) /\ DOMAIN amounts = changed \ Drivers
  BY <1>1, <1>2, RestrictPartial
<1>4. /\ \A c \in DOMAIN drivers : drivers[c] = edits[c]
      /\ \A c \in DOMAIN amounts : amounts[c] = edits[c]
  BY DEF Restrict
<1>5. stage \in {"driver", "amount"} /\ (stage = "amount" => DOMAIN drivers = {})
  BY NoCells
<1>6. save = None /\ Mounted /\ save' = Saving(drivers, amounts, stage)
  BY DEF StartSave, Editable
<1>7. Overlaps /\ UNCHANGED <<server, client, loads, op>>
  BY DEF StartSave
<1>. HIDE DEF changed, drivers, amounts, stage
<1>8. save' \in Saves /\ save' # None
  <2>1. save' \in Saves
    BY <1>3, <1>5, <1>6 DEF Saving, Saves, Phases, Owners
  <2>. QED  BY <2>1, NoneAssumption
<1>9. /\ save'.phase = "sent" /\ save'.owner = "editor" /\ ~save'.touched
      /\ save'.drivers = drivers /\ save'.amounts = amounts /\ save'.stage = stage
  BY <1>6 DEF Saving
<1>10. DataOK'
  BY <1>7, <1>8 DEF Core, DataOK, client, Overlaps
<1>11. HistoryOK'
  BY <1>7 DEF Core, HistoryOK, client
<1>12. AnswersOK'
  BY <1>3, <1>7, <1>8, <1>9 DEF Core, AnswersOK
<1>13. PageOK'
  BY <1>6, <1>7, <1>8, <1>9 DEF Core, PageOK, Mounted, client
<1>14. StoredOK'
  BY <1>5, <1>7, <1>8, <1>9 DEF StoredOK, Holds
<1>15. KeptOK'
  BY <1>1, <1>3, <1>4, <1>7, <1>8, <1>9 DEF KeptOK, InEdits, client
<1>16. SettledOK'
  <2>. SUFFICES ASSUME ~mixed' PROVE SettledOK'
    BY DEF SettledOK
  <2>1. ~mixed /\ NoLoads /\ NoOps
    BY <1>7, SentAlone DEF Core
  <2>2. Known
    BY <2>1, <1>6 DEF Core, SettledOK
  <2>. QED
    BY <2>1, <2>2, <1>6, <1>7, <1>8, <1>9
       DEF SettledOK, OneUnderWay, SaveKnown, LoadKnown, OpKnown, Known, NoLoads, NoOps, Same, SameAs,
           Mounted, client
<1>. QED  BY <1>10, <1>11, <1>12, <1>13, <1>14, <1>15, <1>16 DEF Core

\* The explanation that is being written belongs to nobody yet.
LEMMA WriteKeeps == ASSUME Core, NEW t \in Texts, Write(t) PROVE Core'
<1>1. Mounted /\ draft' = t /\ t # None
  BY NoneAssumption DEF Write, Editable
<1>2. UNCHANGED <<server, page, data, error, loads, edits, past, future, save, op, mixed>>
  BY DEF Write
<1>3. DataOK' /\ HistoryOK' /\ AnswersOK'
  BY <1>1, <1>2 DEF Core, DataOK, HistoryOK, AnswersOK
<1>4. PageOK'
  BY <1>1, <1>2 DEF Core, PageOK, Mounted
<1>5. StoredOK' /\ KeptOK'
  BY <1>2 DEF Core, StoredOK, KeptOK, Holds, InEdits
<1>6. SettledOK'
  BY <1>2 DEF Core, SettledOK, OneUnderWay, SaveKnown, LoadKnown, OpKnown, Known, NoLoads,
              NoOps, Same, SameAs, Mounted
<1>. QED  BY <1>3, <1>4, <1>5, <1>6 DEF Core

\* The cards: two requests in a row are sent only for what is not completed.
LEMMA RequestKeeps ==
  ASSUME Core, NEW card \in Cards, NEW steps \in StepLists, NEW arg \in Texts,
         Request(card, steps, arg), Len(steps) = 2 => ~data.done
  PROVE  Core'
<1>. DEFINE r == [phase |-> "sent", answer |-> None, owner |-> "editor",
                  steps |-> steps, arg |-> arg]
<1>1. r \in Ops /\ r # None
  <2>1. r \in Ops
    BY DEF Ops, Phases, Owners
  <2>. QED  BY <2>1, NoneAssumption
<1>2. r.phase = "sent" /\ r.owner = "editor" /\ r.steps = steps
  OBVIOUS
<1>3. Mounted /\ op[card] = None /\ op' = [op EXCEPT ![card] = r]
  BY DEF Request, Editable
<1>4. Overlaps /\ UNCHANGED <<server, client, loads, save>>
  BY DEF Request
<1>. HIDE DEF r
<1>5. /\ op' \in [Cards -> Ops \union {None}] /\ op'[card] = r
      /\ \A c \in Cards \ {card} : op'[c] = op[c]
  BY <1>1, <1>3 DEF Core, DataOK
<1>6. DataOK' /\ HistoryOK'
  BY <1>4, <1>5 DEF Core, DataOK, HistoryOK, client, Overlaps
<1>7. AnswersOK'
  BY <1>2, <1>4, <1>5 DEF Core, AnswersOK
<1>8. PageOK'
  BY <1>3, <1>4, <1>5 DEF Core, PageOK, Mounted, client
<1>9. StoredOK' /\ KeptOK'
  BY <1>4 DEF Core, StoredOK, KeptOK, Holds, InEdits, client
<1>10. SettledOK'
  <2>. SUFFICES ASSUME ~mixed' PROVE SettledOK'
    BY DEF SettledOK
  <2>1. ~mixed /\ save = None /\ NoLoads /\ NoOps
    BY <1>4, SentAlone DEF Core
  <2>2. Known
    BY <2>1 DEF Core, SettledOK
  <2>3. \A c \in Cards \ {card} : op'[c] = None
    BY <2>1, <1>5 DEF NoOps
  <2>4. (Len(r.steps) = 2 => Known /\ (Mounted => ~server.done))'
    BY <2>2, <1>2, <1>3, <1>4 DEF Known, Same, SameAs, Mounted, client
  <2>5. Known'
    BY <2>2, <1>4 DEF Known, Same, SameAs, Mounted, client
  <2>6. OneUnderWay' /\ SaveKnown' /\ LoadKnown'
    BY <2>1, <2>3, <1>4 DEF OneUnderWay, SaveKnown, LoadKnown, NoLoads, NoOps
  <2>7. OpKnown'
    BY <2>3, <2>4, <2>5, <1>2, <1>5 DEF OpKnown
  <2>. QED  BY <2>5, <2>6, <2>7 DEF SettledOK
<1>. QED  BY <1>6, <1>7, <1>8, <1>9, <1>10 DEF Core

LEMMA CardsKeep ==
  ASSUME Core, SaveNote \/ Complete \/ Uncomplete \/ \E t \in Texts : ChangeMonth(t)
  PROVE  Core'
<1>1. Mounted => draft \in Texts
  BY DEF Core, DataOK, PageOK
<1>2. CASE SaveNote
  <2>1. Mounted /\ Request("note", <<"note">>, draft) /\ <<"note">> \in StepLists
    BY <1>2 DEF SaveNote, Editable, StepLists
  <2>. QED  BY <1>1, <2>1, RequestKeeps DEF Cards
<1>3. CASE Complete
  <2>1. Mounted /\ ~data.done
    BY <1>3 DEF Complete, Editable
  <2>2. CASE NoteChanged
    <3>1. Request("note", <<"note", "complete">>, draft) /\ <<"note", "complete">> \in StepLists
      BY <1>3, <2>2 DEF Complete, StepLists
    <3>. QED  BY <1>1, <2>1, <3>1, RequestKeeps DEF Cards
  <2>3. CASE ~NoteChanged
    <3>1. Request("note", <<"complete">>, draft) /\ <<"complete">> \in StepLists
      BY <1>3, <2>3 DEF Complete, StepLists
    <3>. QED  BY <1>1, <2>1, <3>1, RequestKeeps DEF Cards
  <2>. QED  BY <2>2, <2>3
<1>4. CASE Uncomplete
  <2>1. Mounted /\ Request("note", <<"uncomplete">>, draft) /\ <<"uncomplete">> \in StepLists
    BY <1>4 DEF Uncomplete, Editable, StepLists
  <2>. QED  BY <1>1, <2>1, RequestKeeps DEF Cards
<1>5. ASSUME NEW t \in Texts, ChangeMonth(t) PROVE Core'
  <2>1. Request("wip", <<"month">>, t) /\ <<"month">> \in StepLists
    BY <1>5 DEF ChangeMonth, StepLists
  <2>. QED  BY <2>1, RequestKeeps DEF Cards
<1>. QED  BY <1>2, <1>3, <1>4, <1>5

-----------------------------------------------------------------------------
\* A view that arrives brings the editor back, or keeps it.
LEMMA ViewArrives ==
  ASSUME NEW v \in Rows, SetData(v), page # "closed", UNCHANGED page
  PROVE  Mounted' /\ data' \in Rows /\ error' = FALSE /\ draft' \in Texts /\ draft' # None
  BY NoneAssumption DEF SetData, Mounted, Rows

\* Requests whose component is gone go on as they are.
LEMMA OrphanKeeps ==
  ASSUME DataOK, NEW o \in Owners, Orphan(o)
  PROVE  /\ save' \in Saves \union {None} /\ (save' = None <=> save = None)
         /\ save # None =>
              /\ save'.phase = save.phase /\ save'.answer = save.answer /\ save'.owner = o
              /\ save'.drivers = save.drivers /\ save'.amounts = save.amounts
              /\ save'.stage = save.stage
         /\ op' \in [Cards -> Ops \union {None}]
         /\ \A c \in Cards :
              /\ op'[c] = None <=> op[c] = None
              /\ op[c] # None =>
                   /\ op'[c].phase = op[c].phase /\ op'[c].answer = op[c].answer
                   /\ op'[c].owner = o /\ op'[c].steps = op[c].steps
<1>1. save # None => save \in Saves
  BY DEF DataOK
<1>2. save' = IF save = None THEN None ELSE [save EXCEPT !.owner = o]
  BY DEF Orphan
<1>3. save' \in Saves \union {None} /\ (save' = None <=> save = None)
  BY <1>1, <1>2, SaveGoesOn
<1>4. save # None =>
        /\ save'.phase = save.phase /\ save'.answer = save.answer /\ save'.owner = o
        /\ save'.drivers = save.drivers /\ save'.amounts = save.amounts
        /\ save'.stage = save.stage
  BY <1>1, <1>2 DEF Saves
<1>5. op' = [c \in Cards |-> IF op[c] = None THEN None ELSE [op[c] EXCEPT !.owner = o]]
  BY DEF Orphan
<1>6. ASSUME NEW c \in Cards
      PROVE  /\ op'[c] \in Ops \union {None} /\ (op'[c] = None <=> op[c] = None)
             /\ op[c] # None =>
                  /\ op'[c].phase = op[c].phase /\ op'[c].answer = op[c].answer
                  /\ op'[c].owner = o /\ op'[c].steps = op[c].steps
  <2>1. op[c] # None => op[c] \in Ops
    BY DEF DataOK
  <2>2. op'[c] = IF op[c] = None THEN None ELSE [op[c] EXCEPT !.owner = o]
    BY <1>5
  <2>3. op'[c] \in Ops \union {None} /\ (op'[c] = None <=> op[c] = None)
    BY <2>1, <2>2, OpGoesOn
  <2>. QED  BY <2>1, <2>2, <2>3 DEF Ops
<1>7. op' \in [Cards -> Ops \union {None}]
  BY <1>5, <1>6
<1>. QED  BY <1>3, <1>4, <1>6, <1>7

\* An editor that goes away leaves no editor and nothing known to check.
LEMMA EditorGoes ==
  ASSUME Core, ClearEditor, NEW o \in {"panel", "none"}, Orphan(o), ~Mounted',
         data' \in Rows \union {None}, error' \in BOOLEAN, page' \in {page, "closed"},
         o = "none" <=> page' = "closed", page' = "closed" => data' = None,
         loads' \in [1..MaxLoads -> Loads \union {None}],
         \A i \in 1..MaxLoads : loads'[i] \in {None, loads[i]},
         page' = "closed" => \A i \in 1..MaxLoads : loads'[i] = None,
         UNCHANGED <<server, mixed>>
  PROVE  Core'
<1>1. o \in Owners /\ DataOK
  BY DEF Core, Owners
<1>. DEFINE S == /\ save' \in Saves \union {None} /\ (save' = None <=> save = None)
                 /\ save # None =>
                      /\ save'.phase = save.phase /\ save'.answer = save.answer /\ save'.owner = o
                      /\ save'.drivers = save.drivers /\ save'.amounts = save.amounts
                      /\ save'.stage = save.stage
            C == /\ op' \in [Cards -> Ops \union {None}]
                 /\ \A c \in Cards :
                      /\ op'[c] = None <=> op[c] = None
                      /\ op[c] # None =>
                           /\ op'[c].phase = op[c].phase /\ op'[c].answer = op[c].answer
                           /\ op'[c].owner = o /\ op'[c].steps = op[c].steps
<1>2. S
  BY <1>1, OrphanKeeps
<1>3. C
  BY <1>1, OrphanKeeps
<1>4. draft' = None /\ HistoryOK'
  BY NoHistory DEF ClearEditor
<1>5. DataOK'
  BY <1>2, <1>3, <1>4 DEF Core, DataOK
<1>6. AnswersOK'
  BY <1>2, <1>3 DEF Core, AnswersOK
<1>7. PageOK'
  BY <1>2, <1>3, <1>4 DEF PageOK
<1>8. StoredOK' /\ KeptOK'
  BY <1>2 DEF Core, StoredOK, KeptOK, Holds
<1>9. SettledOK'
  <2>. SUFFICES ASSUME ~mixed' PROVE SettledOK'
    BY DEF SettledOK
  <2>1. OneUnderWay /\ SaveKnown /\ LoadKnown /\ OpKnown
    BY DEF Core, SettledOK
  <2>2. OneUnderWay'
    BY <2>1, <1>2, <1>3 DEF OneUnderWay, NoLoads, NoOps
  <2>3. Known'
    BY DEF Known
  <2>4. SaveKnown'
    BY <2>1, <2>3, <1>2 DEF SaveKnown, Same, SameAs
  <2>5. LoadKnown'
    BY <2>1 DEF LoadKnown, Same, SameAs
  <2>6. OpKnown'
    BY <2>1, <2>3, <1>3 DEF OpKnown, Same, SameAs
  <2>. QED  BY <2>2, <2>3, <2>4, <2>5, <2>6 DEF SettledOK
<1>. QED  BY <1>4, <1>5, <1>6, <1>7, <1>8, <1>9 DEF Core

LEMMA ClosePageKeeps == ASSUME Core, ClosePage PROVE Core'
<1>1. /\ page' = "closed" /\ data' = None /\ error' = FALSE /\ ClearEditor /\ Orphan("none")
      /\ loads' = [i \in 1..MaxLoads |-> None] /\ UNCHANGED <<server, mixed>>
  BY DEF ClosePage
<1>2. ~Mounted'
  BY <1>1 DEF Mounted
<1>. QED  BY <1>1, <1>2, EditorGoes

LEMMA LoadFailsKeeps == ASSUME Core, NEW i \in 1..MaxLoads, LoadFails(i) PROVE Core'
<1>1. /\ loads[i] # None /\ error' = TRUE /\ ClearEditor /\ Orphan("panel")
      /\ loads' = [loads EXCEPT ![i] = None] /\ UNCHANGED <<server, page, data, mixed>>
  BY DEF LoadFails
<1>2. ~Mounted'
  BY <1>1 DEF Mounted
<1>3. page # "closed" /\ data \in Rows \union {None}
  BY <1>1 DEF Core, PageOK, DataOK
<1>4. /\ loads' \in [1..MaxLoads -> Loads \union {None}]
      /\ \A j \in 1..MaxLoads : loads'[j] \in {None, loads[j]}
  BY <1>1 DEF Core, DataOK
<1>. QED  BY <1>1, <1>2, <1>3, <1>4, EditorGoes

\* A reading that is started finds the editor as it was.
LEMMA ReadKeeps ==
  ASSUME Core, NEW i \in 1..MaxLoads, loads[i] = None,
         loads' = [loads EXCEPT ![i] = Reading], Overlaps, page' \in {"open", "reloading"},
         UNCHANGED <<server, data, error, edits, past, future, save, draft, op>>
  PROVE  Core'
<1>1. /\ loads' \in [1..MaxLoads -> Loads \union {None}]
      /\ loads'[i] # None /\ loads'[i].phase = "sent"
      /\ \A j \in 1..MaxLoads : j # i => loads'[j] = loads[j]
  BY ReadingIs DEF Core, DataOK, Reading
<1>2. Mounted' = Mounted
  BY DEF Core, PageOK, Mounted
<1>3. DataOK' /\ HistoryOK'
  BY <1>1 DEF Core, DataOK, HistoryOK, Overlaps
<1>4. AnswersOK'
  BY <1>1 DEF Core, AnswersOK
<1>5. PageOK'
  BY <1>2 DEF Core, PageOK
<1>6. StoredOK' /\ KeptOK'
  BY DEF Core, StoredOK, KeptOK, Holds, InEdits
<1>7. SettledOK'
  <2>. SUFFICES ASSUME ~mixed' PROVE SettledOK'
    BY DEF SettledOK
  <2>1. ~mixed /\ save = None /\ NoLoads /\ NoOps
    BY SentAlone DEF Core
  <2>. QED
    BY <2>1, <1>1 DEF SettledOK, OneUnderWay, SaveKnown, LoadKnown, OpKnown, NoLoads, NoOps
<1>. QED  BY <1>3, <1>4, <1>5, <1>6, <1>7 DEF Core

LEMMA ReadersKeep == ASSUME Core, MoveDriver \/ ActivityArrives \/ OpenPage PROVE Core'
<1>1. CASE MoveDriver
  <2>1. PICK i \in FreeSlots : StartLoad(i)
    BY <1>1 DEF MoveDriver
  <2>2. page' \in {"open", "reloading"}
    BY <1>1 DEF MoveDriver, Mounted, client, Core, DataOK
  <2>. QED  BY <1>1, <2>1, <2>2, ReadKeeps DEF MoveDriver, client, FreeSlots, StartLoad
<1>2. CASE ActivityArrives
  <2>1. PICK i \in FreeSlots : StartLoad(i)
    BY <1>2 DEF ActivityArrives
  <2>. QED  BY <1>2, <2>1, ReadKeeps DEF ActivityArrives, FreeSlots, StartLoad
<1>3. CASE OpenPage
  <2>1. 1 \in 1..MaxLoads
    BY BoundsAssumption
  <2>2. loads[1] = None
    BY <1>3, <2>1 DEF OpenPage, Core, PageOK
  <2>. QED  BY <1>3, <2>1, <2>2, ReadKeeps DEF OpenPage
<1>. QED  BY <1>1, <1>2, <1>3

LEMMA ChangeActivityKeeps == ASSUME Core, ChangeActivity PROVE Core'
<1>1. /\ page = "open" /\ page' = "reloading"
      /\ UNCHANGED <<server, data, error, loads, edits, past, future, save, draft, op, mixed>>
  BY DEF ChangeActivity
<1>2. Mounted' = Mounted
  BY <1>1 DEF Mounted
<1>3. DataOK' /\ HistoryOK' /\ AnswersOK' /\ StoredOK' /\ KeptOK'
  BY <1>1 DEF Core, DataOK, HistoryOK, AnswersOK, StoredOK, KeptOK, Holds, InEdits
<1>4. PageOK'
  BY <1>1, <1>2 DEF Core, PageOK
<1>5. SettledOK'
  BY <1>1, <1>2 DEF Core, SettledOK, OneUnderWay, SaveKnown, LoadKnown, OpKnown, Known,
                    NoLoads, NoOps, Same, SameAs
<1>. QED  BY <1>3, <1>4, <1>5 DEF Core

LEMMA ServeLoadKeeps == ASSUME Core, NEW i \in 1..MaxLoads, ServeLoad(i) PROVE Core'
<1>1. /\ loads[i] # None /\ loads[i] \in Loads
      /\ UNCHANGED <<server, client, save, op, mixed>>
  BY DEF ServeLoad, Core, DataOK
<1>2. /\ loads' \in [1..MaxLoads -> Loads \union {None}] /\ loads'[i] # None
      /\ loads'[i].phase = "answered" => loads'[i].answer = server
      /\ \A j \in 1..MaxLoads : j # i => loads'[j] = loads[j]
  <2>1. server \in Rows /\ "refused" \in Phases
    BY DEF Core, DataOK, Phases
  <2>2. CASE loads' = [loads EXCEPT ![i].phase = "answered", ![i].answer = server]
    <3>1. loads' = [loads EXCEPT ![i] = [loads[i] EXCEPT !.phase = "answered", !.answer = server]]
      BY <2>2
    <3>2. [loads[i] EXCEPT !.phase = "answered", !.answer = server] \in Loads
      BY <1>1, <2>1, LoadGoesOn
    <3>3. loads'[i] = [loads[i] EXCEPT !.phase = "answered", !.answer = server]
      BY <3>1 DEF Core, DataOK
    <3>4. loads'[i] # None /\ loads'[i].answer = server
      BY <1>1, <3>2, <3>3, LoadGoesOn DEF Loads
    <3>. QED  BY <3>1, <3>2, <3>4 DEF Core, DataOK
  <2>3. CASE loads' = [loads EXCEPT ![i].phase = "refused"]
    <3>1. loads' = [loads EXCEPT ![i] = [loads[i] EXCEPT !.phase = "refused"]]
      BY <2>3
    <3>2. [loads[i] EXCEPT !.phase = "refused"] \in Loads
      BY <1>1, <2>1, LoadGoesOn
    <3>3. loads'[i] = [loads[i] EXCEPT !.phase = "refused"]
      BY <3>1 DEF Core, DataOK
    <3>4. loads'[i] # None /\ loads'[i].phase = "refused"
      BY <1>1, <3>2, <3>3, LoadGoesOn DEF Loads
    <3>. QED  BY <3>1, <3>2, <3>4 DEF Core, DataOK
  <2>. QED  BY <2>2, <2>3 DEF ServeLoad
<1>3. DataOK' /\ HistoryOK'
  BY <1>1, <1>2 DEF Core, DataOK, HistoryOK, client
<1>4. AnswersOK'
  BY <1>1, <1>2 DEF Core, DataOK, AnswersOK
<1>5. PageOK'
  BY <1>1, <1>2 DEF Core, PageOK, Mounted, client
<1>6. StoredOK' /\ KeptOK'
  BY <1>1 DEF Core, StoredOK, KeptOK, Holds, InEdits, client
<1>7. SettledOK'
  <2>. SUFFICES ASSUME ~mixed' PROVE SettledOK'
    BY DEF SettledOK
  <2>1. OneUnderWay /\ LoadKnown /\ ~NoLoads /\ ~NoLoads'
    BY <1>1, <1>2 DEF Core, SettledOK, NoLoads
  <2>2. save = None /\ NoOps /\ \A j \in 1..MaxLoads : j # i => loads[j] = None
    BY <2>1, <1>1 DEF OneUnderWay, NoLoads
  <2>3. OneUnderWay' /\ SaveKnown' /\ OpKnown'
    BY <2>2, <1>1, <1>2 DEF OneUnderWay, SaveKnown, OpKnown, NoOps, NoLoads
  <2>4. LoadKnown'
    BY <2>2, <1>1, <1>2 DEF LoadKnown, Same, SameAs
  <2>. QED  BY <2>1, <2>3, <2>4 DEF SettledOK
<1>. QED  BY <1>3, <1>4, <1>5, <1>6, <1>7 DEF Core

LEMMA LoadArrivesKeeps == ASSUME Core, NEW i \in 1..MaxLoads, LoadArrives(i) PROVE Core'
<1>1. /\ loads[i] # None /\ loads[i].phase = "answered" /\ SetData(loads[i].answer)
      /\ loads' = [loads EXCEPT ![i] = None]
      /\ UNCHANGED <<server, page, edits, past, future, save, op, mixed>>
  BY DEF LoadArrives
<1>2. page # "closed" /\ loads[i].answer \in Rows
  BY <1>1 DEF Core, PageOK, AnswersOK
<1>3. Mounted' /\ data' \in Rows /\ error' = FALSE /\ draft' \in Texts /\ draft' # None
  BY <1>1, <1>2, ViewArrives
<1>4. /\ loads' \in [1..MaxLoads -> Loads \union {None}] /\ loads'[i] = None
      /\ \A j \in 1..MaxLoads : j # i => loads'[j] = loads[j]
  BY <1>1 DEF Core, DataOK
<1>5. DataOK' /\ HistoryOK'
  BY <1>1, <1>3, <1>4 DEF Core, DataOK, HistoryOK
<1>6. AnswersOK'
  BY <1>1, <1>4 DEF Core, AnswersOK
<1>7. PageOK'
  BY <1>1, <1>2, <1>3 DEF PageOK
<1>8. StoredOK' /\ KeptOK'
  BY <1>1 DEF Core, StoredOK, KeptOK, Holds, InEdits
<1>9. SettledOK'
  <2>. SUFFICES ASSUME ~mixed' PROVE SettledOK'
    BY DEF SettledOK
  <2>1. OneUnderWay /\ LoadKnown
    BY <1>1 DEF Core, SettledOK
  <2>2. save = None /\ NoOps /\ \A j \in 1..MaxLoads : j # i => loads[j] = None
    BY <2>1, <1>1 DEF OneUnderWay, NoLoads
  <2>3. Same(data)'
    BY <2>1, <1>1 DEF LoadKnown, Same, SameAs, SetData
  <2>. QED
    BY <2>2, <2>3, <1>1, <1>4 DEF SettledOK, OneUnderWay, SaveKnown, LoadKnown, OpKnown, Known,
                                  NoLoads, NoOps
<1>. QED  BY <1>5, <1>6, <1>7, <1>8, <1>9 DEF Core

\* A lock touches nothing that anybody compares.
LEMMA LockKeeps == ASSUME Core, LockVersion PROVE Core'
<1>1. server \in Rows /\ server' = [server EXCEPT !.locked = TRUE]
  BY DEF LockVersion, Core, DataOK
<1>2. /\ server' \in Rows /\ server'.num = server.num /\ server'.done = server.done
      /\ server'.month = server.month
  BY <1>1 DEF Rows
<1>3. UNCHANGED <<client, loads, trial, save, op, mixed>>
  BY DEF LockVersion
<1>4. DataOK' /\ HistoryOK' /\ AnswersOK'
  BY <1>2, <1>3 DEF Core, DataOK, HistoryOK, AnswersOK, client
<1>5. PageOK'
  BY <1>3 DEF Core, PageOK, Mounted, client
<1>6. StoredOK' /\ KeptOK'
  BY <1>2, <1>3 DEF Core, StoredOK, KeptOK, Holds, InEdits, client
<1>7. SettledOK'
  BY <1>2, <1>3 DEF Core, SettledOK, OneUnderWay, SaveKnown, LoadKnown, OpKnown, Known,
                    NoLoads, NoOps, Same, SameAs, Mounted, client
<1>. QED  BY <1>4, <1>5, <1>6, <1>7 DEF Core

-----------------------------------------------------------------------------
\* The save under way, alone if nothing was mixed.
LEMMA SaveAlone ==
  ASSUME Core, save # None, ~mixed
  PROVE  NoLoads /\ NoOps /\ SaveKnown
  BY DEF Core, SettledOK, OneUnderWay

\* A save that goes on, with nothing else of it changed than its phase.
LEMMA SaveMoves ==
  ASSUME Core, save # None, NEW p \in Phases, save' = [save EXCEPT !.phase = p]
  PROVE  /\ save' \in Saves /\ save' # None /\ save'.phase = p
         /\ save'.answer = save.answer /\ save'.owner = save.owner
         /\ save'.drivers = save.drivers /\ save'.amounts = save.amounts
         /\ save'.stage = save.stage /\ save'.touched = save.touched
<1>1. save \in Saves
  BY DEF Core, DataOK
<1>2. save' \in Saves /\ save' # None
  BY <1>1, SaveGoesOn
<1>. QED  BY <1>1, <1>2 DEF Saves

\* putDriverValues and putAmounts: the second leaves what the first stored.
LEMMA ServeSaveKeeps == ASSUME Core, ServeSave PROVE Core'
<1>1. /\ save # None /\ save \in Saves /\ save.phase = "sent" /\ server \in Rows
      /\ UNCHANGED <<client, loads, op, mixed>>
  BY DEF ServeSave, Core, DataOK
<1>. DEFINE cells == IF save.stage = "driver" THEN save.drivers ELSE save.amounts
<1>2. CASE /\ server' = [server EXCEPT !.done = FALSE, !.num = Over(cells, @)]
           /\ save' = [save EXCEPT !.phase = "applied"]
  <2>1. cells \in Partial(Cells) /\ server.num \in [Cells -> Values] /\ "applied" \in Phases
    BY <1>1 DEF Saves, Rows, Phases
  <2>2. /\ server' \in Rows /\ server'.num = Over(cells, server.num)
        /\ server'.num \in [Cells -> Values]
    BY <1>1, <1>2, <2>1, OverTotal DEF Rows
  <2>3. Holds(server'.num, cells)
    BY <2>1, <2>2, OverTotal DEF Holds
  <2>4. \A c \in Cells \ DOMAIN cells : server'.num[c] = server.num[c]
    BY <2>1, <2>2, OverTotal
  <2>. DEFINE F == /\ save' \in Saves /\ save' # None /\ save'.phase = "applied"
                   /\ save'.answer = save.answer /\ save'.owner = save.owner
                   /\ save'.drivers = save.drivers /\ save'.amounts = save.amounts
                   /\ save'.stage = save.stage /\ save'.touched = save.touched
  <2>5. F
    BY <1>1, <1>2, <2>1, SaveMoves
  <2>6. DataOK' /\ HistoryOK'
    BY <1>1, <2>2, <2>5 DEF Core, DataOK, HistoryOK, client
  <2>7. AnswersOK'
    BY <1>1, <2>5 DEF Core, AnswersOK
  <2>8. PageOK'
    BY <1>1, <2>5 DEF Core, PageOK, Mounted, client
  <2>9. StoredOK'
    <3>1. DOMAIN save.drivers \subseteq Cells /\ DOMAIN save.amounts \intersect DOMAIN save.drivers = {}
      BY <1>1, DomainOfPartial DEF Core, AnswersOK, Saves
    <3>2. CASE save.stage = "driver"
      BY <1>1, <2>3, <2>5, <3>2 DEF StoredOK
    <3>3. CASE save.stage = "amount"
      <4>1. Holds(server.num, save.drivers)
        BY <1>1, <3>3 DEF Core, StoredOK
      <4>2. Holds(server'.num, save.drivers)
        BY <4>1, <3>1, <3>3, <2>4 DEF Holds
      <4>. QED  BY <4>2, <2>3, <2>5, <3>3 DEF StoredOK
    <3>. QED  BY <1>1, <3>2, <3>3 DEF Saves
  <2>10. KeptOK'
    BY <1>1, <2>5 DEF Core, KeptOK, InEdits, client
  <2>11. SettledOK'
    <3>. SUFFICES ASSUME ~mixed' PROVE SettledOK'
      BY DEF SettledOK
    <3>1. NoLoads /\ NoOps /\ SaveKnown
      BY <1>1, SaveAlone
    <3>. QED
      BY <3>1, <1>1, <2>5 DEF SettledOK, OneUnderWay, SaveKnown, LoadKnown, OpKnown, NoLoads,
                              NoOps, client
  <2>. QED  BY <2>6, <2>7, <2>8, <2>9, <2>10, <2>11 DEF Core
<1>3. CASE save' = [save EXCEPT !.phase = "refused"] /\ UNCHANGED server
  <2>. DEFINE F == /\ save' \in Saves /\ save' # None /\ save'.phase = "refused"
                   /\ save'.answer = save.answer /\ save'.owner = save.owner
                   /\ save'.drivers = save.drivers /\ save'.amounts = save.amounts
                   /\ save'.stage = save.stage /\ save'.touched = save.touched
  <2>1. "refused" \in Phases
    BY DEF Phases
  <2>2. F
    BY <1>1, <1>3, <2>1, SaveMoves
  <2>3. DataOK' /\ HistoryOK' /\ AnswersOK'
    BY <1>1, <1>3, <2>2 DEF Core, DataOK, HistoryOK, AnswersOK, client
  <2>4. PageOK'
    BY <1>1, <2>2 DEF Core, PageOK, Mounted, client
  <2>5. StoredOK' /\ KeptOK'
    BY <1>1, <1>3, <2>2 DEF Core, StoredOK, KeptOK, InEdits, client
  <2>6. SettledOK'
    <3>. SUFFICES ASSUME ~mixed' PROVE SettledOK'
      BY DEF SettledOK
    <3>1. NoLoads /\ NoOps /\ SaveKnown
      BY <1>1, SaveAlone
    <3>2. SaveKnown'
      BY <3>1, <1>1, <1>3, <2>2 DEF SaveKnown, Known, Same, SameAs, Mounted, client
    <3>. QED
      BY <3>1, <3>2, <1>1, <2>2 DEF SettledOK, OneUnderWay, LoadKnown, OpKnown, NoLoads, NoOps
  <2>. QED  BY <2>3, <2>4, <2>5, <2>6 DEF Core
<1>. QED  BY <1>2, <1>3 DEF ServeSave

\* respondValues: the answer is the view of the moment, or it is lost.
LEMMA AnswerSaveKeeps == ASSUME Core, AnswerSave PROVE Core'
<1>1. /\ save # None /\ save \in Saves /\ save.phase = "applied" /\ server \in Rows
      /\ UNCHANGED <<server, client, loads, op>>
  BY DEF AnswerSave, Core, DataOK
<1>2. /\ save' \in Saves /\ save' # None /\ save'.phase \in {"answered", "refused"}
      /\ save'.phase = "answered" => save'.answer = server
      /\ save'.owner = save.owner /\ save'.drivers = save.drivers
      /\ save'.amounts = save.amounts /\ save'.stage = save.stage
      /\ save'.touched = save.touched
      /\ mixed' \in BOOLEAN /\ (~mixed' => ~mixed /\ save'.phase = "answered")
  <2>1. CASE save' = [save EXCEPT !.phase = "answered", !.answer = server] /\ UNCHANGED mixed
    <3>1. save' \in Saves /\ save' # None
      BY <1>1, <2>1, SaveGoesOn
    <3>. QED  BY <1>1, <2>1, <3>1 DEF Saves, Core, DataOK
  <2>2. CASE save' = [save EXCEPT !.phase = "refused"] /\ mixed' = TRUE
    <3>1. "refused" \in Phases
      BY DEF Phases
    <3>2. save' \in Saves /\ save' # None
      BY <1>1, <2>2, <3>1, SaveGoesOn
    <3>. QED  BY <1>1, <2>2, <3>2 DEF Saves
  <2>. QED  BY <2>1, <2>2 DEF AnswerSave
<1>3. DataOK' /\ HistoryOK'
  BY <1>1, <1>2 DEF Core, DataOK, HistoryOK, client
<1>4. AnswersOK'
  BY <1>1, <1>2 DEF Core, AnswersOK
<1>5. PageOK'
  BY <1>1, <1>2 DEF Core, PageOK, Mounted, client
<1>6. StoredOK' /\ KeptOK'
  BY <1>1, <1>2 DEF Core, StoredOK, KeptOK, InEdits, client
<1>7. SettledOK'
  <2>. SUFFICES ASSUME ~mixed' PROVE SettledOK'
    BY DEF SettledOK
  <2>1. NoLoads /\ NoOps /\ SaveKnown
    BY <1>1, <1>2, SaveAlone
  <2>2. SaveKnown'
    BY <2>1, <1>1, <1>2 DEF SaveKnown, Same, SameAs, client
  <2>. QED
    BY <2>1, <2>2, <1>1, <1>2 DEF SettledOK, OneUnderWay, LoadKnown, OpKnown, NoLoads, NoOps
<1>. QED  BY <1>3, <1>4, <1>5, <1>6, <1>7 DEF Core

\* Between the two requests the driver values are stored, and gone from the grid.
LEMMA DriversSavedKeeps == ASSUME Core, DriversSaved PROVE Core'
<1>1. /\ save # None /\ save \in Saves /\ save.phase = "answered" /\ save.stage = "driver"
      /\ save' = [save EXCEPT !.stage = "amount", !.phase = "sent", !.answer = None]
      /\ edits' = IF save.owner = "editor"
                  THEN Restrict(edits, DOMAIN edits \ DOMAIN save.drivers) ELSE edits
      /\ UNCHANGED <<server, page, data, error, loads, past, future, draft, op, mixed>>
  BY DEF DriversSaved, Core, DataOK
<1>2. /\ save' \in Saves /\ save' # None /\ save'.phase = "sent" /\ save'.stage = "amount"
      /\ save'.owner = save.owner /\ save'.drivers = save.drivers
      /\ save'.amounts = save.amounts /\ save'.touched = save.touched
  <2>1. save' \in Saves /\ save' # None
    BY <1>1, SaveGoesOn
  <2>. QED  BY <1>1, <2>1 DEF Saves
<1>3. HistoryOK'
  <2>1. edits' \in Partial(Cells)
    BY <1>1, RestrictPartial DEF Core, HistoryOK
  <2>. QED  BY <1>1, <2>1 DEF Core, HistoryOK
<1>4. DataOK' /\ AnswersOK'
  BY <1>1, <1>2 DEF Core, DataOK, AnswersOK
<1>5. PageOK'
  BY <1>1, <1>2 DEF Core, PageOK, Mounted
<1>6. StoredOK'
  BY <1>1, <1>2 DEF Core, StoredOK
<1>7. KeptOK'
  <2>1. DOMAIN save.amounts \intersect DOMAIN save.drivers = {}
    BY <1>1 DEF Core, AnswersOK
  <2>. QED  BY <1>1, <1>2, <2>1 DEF Core, KeptOK, InEdits, Restrict
<1>8. SettledOK'
  <2>. SUFFICES ASSUME ~mixed' PROVE SettledOK'
    BY DEF SettledOK
  <2>1. NoLoads /\ NoOps /\ SaveKnown
    BY <1>1, SaveAlone
  <2>. QED
    BY <2>1, <1>1, <1>2 DEF SettledOK, OneUnderWay, SaveKnown, LoadKnown, OpKnown, NoLoads, NoOps
<1>. QED  BY <1>3, <1>4, <1>5, <1>6, <1>7, <1>8 DEF Core

\* The answer to the whole save is what the page shows from then on.
LEMMA SaveSucceedsKeeps == ASSUME Core, SaveSucceeds PROVE Core'
<1>1. /\ save # None /\ save \in Saves /\ save.phase = "answered" /\ save.answer \in Rows
      /\ save' = None /\ UNCHANGED <<server, page, loads, op, mixed>>
  BY DEF SaveSucceeds, Core, DataOK, AnswersOK
<1>2. /\ data' \in Rows \union {None} /\ error' \in BOOLEAN /\ draft' \in Texts \union {None}
      /\ Mounted' <=> draft' # None
      /\ page = "closed" => data' = None
      /\ (save.owner = "none" => UNCHANGED <<data, error>>)
      /\ (save.owner # "none" => data' = save.answer)
  <2>1. CASE save.owner = "none"
    <3>1. UNCHANGED <<data, error, draft>>
      BY <2>1 DEF SaveSucceeds
    <3>. QED  BY <1>1, <2>1, <3>1 DEF Core, DataOK, PageOK, Mounted
  <2>2. CASE save.owner # "none"
    <3>1. page # "closed" /\ SetData(save.answer)
      BY <1>1, <2>2 DEF SaveSucceeds, Core, PageOK
    <3>2. Mounted' /\ data' \in Rows /\ error' = FALSE /\ draft' \in Texts /\ draft' # None
      BY <1>1, <3>1, ViewArrives
    <3>. QED  BY <1>1, <2>2, <3>1, <3>2 DEF SetData
  <2>. QED  BY <2>1, <2>2
<1>3. HistoryOK'
  <2>1. CASE save.owner = "editor"
    BY <2>1, NoHistory DEF SaveSucceeds
  <2>2. CASE save.owner # "editor"
    BY <2>2 DEF SaveSucceeds, Core, HistoryOK
  <2>. QED  BY <2>1, <2>2
<1>4. DataOK' /\ AnswersOK'
  BY <1>1, <1>2 DEF Core, DataOK, AnswersOK
<1>5. PageOK'
  BY <1>1, <1>2 DEF Core, PageOK
<1>6. StoredOK' /\ KeptOK'
  BY <1>1 DEF StoredOK, KeptOK
<1>7. SettledOK'
  <2>. SUFFICES ASSUME ~mixed' PROVE SettledOK'
    BY DEF SettledOK
  <2>1. NoLoads /\ NoOps /\ SaveKnown
    BY <1>1, SaveAlone
  <2>2. Known'
    <3>1. CASE save.owner = "none"
      BY <2>1, <3>1, <1>1 DEF SaveKnown, Known, Mounted
    <3>2. CASE save.owner # "none"
      BY <2>1, <3>2, <1>1, <1>2 DEF SaveKnown, Known, Same, SameAs
    <3>. QED  BY <3>1, <3>2
  <2>. QED
    BY <2>1, <2>2, <1>1 DEF SettledOK, OneUnderWay, SaveKnown, LoadKnown, OpKnown, NoLoads, NoOps
<1>. QED  BY <1>3, <1>4, <1>5, <1>6, <1>7 DEF Core

\* After the second request failed, the view is read again.
LEMMA SaveFailsKeeps == ASSUME Core, SaveFails PROVE Core'
<1>1. /\ save # None /\ save \in Saves /\ save.phase = "refused" /\ save' = None
      /\ UNCHANGED <<server, client, op, mixed>>
  BY DEF SaveFails, Core, DataOK
<1>. DEFINE again == save.stage = "amount" /\ save.owner # "none"
<1>2. CASE ~again
  <2>1. UNCHANGED loads
    BY <1>2 DEF SaveFails
  <2>2. DataOK' /\ HistoryOK' /\ AnswersOK'
    BY <1>1, <2>1 DEF Core, DataOK, HistoryOK, AnswersOK, client
  <2>3. PageOK'
    BY <1>1, <2>1 DEF Core, PageOK, Mounted, client
  <2>4. StoredOK' /\ KeptOK'
    BY <1>1 DEF StoredOK, KeptOK
  <2>5. SettledOK'
    <3>. SUFFICES ASSUME ~mixed' PROVE SettledOK'
      BY DEF SettledOK
    <3>1. NoLoads /\ NoOps /\ SaveKnown
      BY <1>1, SaveAlone
    <3>2. Known'
      BY <3>1, <1>1, <1>2 DEF SaveKnown, Known, Same, SameAs, Mounted, client, Saves
    <3>. QED
      BY <3>1, <3>2, <1>1, <2>1 DEF SettledOK, OneUnderWay, SaveKnown, LoadKnown, OpKnown,
                                    NoLoads, NoOps
  <2>. QED  BY <2>2, <2>3, <2>4, <2>5 DEF Core
<1>3. CASE again
  <2>1. PICK i \in FreeSlots : StartLoad(i)
    BY <1>3 DEF SaveFails
  <2>2. page # "closed"
    BY <1>1, <1>3 DEF Core, PageOK
  <2>3. /\ i \in 1..MaxLoads /\ loads' \in [1..MaxLoads -> Loads \union {None}]
        /\ loads'[i] # None /\ loads'[i].phase = "sent"
        /\ \A j \in 1..MaxLoads : j # i => loads'[j] = loads[j]
    BY <2>1, ReadingIs DEF Core, DataOK, Reading, FreeSlots, StartLoad
  <2>4. DataOK' /\ HistoryOK'
    BY <1>1, <2>3 DEF Core, DataOK, HistoryOK, client
  <2>5. AnswersOK'
    BY <1>1, <2>3 DEF Core, AnswersOK
  <2>6. PageOK'
    BY <1>1, <2>2 DEF Core, PageOK, Mounted, client
  <2>7. StoredOK' /\ KeptOK'
    BY <1>1 DEF StoredOK, KeptOK
  <2>8. SettledOK'
    <3>. SUFFICES ASSUME ~mixed' PROVE SettledOK'
      BY DEF SettledOK
    <3>1. NoLoads /\ NoOps
      BY <1>1, SaveAlone
    <3>. QED
      BY <3>1, <1>1, <2>3 DEF SettledOK, OneUnderWay, SaveKnown, LoadKnown, OpKnown, NoLoads, NoOps
  <2>. QED  BY <2>4, <2>5, <2>6, <2>7, <2>8 DEF Core
<1>. QED  BY <1>2, <1>3

-----------------------------------------------------------------------------
\* The requests of the cards, one or two of them in a row.
LEMMA StepListsAre ==
  ASSUME NEW l \in StepLists
  PROVE  /\ Head(l) \in {"note", "complete", "uncomplete", "month"} /\ Len(l) \in {1, 2}
         /\ Len(l) = 2 => Head(l) = "note" /\ Tail(l) \in StepLists /\ Len(Tail(l)) = 1
<1>1. CASE l = <<"note", "complete">>
  <2>1. Head(l) = "note" /\ Len(l) = 2 /\ Tail(l) = <<"complete">>
    BY <1>1
  <2>2. Tail(l) \in StepLists /\ Len(Tail(l)) = 1
    BY <2>1 DEF StepLists
  <2>. QED  BY <2>1, <2>2
<1>2. CASE l \in {<<"note">>, <<"complete">>, <<"uncomplete">>, <<"month">>}
  <2>1. Head(l) \in {"note", "complete", "uncomplete", "month"} /\ Len(l) = 1
    BY <1>2
  <2>. QED  BY <2>1
<1>. QED  BY <1>1, <1>2 DEF StepLists

\* putNote, setCompleted, putRecognition: what is stored is a row with the same
\* numbers, and what stays completed stays as it was.
LEMMA AppliedIs ==
  ASSUME NEW s \in Rows, NEW step \in {"note", "complete", "uncomplete", "month"}, NEW arg \in Texts
  PROVE  LET r == Applied(s, step, arg)
         IN  /\ r \in Rows /\ r.num = s.num
             /\ s.done /\ r.done => r.note = s.note /\ r.month = s.month
             /\ step = "note" => r.month = s.month /\ (~s.done => ~r.done)
<1>1. CASE step = "note" /\ s.note = arg
  BY <1>1 DEF Applied
<1>2. CASE step = "note" /\ s.note # arg
  BY <1>2 DEF Applied, Rows
<1>3. CASE step = "complete"
  BY <1>3 DEF Applied, Rows
<1>4. CASE step = "uncomplete"
  BY <1>4 DEF Applied, Rows
<1>5. CASE step = "month"
  BY <1>5 DEF Applied, Rows
<1>. QED  BY <1>1, <1>2, <1>3, <1>4, <1>5

LEMMA OpAlone ==
  ASSUME Core, NEW card \in Cards, op[card] # None, ~mixed
  PROVE  /\ save = None /\ NoLoads /\ OpKnown
         /\ \A c \in Cards : c # card => op[c] = None
<1>1. OneUnderWay /\ OpKnown
  BY DEF Core, SettledOK
<1>2. NoLoads
  BY <1>1 DEF OneUnderWay, NoLoads, NoOps
<1>3. save = None
  BY <1>1 DEF OneUnderWay, NoOps
<1>. QED  BY <1>1, <1>2, <1>3 DEF OneUnderWay

\* A step of the request of one card, which is r afterwards, on the server and
\* on its way back, or nothing any more: the page itself stays as it was.
LEMMA OpMoves ==
  ASSUME Core, NEW card \in Cards, op[card] # None, NEW r \in Ops \union {None},
         op' = [op EXCEPT ![card] = r], server' \in Rows, server'.num = server.num,
         mixed' \in BOOLEAN, ~mixed' => ~mixed, UNCHANGED <<page, data, error, loads, edits, past, future, draft, save>>,
         r # None =>
           /\ r.owner = op[card].owner
           /\ r.phase = "answered" => r.answer \in Rows,
         ~mixed' /\ r = None => Known',
         ~mixed' /\ r # None =>
           /\ r.phase = "answered" => SameAs(r.answer, server')
           /\ r.phase \in {"sent", "refused"} => Known'
           /\ Len(r.steps) = 2 => Known' /\ (Mounted => ~server'.done)
  PROVE  Core'
<1>1. /\ op' \in [Cards -> Ops \union {None}] /\ op'[card] = r
      /\ \A c \in Cards : c # card => op'[c] = op[c]
  BY DEF Core, DataOK
<1>2. DataOK' /\ HistoryOK'
  BY <1>1 DEF Core, DataOK, HistoryOK
<1>3. AnswersOK'
  BY <1>1 DEF Core, AnswersOK
<1>4. PageOK'
  BY <1>1 DEF Core, PageOK, Mounted
<1>5. StoredOK' /\ KeptOK'
  BY DEF Core, StoredOK, KeptOK, Holds, InEdits
<1>6. SettledOK'
  <2>. SUFFICES ASSUME ~mixed' PROVE SettledOK'
    BY DEF SettledOK
  <2>1. /\ save = None /\ NoLoads /\ OpKnown
        /\ \A c \in Cards : c # card => op[c] = None
    BY OpAlone
  <2>2. OneUnderWay'
    BY <2>1, <1>1 DEF OneUnderWay, NoLoads, NoOps
  <2>3. SaveKnown' /\ LoadKnown'
    BY <2>1 DEF SaveKnown, LoadKnown, NoLoads
  <2>4. Mounted' = Mounted
    BY DEF Mounted
  <2>5. OpKnown'
    BY <2>1, <2>4, <1>1 DEF OpKnown, Same
  <2>6. (save = None /\ NoLoads /\ NoOps => Known)'
    BY <1>1 DEF NoOps
  <2>. QED  BY <2>2, <2>3, <2>5, <2>6 DEF SettledOK
<1>. QED  BY <1>2, <1>3, <1>4, <1>5, <1>6 DEF Core

LEMMA ServeOpKeeps == ASSUME Core, NEW card \in Cards, ServeOp(card) PROVE Core'
<1>. DEFINE q == op[card]
<1>1. /\ q # None /\ q \in Ops /\ q.phase = "sent" /\ server \in Rows /\ mixed \in BOOLEAN
      /\ UNCHANGED <<page, data, error, loads, edits, past, future, draft, save, mixed>>
  BY DEF ServeOp, Core, DataOK, client
<1>2. ~mixed => /\ q.phase \in {"sent", "refused"} => Known
                /\ Len(q.steps) = 2 => Known /\ (Mounted => ~server.done)
  BY <1>1, OpAlone DEF OpKnown
<1>3. CASE /\ server' = Applied(server, Head(q.steps), q.arg)
           /\ op' = [op EXCEPT ![card].phase = "applied"]
  <2>. DEFINE r == [q EXCEPT !.phase = "applied"]
  <2>1. q.steps \in StepLists /\ q.arg \in Texts /\ "applied" \in Phases
    BY <1>1 DEF Ops, Phases
  <2>2. r \in Ops /\ op' = [op EXCEPT ![card] = r]
    BY <1>1, <1>3, <2>1, OpGoesOn
  <2>3. r.phase = "applied" /\ r.owner = q.owner /\ r.steps = q.steps
    BY <1>1 DEF Ops
  <2>. HIDE DEF r
  <2>4. Head(q.steps) \in {"note", "complete", "uncomplete", "month"}
        /\ (Len(q.steps) = 2 => Head(q.steps) = "note")
    BY <2>1, StepListsAre
  <2>5. /\ server' \in Rows /\ server'.num = server.num
        /\ Head(q.steps) = "note" => server'.month = server.month /\ (~server.done => ~server'.done)
    BY <1>1, <1>3, <2>1, <2>4, AppliedIs
  <2>6. ~mixed /\ Len(r.steps) = 2 => Known' /\ (Mounted => ~server'.done)
    <3>. SUFFICES ASSUME ~mixed, Len(r.steps) = 2
                  PROVE  Known' /\ (Mounted => ~server'.done)
      OBVIOUS
    <3>1. Known /\ (Mounted => ~server.done) /\ server'.month = server.month
          /\ (~server.done => ~server'.done)
      BY <1>2, <2>3, <2>4, <2>5
    <3>2. server.done \in BOOLEAN /\ server'.done \in BOOLEAN
      BY <1>1, <2>5 DEF Rows
    <3>3. Mounted' = Mounted
      BY <1>1 DEF Mounted
    <3>4. Mounted => ~server.done /\ ~server'.done
      BY <3>1
    <3>5. Mounted => server'.done = server.done
      BY <3>2, <3>4
    <3>. QED  BY <3>1, <3>3, <3>4, <3>5, <2>5, <1>1 DEF Known, Same, SameAs
  <2>7. r.phase # "answered" /\ r.phase \notin {"sent", "refused"} /\ r # None
    BY <2>2, <2>3, OpGoesOn
  <2>8. ~mixed' => (Len(r.steps) = 2 => Known' /\ (Mounted => ~server'.done))
    BY <1>1, <2>6
  <2>. QED  BY <1>1, <2>2, <2>3, <2>5, <2>7, <2>8, OpMoves
<1>4. CASE op' = [op EXCEPT ![card].phase = "refused"] /\ UNCHANGED server
  <2>. DEFINE r == [q EXCEPT !.phase = "refused"]
  <2>1. "refused" \in Phases
    BY DEF Phases
  <2>2. r \in Ops /\ op' = [op EXCEPT ![card] = r]
    BY <1>1, <1>4, <2>1, OpGoesOn
  <2>3. r.phase = "refused" /\ r.owner = q.owner /\ r.steps = q.steps
    BY <1>1 DEF Ops
  <2>. HIDE DEF r
  <2>4. ~mixed => Known' /\ (Len(r.steps) = 2 => (Mounted => ~server'.done))
    BY <1>1, <1>2, <1>4, <2>3 DEF Known, Same, SameAs, Mounted
  <2>. QED  BY <1>1, <1>4, <2>2, <2>3, <2>4, OpMoves
<1>. QED  BY <1>3, <1>4 DEF ServeOp

LEMMA AnswerOpKeeps == ASSUME Core, NEW card \in Cards, AnswerOp(card) PROVE Core'
<1>. DEFINE q == op[card]
<1>1. /\ q # None /\ q \in Ops /\ q.phase = "applied" /\ server \in Rows /\ mixed \in BOOLEAN
      /\ UNCHANGED <<server, page, data, error, loads, edits, past, future, draft, save>>
  BY DEF AnswerOp, Core, DataOK, client
<1>2. ~mixed => (Len(q.steps) = 2 => Known /\ (Mounted => ~server.done))
  BY <1>1, OpAlone DEF OpKnown
<1>3. Known' <=> Known
  BY <1>1 DEF Known, Same, SameAs, Mounted
<1>4. CASE /\ op' = [op EXCEPT ![card].phase = "answered", ![card].answer = server]
           /\ UNCHANGED mixed
  <2>. DEFINE r == [q EXCEPT !.phase = "answered", !.answer = server]
  <2>1. r \in Ops /\ op' = [op EXCEPT ![card] = r]
    BY <1>1, <1>4, OpGoesOn
  <2>2. r.phase = "answered" /\ r.owner = q.owner /\ r.steps = q.steps /\ r.answer = server
    BY <1>1 DEF Ops
  <2>3. r # None
    BY <2>1, OpGoesOn
  <2>. HIDE DEF r
  <2>4. SameAs(r.answer, server')
    BY <1>1, <2>2 DEF SameAs
  <2>5. ~mixed' => (Len(r.steps) = 2 => Known' /\ (Mounted => ~server'.done))
    BY <1>1, <1>2, <1>3, <1>4, <2>2
  <2>. QED  BY <1>1, <1>4, <2>1, <2>2, <2>3, <2>4, <2>5, OpMoves
<1>5. CASE op' = [op EXCEPT ![card].phase = "refused"] /\ mixed' = TRUE
  <2>. DEFINE r == [q EXCEPT !.phase = "refused"]
  <2>1. "refused" \in Phases
    BY DEF Phases
  <2>2. r \in Ops /\ op' = [op EXCEPT ![card] = r]
    BY <1>1, <1>5, <2>1, OpGoesOn
  <2>3. r.phase = "refused" /\ r.owner = q.owner
    BY <1>1 DEF Ops
  <2>. HIDE DEF r
  <2>. QED  BY <1>1, <1>5, <2>2, <2>3, OpMoves
<1>. QED  BY <1>4, <1>5 DEF AnswerOp

LEMMA OpArrivesKeeps == ASSUME Core, NEW card \in Cards, OpArrives(card) PROVE Core'
<1>. DEFINE q == op[card]
<1>1. /\ q # None /\ q \in Ops /\ server \in Rows /\ mixed \in BOOLEAN /\ q.steps \in StepLists
      /\ UNCHANGED <<server, page, loads, edits, past, future, save, mixed>>
  BY DEF OpArrives, Core, DataOK, Ops
<1>2. ~mixed => /\ q.owner = "none" => page = "closed"
                /\ q.phase = "answered" => Same(q.answer)
                /\ q.phase \in {"sent", "refused"} => Known
                /\ Len(q.steps) = 2 => Known /\ (Mounted => ~server.done)
  BY <1>1, OpAlone DEF OpKnown
<1>3. UNCHANGED <<data, error, draft>> => (Known' <=> Known) /\ (Mounted' <=> Mounted)
  BY <1>1 DEF Known, Same, SameAs, Mounted
<1>4. CASE /\ q.phase = "refused" /\ op' = [op EXCEPT ![card] = None]
           /\ UNCHANGED <<data, error, draft>>
  <2>1. ~mixed' => Known'
    BY <1>1, <1>2, <1>3, <1>4
  <2>. QED  BY <1>1, <1>4, <2>1, OpMoves
<1>5. CASE /\ q.phase = "answered" /\ Len(q.steps) > 1
           /\ op' = [op EXCEPT ![card].steps = Tail(@), ![card].phase = "sent",
                               ![card].answer = None]
           /\ UNCHANGED <<data, error, draft>>
  <2>. DEFINE r == [q EXCEPT !.steps = Tail(@), !.phase = "sent", !.answer = None]
  <2>1. Len(q.steps) = 2 /\ Tail(q.steps) \in StepLists /\ Len(Tail(q.steps)) = 1
    <3>. DEFINE l == q.steps
    <3>1. l \in StepLists /\ Len(l) > 1
      BY <1>1, <1>5
    <3>. HIDE DEF l
    <3>2. Len(l) \in {1, 2} /\ (Len(l) = 2 => Tail(l) \in StepLists /\ Len(Tail(l)) = 1)
      BY <3>1, StepListsAre
    <3>3. Len(l) = 2
      BY <3>1, <3>2
    <3>. QED  BY <3>2, <3>3 DEF l
  <2>2. r \in Ops /\ r.phase = "sent" /\ r.owner = q.owner /\ r.steps = Tail(q.steps)
    BY <1>1, <2>1 DEF Ops, Phases
  <2>3. op' = [op EXCEPT ![card] = r]
    BY <1>5
  <2>. HIDE DEF r
  <2>4. ~mixed' => Known'
    BY <1>1, <1>2, <1>3, <1>5, <2>1
  <2>5. r.phase # "answered" /\ Len(r.steps) # 2
    <3>. DEFINE rest == Tail(q.steps)
    <3>1. Len(rest) = 1 /\ r.steps = rest /\ r.phase = "sent"
      BY <2>1, <2>2
    <3>. HIDE DEF rest
    <3>2. Len(r.steps) = 1
      BY <3>1
    <3>. QED  BY <3>1, <3>2
  <2>. QED  BY <1>1, <1>5, <2>2, <2>3, <2>4, <2>5, OpMoves
<1>6. CASE /\ op' = [op EXCEPT ![card] = None] /\ q.owner = "none"
           /\ UNCHANGED <<data, error, draft>>
  <2>1. ~mixed' => Known'
    BY <1>1, <1>2, <1>3, <1>6 DEF Known, Mounted
  <2>. QED  BY <1>1, <1>6, <2>1, OpMoves
<1>7. CASE /\ q.phase = "answered" /\ op' = [op EXCEPT ![card] = None] /\ q.owner # "none"
           /\ SetData(q.answer)
  <2>1. page # "closed" /\ q.answer \in Rows
    BY <1>1, <1>7 DEF Core, PageOK, AnswersOK
  <2>2. Mounted' /\ data' \in Rows /\ error' = FALSE /\ draft' \in Texts /\ draft' # None
    BY <1>1, <1>7, <2>1, ViewArrives
  <2>3. /\ op' \in [Cards -> Ops \union {None}] /\ op'[card] = None
        /\ \A c \in Cards : c # card => op'[c] = op[c]
    BY <1>7 DEF Core, DataOK
  <2>4. DataOK' /\ HistoryOK'
    BY <1>1, <2>2, <2>3 DEF Core, DataOK, HistoryOK
  <2>5. AnswersOK'
    BY <1>1, <2>3 DEF Core, AnswersOK
  <2>6. PageOK'
    BY <1>1, <2>1, <2>2 DEF PageOK
  <2>7. StoredOK' /\ KeptOK'
    BY <1>1 DEF Core, StoredOK, KeptOK, InEdits
  <2>8. SettledOK'
    <3>. SUFFICES ASSUME ~mixed' PROVE SettledOK'
      BY DEF SettledOK
    <3>1. /\ save = None /\ NoLoads
          /\ \A c \in Cards : c # card => op[c] = None
      BY <1>1, OpAlone
    <3>2. Known'
      <4>1. SameAs(q.answer, server) /\ data' = q.answer
        BY <1>1, <1>2, <1>7 DEF Same, SetData
      <4>. HIDE DEF q
      <4>. QED  BY <4>1, <1>1 DEF Known, Same, SameAs
    <3>3. NoOps'
      BY <3>1, <2>3 DEF NoOps
    <3>. QED
      BY <3>1, <3>2, <3>3, <1>1 DEF SettledOK, OneUnderWay, SaveKnown, LoadKnown, OpKnown,
                                    NoLoads, NoOps
  <2>. QED  BY <2>4, <2>5, <2>6, <2>7, <2>8 DEF Core
<1>. QED  BY <1>4, <1>5, <1>6, <1>7 DEF OpArrives

-----------------------------------------------------------------------------
\* The trial calculation.

\* The effect on driverPayload runs after every step that may change the payload.
LEMMA TrialRestarts == ASSUME TrialOK, RestartTrial PROVE TrialOK'
<1>. DEFINE now == Payload(data', edits')
<1>1. CASE trial' = None
  BY <1>1 DEF TrialOK
<1>2. CASE Editable' /\ Editable /\ now = Payload(data, edits) /\ trial' = trial
  BY <1>2 DEF TrialOK, Editable
<1>3. CASE Editable' /\ trial' = Trial(now)
  BY <1>3 DEF TrialOK, Editable, Trial
<1>. QED  BY <1>1, <1>2, <1>3 DEF RestartTrial

LEMMA TrialStepKeeps == ASSUME Inv, TrialStep PROVE Inv'
<1>1. /\ trial # None /\ UNCHANGED <<server, page, data, error, loads, edits, past, future,
                                      draft, save, op, mixed>>
  BY DEF TrialStep, TimerFires, ServeTrial, TrialArrives, client
<1>2. TrialOK'
  <2>. DEFINE p == trial.phase
              a == trial.answer
              w == trial.waits
              n == Payload(data, edits)
  <2>1. Mounted /\ trial = [phase |-> p, answer |-> a, payload |-> n, waits |-> w]
    BY <1>1 DEF Inv, TrialOK
  <2>2. Mounted' /\ Payload(data', edits') = n
    BY <1>1, <2>1 DEF Mounted
  <2>. HIDE DEF p, a, w, n
  <2>3. CASE TimerFires
    <3>1. trial' = [phase |-> p, answer |-> a, payload |-> n, waits |-> FALSE]
      BY <2>1, <2>3 DEF TimerFires
    <3>. QED  BY <2>2, <3>1 DEF TrialOK
  <2>4. CASE ServeTrial
    <3>1. PICK x, y : trial' = [phase |-> y, answer |-> x, payload |-> n, waits |-> w]
      BY <2>1, <2>4 DEF ServeTrial
    <3>. QED  BY <2>2, <3>1 DEF TrialOK
  <2>5. CASE TrialArrives
    BY <2>5 DEF TrialArrives, TrialOK
  <2>. QED  BY <2>3, <2>4, <2>5 DEF TrialStep
<1>3. Core'
  BY <1>1 DEF Inv, Core, DataOK, HistoryOK, AnswersOK, PageOK, StoredOK, KeptOK, SettledOK,
              OneUnderWay, SaveKnown, LoadKnown, OpKnown, Known, NoLoads, NoOps, Same, SameAs,
              Holds, InEdits, Mounted
<1>. QED  BY <1>2, <1>3 DEF Inv

-----------------------------------------------------------------------------
\* Before anything is read there is no editor, and one reading is under way.
THEOREM InitInv == Init => Inv
<1>. SUFFICES ASSUME Init PROVE Inv
  OBVIOUS
<1>1. /\ page = "open" /\ data = None /\ error = FALSE /\ draft = None /\ mixed = FALSE
      /\ edits = <<>> /\ past = <<>> /\ future = <<>> /\ trial = None /\ save = None
      /\ loads = [i \in 1..MaxLoads |-> IF i = 1 THEN Reading ELSE None]
      /\ op = [c \in Cards |-> None]
  BY DEF Init
<1>2. server \in Rows
  <2>. DEFINE v == CHOOSE x \in Values : TRUE
              t == CHOOSE x \in Texts : TRUE
  <2>1. v \in Values /\ t \in Texts
    BY DataAssumption
  <2>2. server = [num |-> [c \in Cells |-> v], note |-> t, month |-> t, done |-> FALSE,
                  locked |-> FALSE]
    BY DEF Init
  <2>. HIDE DEF v, t
  <2>. QED  BY <2>1, <2>2 DEF Rows
<1>3. /\ loads \in [1..MaxLoads -> Loads \union {None}]
      /\ \A i \in 1..MaxLoads : loads[i] # None => i = 1 /\ loads[i].phase = "sent"
  BY <1>1, ReadingIs DEF Reading
<1>4. \A c \in Cards : op[c] = None
  BY <1>1
<1>5. DataOK /\ AnswersOK /\ ~Mounted
  BY <1>1, <1>2, <1>3, <1>4 DEF DataOK, AnswersOK, Mounted
<1>6. HistoryOK
  BY <1>1, NoCells, BoundsAssumption DEF HistoryOK
<1>7. PageOK /\ TrialOK /\ StoredOK /\ KeptOK
  BY <1>1, <1>5 DEF PageOK, TrialOK, StoredOK, KeptOK
<1>8. SettledOK
  BY <1>1, <1>3, <1>4, <1>5 DEF SettledOK, OneUnderWay, SaveKnown, LoadKnown, OpKnown, Known,
                                NoLoads, NoOps
<1>. QED  BY <1>5, <1>6, <1>7, <1>8 DEF Inv, Core

LEMMA InputKeeps == ASSUME Core, Input PROVE Core'
<1>1. ASSUME NEW S \in SUBSET Cells \ {{}}, NEW x \in Values, Enter([c \in S |-> x])
      PROVE  Core'
  <2>1. [c \in S |-> x] \in [S -> Values] /\ S \in SUBSET Cells
    OBVIOUS
  <2>2. [c \in S |-> x] \in Partial(Cells)
    BY <2>1, PartialMakes
  <2>. QED  BY <1>1, <2>2, EnterKeeps
<1>2. ASSUME NEW c \in Cells, NEW x \in Values, Mark(c, x) PROVE Core'
  BY <1>2, MarkKeeps
<1>3. ASSUME Undo \/ Redo \/ Discard \/ StartSave PROVE Core'
  BY <1>3, UndoKeeps, RedoKeeps, DiscardKeeps, StartSaveKeeps
<1>4. ASSUME NEW t \in Texts, Write(t) PROVE Core'
  BY <1>4, WriteKeeps
<1>5. ASSUME SaveNote \/ Complete \/ Uncomplete \/ \E t \in Texts : ChangeMonth(t) PROVE Core'
  BY <1>5, CardsKeep
<1>6. ASSUME MoveDriver \/ OpenPage PROVE Core'
  BY <1>6, ReadersKeep
<1>7. ASSUME ChangeActivity \/ ClosePage PROVE Core'
  BY <1>7, ChangeActivityKeeps, ClosePageKeeps
<1>. QED  BY <1>1, <1>2, <1>3, <1>4, <1>5, <1>6, <1>7 DEF Input

\* Whatever the user does and whichever request is served, answered or lost.
THEOREM NextInv == Inv /\ [Next]_vars => Inv'
<1>. SUFFICES ASSUME Inv, [Next]_vars PROVE Inv'
  OBVIOUS
<1>. Core /\ TrialOK
  BY DEF Inv
<1>1. CASE Input /\ RestartTrial
  BY <1>1, InputKeeps, TrialRestarts DEF Inv
<1>2. CASE SaveStep
  BY <1>2, ServeSaveKeeps, AnswerSaveKeeps, DriversSavedKeeps, SaveSucceedsKeeps,
     SaveFailsKeeps, TrialRestarts DEF SaveStep, Inv
<1>3. CASE TrialStep
  BY <1>3, TrialStepKeeps
<1>4. CASE PageStep
  BY <1>4, ReadersKeep, TrialRestarts DEF PageStep, Inv
<1>5. CASE LockVersion
  <2>1. UNCHANGED <<client, trial>>
    BY <1>5 DEF LockVersion
  <2>2. TrialOK'
    BY <2>1 DEF TrialOK, client, Mounted, Payload, Changed
  <2>. QED  BY <1>5, <2>2, LockKeeps DEF Inv
<1>6. ASSUME NEW card \in Cards, OpStep(card) PROVE Inv'
  BY <1>6, ServeOpKeeps, AnswerOpKeeps, OpArrivesKeeps, TrialRestarts DEF OpStep, Inv
<1>7. ASSUME NEW i \in 1..MaxLoads, LoadStep(i) PROVE Inv'
  BY <1>7, ServeLoadKeeps, LoadArrivesKeeps, LoadFailsKeeps, TrialRestarts DEF LoadStep, Inv
<1>8. CASE UNCHANGED vars
  BY <1>8 DEF vars, Inv, Core, DataOK, HistoryOK, AnswersOK, PageOK, TrialOK, StoredOK, KeptOK,
              SettledOK, OneUnderWay, SaveKnown, LoadKnown, OpKnown, Known, NoLoads, NoOps, Same,
              SameAs, Holds, InEdits, Mounted, Payload, Changed
<1>. QED  BY <1>1, <1>2, <1>3, <1>4, <1>5, <1>6, <1>7, <1>8 DEF Next

\* The strengthened invariant, for any number of cells, readings and inputs.
THEOREM SpecInv == Spec => []Inv
  BY InitInv, NextInv, PTL DEF Spec

-----------------------------------------------------------------------------
\* What the runs check, for every value of the constants.

\* The rows, the grid and its history keep their kinds; a trial calculation is
\* of what is in the grid, an editor's save has an editor, and an explanation is
\* being written exactly while there is an editor (TypeOK of ValuesEditor).
THEOREM SpecTypeOK == Spec => []TypeOK
<1>1. Inv => TypeOK
  <2>. SUFFICES ASSUME Inv PROVE TypeOK
    OBVIOUS
  <2>. Core /\ DataOK /\ HistoryOK /\ PageOK /\ TrialOK
    BY DEF Inv, Core
  <2>1. server \in Rows /\ data \in Rows \union {None} /\ error \in BOOLEAN
        /\ page \in {"open", "reloading", "closed"}
    BY DEF DataOK
  <2>2. edits \in Partial(Cells) /\ Len(past) <= HistoryMax
    <3>1. /\ Len(past) \in Nat /\ Len(future) \in Nat /\ HistoryMax \in Nat
          /\ Len(past) + Len(future) <= HistoryMax
      BY BoundsAssumption DEF HistoryOK
    <3>. DEFINE p == Len(past)
                f == Len(future)
    <3>. HIDE DEF p, f
    <3>2. p <= HistoryMax
      BY <3>1 DEF p, f
    <3>. QED  BY <3>2 DEF p, HistoryOK
  <2>3. \A e \in Range(past) \union Range(future) : e \in Partial(Cells)
    <3>. DEFINE P == Partial(Cells)
    <3>1. past \in Seq(P) /\ future \in Seq(P)
      BY DEF HistoryOK
    <3>. HIDE DEF P
    <3>2. \A i \in DOMAIN past : past[i] \in P
      BY <3>1
    <3>3. \A i \in DOMAIN future : future[i] \in P
      BY <3>1
    <3>. QED  BY <3>2, <3>3 DEF P, Range
  <2>4. trial # None => Mounted /\ trial.payload = Payload(data, edits)
    BY DEF TrialOK
  <2>5. ((save # None /\ save.owner = "editor") => Mounted) /\ (Mounted <=> draft # None)
    BY DEF PageOK
  <2>. QED  BY <2>1, <2>2, <2>3, <2>4, <2>5 DEF TypeOK
<1>. QED  BY <1>1, SpecInv, PTL

\* save: while the amounts are under way the driver values are stored, and when
\* the whole save is answered so are the amounts, whatever the user does in the
\* meantime and whichever other request is served (AnsweredSaveIsStored).
THEOREM AnsweredIsStored == Spec => []AnsweredSaveIsStored
<1>1. Inv => AnsweredSaveIsStored
  <2>. SUFFICES ASSUME Inv, save # None,
                       NEW c \in DOMAIN save.drivers \union DOMAIN save.amounts,
                       IF c \in Drivers THEN save.stage = "amount" \/ save.phase = "answered"
                       ELSE save.stage = "amount" /\ save.phase = "answered"
                PROVE  server.num[c] = Over(save.drivers, save.amounts)[c]
    BY DEF AnsweredSaveIsStored
  <2>1. AnswersOK /\ StoredOK
    BY DEF Inv, Core
  <2>2. CASE c \in DOMAIN save.drivers
    BY <2>1, <2>2 DEF AnswersOK, StoredOK, Holds, Over
  <2>3. CASE c \notin DOMAIN save.drivers
    BY <2>1, <2>3 DEF AnswersOK, StoredOK, Holds, Over
  <2>. QED  BY <2>2, <2>3
<1>. QED  BY <1>1, SpecInv, PTL

\* setData after every change: when requests never overlapped and none lost its
\* answer, a page at rest shows the numbers, the month and the completion that
\* are stored (SettledScreenIsStored).
THEOREM SettledIsStored == Spec => []SettledScreenIsStored
<1>1. Inv => SettledScreenIsStored
  <2>. SUFFICES ASSUME Inv, Mounted, UnderWay = {}, ~mixed
                PROVE  data.num = server.num /\ data.done = server.done /\ data.month = server.month
    BY DEF SettledScreenIsStored
  <2>1. save = None
    BY DEF UnderWay
  <2>2. NoLoads
    <3>1. ASSUME NEW i \in 1..MaxLoads PROVE loads[i] \in Range(loads)
      BY DEF Inv, Core, DataOK, Range
    <3>. QED  BY <3>1 DEF UnderWay, NoLoads
  <2>3. NoOps
    <3>1. ASSUME NEW c \in Cards PROVE op[c] \in Range(op)
      BY DEF Inv, Core, DataOK, Range
    <3>. QED  BY <3>1 DEF UnderWay, NoOps
  <2>. QED  BY <2>1, <2>2, <2>3 DEF Inv, Core, SettledOK, Known, Same, SameAs
<1>. QED  BY <1>1, SpecInv, PTL

\* A save is over when it succeeds or fails, and with nothing else.
LEMMA SaveEnds ==
  ASSUME Inv, [Next]_vars, save # None, save' = None, save.phase = "refused"
  PROVE  UNCHANGED <<server, edits>>
<1>. Core /\ DataOK /\ save \in Saves
  BY DEF Inv, Core, DataOK
<1>1. ~Touch
  BY SaveGoesOn DEF Touch
<1>2. \A o \in Owners : ~Orphan(o)
  BY SaveGoesOn DEF Orphan
<1>3. ~UNCHANGED save
  OBVIOUS
<1>4. ~Input
  BY <1>1, <1>2, <1>3
     DEF Input, Enter, Mark, Undo, Redo, Discard, StartSave, Write, ChangeMonth, SaveNote,
         Complete, Uncomplete, Request, MoveDriver, ChangeActivity, ClosePage, OpenPage, Owners
<1>5. ~TrialStep /\ ~PageStep /\ ~LockVersion /\ ~UNCHANGED vars
  BY <1>3 DEF TrialStep, TimerFires, ServeTrial, TrialArrives, PageStep, ActivityArrives,
              LockVersion, vars
<1>6. ASSUME NEW card \in Cards PROVE ~OpStep(card)
  BY <1>3 DEF OpStep, ServeOp, AnswerOp, OpArrives
<1>7. ASSUME NEW i \in 1..MaxLoads PROVE ~LoadStep(i)
  BY <1>2, <1>3 DEF LoadStep, ServeLoad, LoadArrives, LoadFails, Owners
<1>8. SaveStep
  BY <1>4, <1>5, <1>6, <1>7 DEF Next
<1>9. SaveFails
  BY <1>8 DEF SaveStep, ServeSave, AnswerSave, DriversSaved, SaveSucceeds
<1>. QED  BY <1>9 DEF SaveFails, client

\* save: the requests go one after the other, and the edits of each leave the
\* grid only with its answer, so that a save which fails loses nothing
\* (FailedSaveKeepsInput).
THEOREM FailureKeepsInput == Spec => FailedSaveKeepsInput
<1>1. ASSUME Inv, [Next]_vars
      PROVE  [(save # None /\ save' = None /\ save.phase = "refused" /\ save.owner = "editor"
                 /\ ~save.touched)
               => \A c \in DOMAIN save.drivers \union DOMAIN save.amounts :
                    LET x == Over(save.drivers, save.amounts)[c]
                    IN  (c \in DOMAIN edits' /\ edits'[c] = x) \/ server.num[c] = x]_vars
  <2>. SUFFICES ASSUME save # None, save' = None, save.phase = "refused",
                       save.owner = "editor", ~save.touched,
                       NEW c \in DOMAIN save.drivers \union DOMAIN save.amounts
                PROVE  LET x == Over(save.drivers, save.amounts)[c]
                       IN  (c \in DOMAIN edits' /\ edits'[c] = x) \/ server.num[c] = x
    BY <1>1
  <2>1. edits' = edits
    BY <1>1, SaveEnds
  <2>2. /\ AnswersOK /\ save.stage \in {"driver", "amount"}
        /\ InEdits(save.amounts)
        /\ save.stage = "driver" => InEdits(save.drivers)
        /\ save.stage = "amount" => Holds(server.num, save.drivers)
    BY <1>1 DEF Inv, Core, DataOK, KeptOK, StoredOK, Saves
  <2>3. CASE c \in DOMAIN save.drivers
    BY <2>1, <2>2, <2>3 DEF InEdits, Holds, Over
  <2>4. CASE c \notin DOMAIN save.drivers
    BY <2>1, <2>2, <2>4 DEF InEdits, Over
  <2>. QED  BY <2>3, <2>4
<1>. QED  BY <1>1, SpecInv, PTL DEF Spec, FailedSaveKeepsInput

\* markEdited, and the handlers of the cards: everything that changes what a
\* completion was given for takes the completion back
\* (CompletionStandsForItsNumbers).
THEOREM CompletionStands == Spec => CompletionStandsForItsNumbers
<1>1. ASSUME Inv, [Next]_vars
      PROVE  [server.done /\ server'.done
                => server'.num = server.num /\ server'.note = server.note
                     /\ server'.month = server.month]_vars
  <2>. DEFINE A == server.done /\ server'.done
                     => server'.num = server.num /\ server'.note = server.note
                          /\ server'.month = server.month
  <2>. SUFFICES A
    OBVIOUS
  <2>0. server \in Rows
    BY <1>1 DEF Inv, Core, DataOK
  <2>1. UNCHANGED server => A
    OBVIOUS
  <2>2. CASE SaveStep
    <3>1. CASE ServeSave
      BY <2>0, <3>1 DEF ServeSave, Rows
    <3>2. CASE ~ServeSave
      BY <2>1, <2>2, <3>2 DEF SaveStep, AnswerSave, DriversSaved, SaveSucceeds, SaveFails
    <3>. QED  BY <3>1, <3>2
  <2>3. ASSUME NEW card \in Cards, OpStep(card) PROVE A
    <3>1. CASE ServeOp(card)
      <4>1. CASE UNCHANGED server
        BY <2>1, <4>1
      <4>2. CASE ~UNCHANGED server
        <5>1. /\ server' = Applied(server, Head(op[card].steps), op[card].arg)
              /\ op[card] \in Ops
          BY <1>1, <3>1, <4>2 DEF ServeOp, Inv, Core, DataOK
        <5>2. op[card].steps \in StepLists /\ op[card].arg \in Texts
          BY <5>1 DEF Ops
        <5>3. Head(op[card].steps) \in {"note", "complete", "uncomplete", "month"}
          BY <5>2, StepListsAre
        <5>. DEFINE step == Head(op[card].steps)
                    arg == op[card].arg
        <5>4. /\ server' = Applied(server, step, arg) /\ arg \in Texts
              /\ step \in {"note", "complete", "uncomplete", "month"}
          BY <5>1, <5>2, <5>3
        <5>. HIDE DEF step, arg
        <5>. QED  BY <2>0, <5>4, AppliedIs
      <4>. QED  BY <4>1, <4>2
    <3>2. CASE ~ServeOp(card)
      BY <2>1, <2>3, <3>2 DEF OpStep, AnswerOp, OpArrives
    <3>. QED  BY <3>1, <3>2
  <2>4. CASE LockVersion
    BY <2>0, <2>4 DEF LockVersion, Rows
  <2>5. ASSUME NEW i \in 1..MaxLoads, LoadStep(i) PROVE A
    BY <2>1, <2>5 DEF LoadStep, ServeLoad, LoadArrives, LoadFails
  <2>6. CASE TrialStep \/ PageStep \/ UNCHANGED vars
    BY <2>1, <2>6 DEF TrialStep, TimerFires, ServeTrial, TrialArrives, PageStep,
                      ActivityArrives, vars
  <2>7. CASE Input
    BY <2>1, <2>7
       DEF Input, Enter, Mark, Undo, Redo, Discard, KeepRest, StartSave, Write, ChangeMonth,
           SaveNote, Complete, Uncomplete, Request, MoveDriver, ChangeActivity, ClosePage, OpenPage
  <2>. HIDE DEF A
  <2>. QED  BY <1>1, <2>2, <2>3, <2>4, <2>5, <2>6, <2>7 DEF Next
<1>. QED  BY <1>1, SpecInv, PTL DEF Spec, CompletionStandsForItsNumbers
=============================================================================
