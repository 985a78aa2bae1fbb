---------------------------- MODULE ValuesEditor ----------------------------
(***************************************************************************)
(* The page of one activity where the numbers of one version are entered:  *)
(* web/src/pages/scenarios/ValuesPage.tsx inside ActivityDetailPage.tsx,   *)
(* with NoteCard.tsx, RecognitionCard.tsx and lib/useApi.ts, and the       *)
(* handlers of api/internal/scenario they call.  Every request is sent,    *)
(* applied, answered and received in separate steps, so that answers       *)
(* overtake one another; a request may be refused, and its answer lost     *)
(* after it was applied.                                                   *)
(*                                                                         *)
(* A cell holds a number with its provisional mark, one member of Values.  *)
(* The lines with a formula are abstracted to the driver values they are   *)
(* computed from.  Left out: layout, the order of the drivers, the added   *)
(* rows, the reason (a field of the save bar), the compared versions.      *)
(***************************************************************************)
EXTENDS Naturals, Sequences, Functions

CONSTANTS
  Drivers, Amounts,  \* the cells of the two grids that may be entered
  Values,            \* what a cell holds
  Texts,             \* explanations, and recognition months
  None,              \* no data, or nothing under way
  HistoryMax,        \* 100 in the code: the steps that can be undone
  MaxLoads,          \* bound: readings under way at once
  MaxInputs          \* bound: things the user and FP&A start

Cells == Drivers \union Amounts
Cards == {"note", "wip"}

\* Some of the cells with what they hold; the rows of the server; requests.
Partial(S) == UNION {[D -> Values] : D \in SUBSET S}
Rows == [num : [Cells -> Values], note : Texts, month : Texts, done : BOOLEAN, locked : BOOLEAN]
Phases == {"sent", "applied", "answered", "refused"}
Owners == {"editor", "panel", "none"}
Loads == [phase : Phases, answer : Rows \union {None}]
Saves == [phase : Phases, answer : Rows \union {None}, owner : Owners,
          drivers : Partial(Cells), amounts : Partial(Cells),
          stage : {"driver", "amount"}, touched : BOOLEAN]
StepLists == {<<"note">>, <<"note", "complete">>, <<"complete">>, <<"uncomplete">>, <<"month">>}
Ops == [phase : Phases, answer : Rows \union {None}, owner : Owners, steps : StepLists, arg : Texts]

\* Absence is no text, no row and no request.
ASSUME NoneAssumption == None \notin Texts \union Rows \union Loads \union Saves \union Ops
ASSUME DataAssumption == Values # {} /\ Texts # {}
ASSUME BoundsAssumption == HistoryMax \in Nat \ {0} /\ MaxLoads \in Nat \ {0} /\ MaxInputs \in Nat

VARIABLES
  server,   \* the rows of the activity in the version
  page,     \* ActivityDetailPage: "open", "reloading", or "closed" (left, or an error)
  data,     \* useApi: the last view received
  error,    \* useApi: the last reading failed
  loads,    \* useApi: readings under way
  edits,    \* entered cells that are not saved
  past, future,  \* undo and redo
  preview,  \* the last trial calculation received
  trial,    \* the trial calculation under way
  save,     \* the saving under way
  draft,    \* NoteCard: the explanation being written
  op,       \* the request of NoteCard and of RecognitionCard
  mixed,    \* history: requests overlapped, or an answer was lost
  inputs    \* history: things they started

client == <<page, data, error, edits, past, future, draft, preview>>
vars == <<server, page, data, error, loads, edits, past, future, preview,
          trial, save, draft, op, mixed, inputs>>

\* new where it says something, old elsewhere.
Over(new, old) ==
  [c \in DOMAIN new \union DOMAIN old |-> IF c \in DOMAIN new THEN new[c] ELSE old[c]]

Reading == [phase |-> "sent", answer |-> None]
Trial(payload) == [phase |-> "sent", answer |-> None, payload |-> payload, waits |-> TRUE]
Saving(drivers, amounts, stage) ==
  [phase |-> "sent", answer |-> None, owner |-> "editor", drivers |-> drivers,
   amounts |-> amounts, stage |-> stage, touched |-> FALSE]
UnderWay == {r \in {save} \union Range(loads) \union Range(op) : r # None}

\* ValuesPanel shows the editor only with data and without an error.
Mounted == page # "closed" /\ data # None /\ ~error
Editable == Mounted /\ ~data.locked

\* isChanged, and what the grid shows for a cell.
Changed(v, e) == {c \in DOMAIN e : e[c] # v.num[c]}
Shown(c) == IF c \in DOMAIN edits THEN edits[c] ELSE data.num[c]
Dirty == Mounted /\ Changed(data, edits) # {}

\* driverPayload: the changed driver values, sent for a trial calculation.
Payload(v, e) == Restrict(e, Changed(v, e) \intersect Drivers)
ActivePreview ==
  LET now == Payload(data, edits)
  IN  IF now # <<>> /\ preview # None /\ preview.payload = now THEN preview ELSE None
Previewing == Editable /\ Payload(data, edits) # <<>> /\ ActivePreview = None

Init ==
  /\ server = [num |-> [c \in Cells |-> CHOOSE v \in Values : TRUE],
               note |-> CHOOSE t \in Texts : TRUE, month |-> CHOOSE t \in Texts : TRUE,
               done |-> FALSE, locked |-> FALSE]
  /\ page = "open" /\ data = None /\ error = FALSE
  /\ loads = [i \in 1..MaxLoads |-> IF i = 1 THEN Reading ELSE None]
  /\ edits = <<>> /\ past = <<>> /\ future = <<>>
  /\ preview = None /\ trial = None /\ save = None
  /\ draft = None /\ op = [c \in Cards |-> None]
  /\ mixed = FALSE /\ inputs = 0

-----------------------------------------------------------------------------
\* Mutant: a trial calculation under way is not cancelled.
RestartTrialMutant ==
  LET now == Payload(data', edits')
  IN  trial' = IF ~Editable' \/ now = <<>> THEN None
               ELSE IF trial # None THEN trial
               ELSE Trial(now)

\* The effect of the editor on driverPayload: a changed payload cancels the
\* trial calculation under way and starts the timer of the next one.
RestartTrial ==
  LET now == Payload(data', edits')
  IN  trial' = IF ~Editable' \/ now = <<>> THEN None
               ELSE IF Editable /\ now = Payload(data, edits) THEN trial
               ELSE Trial(now)

\* setData, and a reading that arrives: NoteCard takes over the new note.
SetData(v) == data' = v /\ error' = FALSE /\ draft' = v.note

\* The editor goes away with everything in it; what it sent goes on.
Orphan(owner) ==
  /\ save' = IF save = None THEN None ELSE [save EXCEPT !.owner = owner]
  /\ op' = [c \in Cards |-> IF op[c] = None THEN None ELSE [op[c] EXCEPT !.owner = owner]]
ClearEditor ==
  edits' = <<>> /\ past' = <<>> /\ future' = <<>> /\ preview' = None /\ draft' = None

Starts == inputs < MaxInputs /\ inputs' = inputs + 1
Overlaps == mixed' = (mixed \/ UnderWay # {})
FreeSlots == {i \in 1..MaxLoads : loads[i] = None}
StartLoad(i) == i \in FreeSlots /\ loads' = [loads EXCEPT ![i] = Reading]

-----------------------------------------------------------------------------
\* The grids.

Touch == save' = IF save = None THEN None ELSE [save EXCEPT !.touched = TRUE]
KeepRest == UNCHANGED <<server, page, data, error, loads, preview, draft, op, mixed>>

\* setValues: what is typed, pasted, filled or carried over is one step of the history.
Enter(entries) ==
  /\ Editable /\ Starts
  /\ edits' = Over(entries, edits)
  /\ past' = Append(SubSeq(past, IF Len(past) < HistoryMax THEN 1 ELSE 2, Len(past)), edits)
  /\ future' = <<>>
  /\ Touch /\ KeepRest

\* update: the provisional mark of the selected cell, outside the history.
Mark(c, x) ==
  /\ Editable /\ Starts
  /\ edits' = Over([d \in {c} |-> x], edits)
  /\ Touch /\ KeepRest /\ UNCHANGED <<past, future>>

Undo ==
  /\ Mounted /\ past # <<>>
  /\ edits' = past[Len(past)]
  /\ past' = SubSeq(past, 1, Len(past) - 1)
  /\ future' = Append(future, edits)
  /\ Touch /\ KeepRest /\ UNCHANGED inputs

Redo ==
  /\ Mounted /\ future # <<>>
  /\ edits' = future[Len(future)]
  /\ future' = SubSeq(future, 1, Len(future) - 1)
  /\ past' = Append(past, edits)
  /\ Touch /\ KeepRest /\ UNCHANGED inputs

Discard ==
  /\ Editable /\ Dirty /\ save = None
  /\ edits' = <<>> /\ past' = <<>> /\ future' = <<>>
  /\ KeepRest /\ UNCHANGED <<save, inputs>>

-----------------------------------------------------------------------------
\* The trial calculation (putDriverValues with dry_run).

TimerFires ==
  /\ trial # None /\ trial.waits
  /\ trial' = [trial EXCEPT !.waits = FALSE]
  /\ UNCHANGED <<server, client, loads, save, op, mixed, inputs>>

ServeTrial ==
  /\ trial # None /\ ~trial.waits /\ trial.phase = "sent"
  /\ \/ ~server.locked /\ trial' = [trial EXCEPT !.phase = "answered",
            !.answer = Restrict(Over(trial.payload, server.num), Drivers)]
     \/ trial' = [trial EXCEPT !.phase = "refused"]
  /\ UNCHANGED <<server, client, loads, save, op, mixed, inputs>>

\* Mutant: a refused trial calculation is forgotten.
TrialArrivesMutant ==
  /\ trial # None /\ trial.phase \in {"answered", "refused"}
  /\ preview' = IF trial.phase = "refused" THEN preview
                ELSE [payload |-> trial.payload, cells |-> trial.answer]
  /\ trial' = None
  /\ UNCHANGED <<server, page, data, error, loads, edits, past, future, save, draft,
                 op, mixed, inputs>>

TrialArrives ==
  /\ trial # None /\ trial.phase \in {"answered", "refused"}
  /\ preview' = [payload |-> trial.payload, cells |-> trial.answer]
  /\ trial' = None
  /\ UNCHANGED <<server, page, data, error, loads, edits, past, future, save, draft,
                 op, mixed, inputs>>

-----------------------------------------------------------------------------
\* Saving: the driver values first, then the amounts.

\* Mutant: amounts and driver values go into one request, that of the amounts.
StartSaveMutant ==
  /\ Editable /\ Dirty /\ save = None /\ Starts /\ Overlaps
  /\ LET changed == Changed(data, edits)
     IN  save' = Saving(Restrict(edits, changed \intersect Drivers),
                        Restrict(edits, changed \ Drivers), "amount")
  /\ UNCHANGED <<server, client, loads, op>>

StartSave ==
  /\ Editable /\ Dirty /\ save = None /\ Starts /\ Overlaps
  /\ LET changed == Changed(data, edits)
         drivers == Restrict(edits, changed \intersect Drivers)
     IN  save' = Saving(drivers, Restrict(edits, changed \ Drivers),
                        IF drivers = <<>> THEN "amount" ELSE "driver")
  /\ UNCHANGED <<server, client, loads, op>>

\* putDriverValues and putAmounts: editTx takes back the completion.
ServeSave ==
  /\ save # None /\ save.phase = "sent"
  /\ \/ /\ ~server.locked
        /\ server' = [server EXCEPT !.done = FALSE,
             !.num = Over(IF save.stage = "driver" THEN save.drivers ELSE save.amounts, @)]
        /\ save' = [save EXCEPT !.phase = "applied"]
     \/ save' = [save EXCEPT !.phase = "refused"] /\ UNCHANGED server
  /\ UNCHANGED <<client, loads, op, mixed, inputs>>

\* respondValues reads the view after the commit; or the connection breaks.
AnswerSave ==
  /\ save # None /\ save.phase = "applied"
  /\ \/ save' = [save EXCEPT !.phase = "answered", !.answer = server] /\ UNCHANGED mixed
     \/ save' = [save EXCEPT !.phase = "refused"] /\ mixed' = TRUE
  /\ UNCHANGED <<server, client, loads, op, inputs>>

\* Mutant: the first answer already empties the edits.
DriversSavedMutant ==
  /\ save # None /\ save.phase = "answered" /\ save.stage = "driver" /\ save.amounts # <<>>
  /\ edits' = IF save.owner = "editor" THEN <<>> ELSE edits
  /\ save' = [save EXCEPT !.stage = "amount", !.phase = "sent", !.answer = None]
  /\ UNCHANGED <<server, page, data, error, loads, past, future, draft, preview, op,
                 mixed, inputs>>

\* The first request is answered: what it stored is no longer an edit.
DriversSaved ==
  /\ save # None /\ save.phase = "answered" /\ save.stage = "driver" /\ save.amounts # <<>>
  /\ edits' = IF save.owner = "editor" THEN Restrict(edits, DOMAIN edits \ DOMAIN save.drivers)
              ELSE edits
  /\ save' = [save EXCEPT !.stage = "amount", !.phase = "sent", !.answer = None]
  /\ UNCHANGED <<server, page, data, error, loads, past, future, draft, preview, op,
                 mixed, inputs>>

\* Mutant: the view in the answer is not taken over.
SaveSucceedsMutant ==
  /\ save # None /\ save.phase = "answered" /\ (save.stage = "amount" \/ save.amounts = <<>>)
  /\ IF save.owner = "editor" THEN edits' = <<>> /\ past' = <<>> /\ future' = <<>>
     ELSE UNCHANGED <<edits, past, future>>
  /\ save' = None
  /\ UNCHANGED <<server, page, data, error, draft, loads, preview, op, mixed, inputs>>

LastStage == save.stage = "amount" \/ save.amounts = <<>>
SaveSucceeds ==
  /\ save # None /\ save.phase = "answered" /\ LastStage
  /\ IF save.owner = "none" THEN UNCHANGED <<data, error, draft>> ELSE SetData(save.answer)
  /\ IF save.owner = "editor" THEN edits' = <<>> /\ past' = <<>> /\ future' = <<>>
     ELSE UNCHANGED <<edits, past, future>>
  /\ save' = None
  /\ UNCHANGED <<server, page, loads, preview, op, mixed, inputs>>

\* The edits stay; after the second request failed the view is read again.
SaveFails ==
  /\ save # None /\ save.phase = "refused"
  /\ IF save.stage = "amount" /\ save.owner # "none"
     THEN \E i \in FreeSlots : StartLoad(i)
     ELSE UNCHANGED loads
  /\ save' = None
  /\ UNCHANGED <<server, client, op, mixed, inputs>>

-----------------------------------------------------------------------------
\* NoteCard and RecognitionCard.

Write(text) ==
  /\ Editable /\ op["note"] = None /\ Starts /\ text # draft
  /\ draft' = text
  /\ UNCHANGED <<server, page, data, error, loads, edits, past, future, preview, save,
                 op, mixed>>

Request(card, steps, arg) ==
  /\ Editable /\ op[card] = None /\ Starts
  /\ op' = [op EXCEPT ![card] = [phase |-> "sent", answer |-> None, owner |-> "editor",
                                 steps |-> steps, arg |-> arg]]
  /\ Overlaps
  /\ UNCHANGED <<server, client, loads, save>>

NoteChanged == draft # data.note
SaveNote == Editable /\ NoteChanged /\ Request("note", <<"note">>, draft)
Complete ==
  /\ Editable /\ ~Dirty /\ ~data.done
  /\ Request("note", IF NoteChanged THEN <<"note", "complete">> ELSE <<"complete">>, draft)
Uncomplete == Editable /\ data.done /\ Request("note", <<"uncomplete">>, draft)
ChangeMonth(month) ==
  Editable /\ ~Dirty /\ month # data.month /\ Request("wip", <<"month">>, month)

\* Mutant: a new month leaves the completion.
AppliedMutant(s, step, arg) ==
  CASE step = "note" -> IF s.note = arg THEN s ELSE [s EXCEPT !.note = arg, !.done = FALSE]
    [] step = "complete" -> [s EXCEPT !.done = TRUE]
    [] step = "uncomplete" -> [s EXCEPT !.done = FALSE]
    [] step = "month" -> [s EXCEPT !.month = arg]

\* putNote, setCompleted and putRecognition.
Applied(s, step, arg) ==
  CASE step = "note" -> IF s.note = arg THEN s ELSE [s EXCEPT !.note = arg, !.done = FALSE]
    [] step = "complete" -> [s EXCEPT !.done = TRUE]
    [] step = "uncomplete" -> [s EXCEPT !.done = FALSE]
    [] step = "month" -> [s EXCEPT !.month = arg, !.done = FALSE]

ServeOp(card) ==
  /\ op[card] # None /\ op[card].phase = "sent"
  /\ \/ /\ ~server.locked
        /\ server' = Applied(server, Head(op[card].steps), op[card].arg)
        /\ op' = [op EXCEPT ![card].phase = "applied"]
     \/ op' = [op EXCEPT ![card].phase = "refused"] /\ UNCHANGED server
  /\ UNCHANGED <<client, loads, save, mixed, inputs>>

AnswerOp(card) ==
  /\ op[card] # None /\ op[card].phase = "applied"
  /\ \/ /\ op' = [op EXCEPT ![card].phase = "answered", ![card].answer = server]
        /\ UNCHANGED mixed
     \/ op' = [op EXCEPT ![card].phase = "refused"] /\ mixed' = TRUE
  /\ UNCHANGED <<server, client, loads, save, inputs>>

\* run and change: the view of the last request replaces the data; an error
\* leaves everything as it is, also what an earlier request of the two stored.
OpArrives(card) ==
  /\ op[card] # None
  /\ \/ /\ op[card].phase = "refused"
        /\ op' = [op EXCEPT ![card] = None]
        /\ UNCHANGED <<data, error, draft>>
     \/ /\ op[card].phase = "answered" /\ Len(op[card].steps) > 1
        /\ op' = [op EXCEPT ![card].steps = Tail(@), ![card].phase = "sent",
                            ![card].answer = None]
        /\ UNCHANGED <<data, error, draft>>
     \/ /\ op[card].phase = "answered" /\ Len(op[card].steps) = 1
        /\ op' = [op EXCEPT ![card] = None]
        /\ IF op[card].owner = "none" THEN UNCHANGED <<data, error, draft>>
           ELSE SetData(op[card].answer)
  /\ UNCHANGED <<server, page, loads, edits, past, future, preview, save, mixed, inputs>>

-----------------------------------------------------------------------------
\* Readings (useApi) and the page around the editor.

\* moveDriver reads the view again after the order was stored.
MoveDriver ==
  /\ Mounted /\ Starts /\ Overlaps
  /\ \E i \in FreeSlots : StartLoad(i)
  /\ UNCHANGED <<server, client, save, op>>

ServeLoad(i) ==
  /\ loads[i] # None /\ loads[i].phase = "sent"
  /\ \/ loads' = [loads EXCEPT ![i].phase = "answered", ![i].answer = server]
     \/ loads' = [loads EXCEPT ![i].phase = "refused"]
  /\ UNCHANGED <<server, client, save, op, mixed, inputs>>

LoadArrives(i) ==
  /\ loads[i] # None /\ loads[i].phase = "answered"
  /\ SetData(loads[i].answer)
  /\ loads' = [loads EXCEPT ![i] = None]
  /\ UNCHANGED <<server, page, edits, past, future, preview, save, op, mixed, inputs>>

\* useApi keeps the data, but ValuesPanel shows the error in place of the editor.
LoadFails(i) ==
  /\ loads[i] # None /\ loads[i].phase = "refused"
  /\ error' = TRUE /\ ClearEditor /\ Orphan("panel")
  /\ loads' = [loads EXCEPT ![i] = None]
  /\ UNCHANGED <<server, page, data, mixed, inputs>>

\* Something of the activity (a line, a driver, a milestone, the priority) was
\* changed elsewhere on the page, which reads the activity again.
ChangeActivity ==
  /\ page = "open" /\ Starts /\ page' = "reloading"
  /\ UNCHANGED <<server, data, error, loads, edits, past, future, preview, save, draft,
                 op, mixed>>

\* The new refreshKey makes ValuesPanel read again.
ActivityArrives ==
  /\ page = "reloading" /\ page' = "open" /\ Overlaps
  /\ \E i \in FreeSlots : StartLoad(i)
  /\ UNCHANGED <<server, data, error, edits, past, future, preview, save, draft, op, inputs>>

\* The page is replaced by the error, or left through a link.
ClosePage ==
  /\ \/ page = "reloading" /\ UNCHANGED inputs
     \/ page = "open" /\ Starts
  /\ page' = "closed" /\ data' = None /\ error' = FALSE /\ ClearEditor /\ Orphan("none")
  /\ loads' = [i \in 1..MaxLoads |-> None]
  /\ UNCHANGED <<server, mixed>>

OpenPage ==
  /\ page = "closed" /\ Starts /\ page' = "open" /\ Overlaps
  /\ loads' = [loads EXCEPT ![1] = Reading]
  /\ UNCHANGED <<server, data, error, edits, past, future, preview, save, draft, op>>

\* FP&A locks the version.
LockVersion ==
  /\ ~server.locked /\ Starts
  /\ server' = [server EXCEPT !.locked = TRUE]
  /\ UNCHANGED <<client, loads, trial, save, op, mixed>>

-----------------------------------------------------------------------------
Input ==
  \/ \E S \in SUBSET Cells \ {{}}, x \in Values : Enter([c \in S |-> x])
  \/ \E c \in Cells, x \in Values : Mark(c, x)
  \/ Undo \/ Redo \/ Discard \/ StartSave
  \/ \E t \in Texts : Write(t) \/ ChangeMonth(t)
  \/ SaveNote \/ Complete \/ Uncomplete
  \/ MoveDriver \/ ChangeActivity \/ ClosePage \/ OpenPage

SaveStep == (ServeSave \/ AnswerSave \/ DriversSaved \/ SaveSucceeds \/ SaveFails) /\ RestartTrial
OpStep(card) == (ServeOp(card) \/ AnswerOp(card) \/ OpArrives(card)) /\ RestartTrial
LoadStep(i) == (ServeLoad(i) \/ LoadArrives(i) \/ LoadFails(i)) /\ RestartTrial
PageStep == ActivityArrives /\ RestartTrial
TrialStep == TimerFires \/ ServeTrial \/ TrialArrives

Next ==
  \/ Input /\ RestartTrial
  \/ SaveStep \/ TrialStep \/ PageStep \/ LockVersion
  \/ \E card \in Cards : OpStep(card)
  \/ \E i \in 1..MaxLoads : LoadStep(i)

\* The browser fires its timers, and every request ends: with an answer, a
\* refusal or an error of the connection.
Fairness ==
  /\ WF_vars(SaveStep) /\ WF_vars(TrialStep) /\ WF_vars(PageStep)
  /\ \A card \in Cards : WF_vars(OpStep(card))
  /\ \A i \in 1..MaxLoads : WF_vars(LoadStep(i))
Spec == Init /\ [][Next]_vars /\ Fairness

-----------------------------------------------------------------------------
TypeOK ==
  /\ server \in Rows /\ data \in Rows \union {None} /\ error \in BOOLEAN
  /\ page \in {"open", "reloading", "closed"}
  /\ edits \in Partial(Cells) /\ Len(past) <= HistoryMax
  /\ \A e \in Range(past) \union Range(future) : e \in Partial(Cells)
  /\ trial # None => Mounted /\ trial.payload = Payload(data, edits)
  /\ (save # None /\ save.owner = "editor") => Mounted
  /\ Mounted <=> draft # None

\* A save that was answered in full stored every number that was on screen
\* when the button was pressed, whatever was typed, undone, completed or read
\* in the meantime, and while the amounts are under way the driver values are
\* already stored (save, ValuesPage.tsx).
AnsweredSaveIsStored ==
  save # None =>
    \A c \in DOMAIN save.drivers \union DOMAIN save.amounts :
      (IF c \in Drivers THEN save.stage = "amount" \/ save.phase = "answered"
       ELSE save.stage = "amount" /\ save.phase = "answered")
        => server.num[c] = Over(save.drivers, save.amounts)[c]

\* A save that fails half way loses no number: each is still an edit, or it
\* is on the server (the order of the requests and of setEdits in save).
FailedSaveKeepsInput ==
  [][(save # None /\ save' = None /\ save.phase = "refused" /\ save.owner = "editor"
        /\ ~save.touched)
      => \A c \in DOMAIN save.drivers \union DOMAIN save.amounts :
           LET x == Over(save.drivers, save.amounts)[c]
           IN  (c \in DOMAIN edits' /\ edits'[c] = x) \/ server.num[c] = x]_vars

\* When nothing is under way and no two requests ever overlapped or lost
\* their answer, the screen shows what is stored: the numbers, the month and
\* whether the activity is completed (setData after each change).
SettledScreenIsStored ==
  (Mounted /\ UnderWay = {} /\ ~mixed)
    => data.num = server.num /\ data.done = server.done /\ data.month = server.month

\* A completion stands for the numbers, the explanation and the month it was
\* given for: none of them changes under it, though the two cards and the save
\* bar send their requests independently (markEdited, member.md "note").
CompletionStandsForItsNumbers ==
  [][server.done /\ server'.done
       => server'.num = server.num /\ server'.note = server.note
            /\ server'.month = server.month]_vars

\* Once the user leaves undo and redo alone, the screen does not stay at
\* "calculating": the trial calculation of the present input arrives, fails or
\* is no longer wanted (the effect on driverPayload).
PreviewSettles == <>[][~(Undo \/ Redo)]_vars => (Previewing ~> ~Previewing)
=============================================================================
