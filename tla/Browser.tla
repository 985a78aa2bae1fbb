------------------------------ MODULE Browser ------------------------------
(***************************************************************************)
(* One tab of the browser: the session (lib/auth.tsx, api/client.ts), a    *)
(* screen of the application with one of its readings (lib/useApi.ts), the *)
(* dialogs on it (components/ConfirmDialog.tsx, ReasonDialog.tsx,          *)
(* CsvTransfer.tsx and the dialogs of the pages, see Screens), the bell of *)
(* Layout.tsx, and the API, which counts the changes it commits to what    *)
(* the reading reads.                                                      *)
(*                                                                         *)
(* Requests are sent, served and answered in steps of their own; answers   *)
(* overtake one another; a request may be refused, or its answer may be    *)
(* lost after it was served.  A reading does not affect the others of its  *)
(* screen, so a behaviour follows one, chosen at the start.  A dialog is   *)
(* modal: nothing else is done while it is open, but it may be closed      *)
(* while its request is under way.  Other users are left out: what they    *)
(* change is shown when it is read the next time.                          *)
(***************************************************************************)
EXTENDS Screens, Naturals, Sequences, FiniteSets, SequencesExt

CONSTANTS
  None,
  Users,           \* who may log in on this tab
  Roles,           \* the role of whoever logs in: "fpa_admin", or another
  ShellScreens,    \* bound: the screens on which the session is modelled
  MaxInputs,       \* bound: what the user starts, and what goes wrong
  MaxSessionInputs \* bound: the same on the screens of ShellScreens

ASSUME UsersAssumption ==
  Users # {} /\ None \notin Users /\ "unknown" \notin Users \union {None}

\* What Screens says of dialogs that ask for a reason, and of dry runs; None
\* is no operation.
ASSUME RoutesAssumption ==
  \A p \in DOMAIN routes : \A o \in DOMAIN routes[p].ops :
    LET op == routes[p].ops[o]
    IN  /\ o # None
        /\ "asks" \in op.flags => op.kind = "form" /\ "stays" \notin op.flags
        /\ "auto" \in op.flags => op.kind = "import"

VARIABLES
  screen,   \* the screen, the reading that is followed, and the role
  user,     \* AuthProvider: "unknown", None (the login page), or who is logged in
  session,  \* the API: whose session the cookie is
  bell,     \* the bar with the bell is shown
  auth,     \* requests of AuthProvider, LoginPage, ActiveScenarioProvider and the bell
  mount,    \* how often the screen has been mounted
  sel,      \* what is selected on the screen
  shown, failed, gets,  \* useApi: the data, the error, the readings under way
  server,   \* the changes committed to what is read
  told,     \* the last of them that the screen knows of
  dialog,   \* the open dialog
  confirm,  \* ConfirmDialog, which outlives its closing: whose request is under way
  calls,    \* operations under way
  raced,    \* history: answers that no order protects met on this mount
  inputs

vars == <<screen, user, session, bell, auth, mount, sel, shown, failed, gets,
          server, told, dialog, confirm, calls, raced, inputs>>
sessionVars == <<user, session, bell, auth>>
dialogVars == <<dialog, confirm>>

Sels == {0, 1}
Page == routes[screen.page]
Watch == Page.queries[screen.watch]
Shell == screen.page \in ShellScreens

\* A non-FP&A sees no more than the title of some screens.
Mounted == user \in Users /\ (Page.fpa => screen.role = "fpa_admin")
May(op) == Mounted /\ (screen.role = "fpa_admin" \/ "anyone" \in Page.ops[op].flags)
Is(op, flag) == flag \in Page.ops[op].flags
Kind(op) == Page.ops[op].kind
Touches(op) == Page.ops[op].writes \intersect Watch.tables # {}
Reloads(op) == screen.watch \in Page.ops[op].reloads

\* A reading that is read once on a screen cannot get old there.
Watched(p) ==
  {w \in DOMAIN p.queries :
     \/ p.queries[w].keyed
     \/ \E o \in DOMAIN p.ops : \/ w \in p.ops[o].reloads
                                \/ p.ops[o].writes \intersect p.queries[w].tables # {}}

\* What Screens says of operations that change what is read: they read it again,
\* or leave the screen, or all of them are answered with it.  Only a password is
\* set without any of this.
ASSUME ReloadsAssumption ==
  \A p \in DOMAIN routes : \A w \in Watched(routes[p]) :
    LET ops == routes[p].ops
        touching == {o \in DOMAIN ops :
                       ops[o].writes \intersect routes[p].queries[w].tables # {}}
    IN  \A o \in touching :
          IF "answers" \in ops[o].flags
          THEN /\ ops[o].kind = "form" /\ {"picks", "stays"} \intersect ops[o].flags = {}
               /\ \A other \in touching : "answers" \in ops[other].flags
          ELSE \/ o = "password"
               \/ w \in ops[o].reloads /\ (ops[o].kind = "form" => "stays" \notin ops[o].flags)
               \/ /\ ops[o].kind \in {"form", "ask"} /\ "leaves" \in ops[o].flags
                  /\ {"picks", "stays"} \intersect ops[o].flags = {}

\* One operation stands for all that the reading cannot tell apart, and one
\* reading for all that have the same operations around them.
Seen(p, w, op) ==
  <<p.ops[op].kind, p.ops[op].writes \intersect p.queries[w].tables # {},
    w \in p.ops[op].reloads, p.ops[op].flags>>
OpsOf(p, w) ==
  {CHOOSE op \in DOMAIN p.ops : Seen(p, w, op) = s : s \in {Seen(p, w, op) : op \in DOMAIN p.ops}}
Look(page, w) ==
  LET p == routes[page]
  IN  <<page \in ShellScreens, p.fpa, p.queries[w].keyed, p.queries[w].guarded,
        {Seen(p, w, op) : op \in DOMAIN p.ops}>>
Readings ==
  LET all == UNION {{p} \X Watched(routes[p]) : p \in DOMAIN routes}
  IN  {CHOOSE r \in all : Look(r[1], r[2]) = look : look \in {Look(r[1], r[2]) : r \in all}}

OpsAt == [r \in Readings |-> OpsOf(routes[r[1]], r[2])]
Ops == OpsAt[<<screen.page, screen.watch>>]

\* Elsewhere, whoever is not FP&A does nothing that FP&A does not do.
RolesOf(p) ==
  IF p.fpa \/ \E o \in DOMAIN p.ops : "anyone" \in p.ops[o].flags THEN Roles ELSE {"fpa_admin"}

Starts == inputs < (IF Shell THEN MaxSessionInputs ELSE MaxInputs) /\ inputs' = inputs + 1
Goes == inputs' = inputs

Get(s, m) == [sel |-> s, mount |-> m, phase |-> "sent", at |-> 0, by |-> None, closes |-> None]
Auth(kind, as) == [kind |-> kind, as |-> as, phase |-> "sent"]
MyGets == {i \in DOMAIN gets : gets[i].mount = mount}

Init ==
  /\ screen \in UNION {[page : {r[1]}, watch : {r[2]}, role : RolesOf(routes[r[1]])] : r \in Readings}
  /\ session \in (IF Shell THEN Users \union {None} ELSE {CHOOSE u \in Users : TRUE})
  /\ user = IF Shell THEN "unknown" ELSE session
  /\ bell = FALSE
  /\ auth = IF Shell THEN <<Auth("me", None)>> ELSE <<>>
  /\ mount = 1 /\ sel = 0 /\ shown = None /\ failed = FALSE
  /\ gets = IF Mounted THEN <<Get(0, 1)>> ELSE <<>>
  /\ server = 0 /\ told = 0
  /\ dialog = None /\ confirm = {} /\ calls = <<>>
  /\ raced = FALSE /\ inputs = 0

-----------------------------------------------------------------------------
\* useApi.

\* load: no answer waits for another one, except where the effect of the
\* screen throws away what it asked for before.
Load(s, closes) ==
  /\ gets' = Append(IF Watch.guarded THEN [i \in DOMAIN gets |-> [gets[i] EXCEPT !.mount = 0]]
                    ELSE gets,
                    [Get(s, mount) EXCEPT !.closes = closes])
  /\ raced' = (raced \/ s # sel' \/ (MyGets # {} /\ ~Watch.guarded))
NoLoad == UNCHANGED <<gets, raced>>
\* reload is the load of the rendering in which the handler was made.
ReloadAfter(op, s) == IF Reloads(op) THEN Load(s, None) ELSE NoLoad

\* Everything on the screen is new.
Clear ==
  /\ mount' = mount + 1 /\ sel' = 0 /\ shown' = None /\ failed' = FALSE
  /\ dialog' = None /\ confirm' = {} /\ raced' = FALSE
\* The screen is left and entered again, or another one like it is.
Mount == Clear /\ gets' = Append(gets, Get(0, mount + 1))

\* What ActiveScenarioProvider asked for before it went away.
Orphaned(requests) ==
  [i \in DOMAIN requests |-> IF requests[i].kind = "active"
                             THEN [requests[i] EXCEPT !.kind = "poll"] ELSE requests[i]]
\* onUnauthorized: any 401, however late, shows the login page.
Unauthorized(requests) == user' = None /\ bell' = FALSE /\ auth' = Orphaned(requests) /\ Clear

\* router.tsx
navigate == Mounted /\ Starts /\ Mount /\ UNCHANGED <<screen, sessionVars, server, told, calls>>

\* Mutant: the effect of the reading forgets that the path depends on it.
SelectMutant ==
  /\ Mounted /\ dialog = None /\ Watch.keyed /\ Starts
  /\ sel' = 1 - sel /\ NoLoad
  /\ UNCHANGED <<screen, sessionVars, mount, shown, failed, server, told, dialogVars, calls>>
\* A selector of the screen changes the path of the reading.
Select ==
  /\ Mounted /\ dialog = None /\ Watch.keyed /\ Starts
  /\ sel' = 1 - sel /\ Load(1 - sel, None)
  /\ UNCHANGED <<screen, sessionVars, mount, shown, failed, server, told, dialogVars, calls>>

-----------------------------------------------------------------------------
\* Dialogs and buttons.

Call(op, dry) ==
  [op |-> op, n |-> inputs, mount |-> mount, sel |-> sel, dry |-> dry,
   input |-> IF dialog = None THEN 0 ELSE dialog.input,
   phase |-> "sent", at |-> 0, by |-> None, cancelled |-> FALSE]
Quiet == UNCHANGED <<screen, sessionVars, mount, sel, shown, failed, server, told>>

\* A dialog opens; the refresh of the actuals sends its dry run at once.
Open(op) ==
  /\ May(op) /\ dialog = None /\ Kind(op) # "direct" /\ Starts
  /\ dialog' = [op |-> op, n |-> inputs, busy |-> FALSE,
                asking |-> "no", input |-> 0, preview |-> None, done |-> FALSE,
                overtaken |-> FALSE]
  /\ calls' = IF Is(op, "auto") THEN Append(calls, Call(op, TRUE)) ELSE calls
  /\ NoLoad /\ Quiet /\ UNCHANGED confirm

Mine(c) == dialog # None /\ dialog.op = c.op /\ dialog.n = c.n
Cancelled ==
  [i \in DOMAIN calls |-> [calls[i] EXCEPT !.cancelled = @ \/ Mine(calls[i])]]
\* The request of a dialog belongs to the instance that sent it.
Sent(dry) == Append(calls, [Call(dialog.op, dry) EXCEPT !.n = dialog.n])

\* Esc or the button, even while the request is under way.  Asking for a
\* reason then ends with "no", and the handler goes on to read again.
Close ==
  /\ dialog # None /\ dialog.asking = "no" /\ dialog' = None /\ Goes /\ Quiet
  /\ UNCHANGED confirm
  /\ IF Kind(dialog.op) = "ask" /\ ~Is(dialog.op, "inside")
     THEN /\ calls' = Cancelled
          /\ IF Reloads(dialog.op) THEN Load(sel, None) ELSE NoLoad
     ELSE calls' = calls /\ NoLoad

\* withReason: no reason is given, so the form is open and idle again, even
\* if the request with the reason is under way.
CancelReason ==
  /\ dialog # None /\ dialog.asking # "no" /\ Starts
  /\ dialog' = [dialog EXCEPT !.asking = "no", !.busy = FALSE]
  /\ calls' = Cancelled
  /\ NoLoad /\ Quiet /\ UNCHANGED confirm

\* Another file, another month: the preview is thrown away.
\* Mutant: the preview is kept.
ChangeInputMutant ==
  /\ dialog # None /\ Kind(dialog.op) = "import" /\ ~Is(dialog.op, "auto")
  /\ ~dialog.done /\ Goes
  /\ dialog' = [dialog EXCEPT !.input = 1 - @,
                              !.overtaken = @ \/ dialog.busy]
  /\ NoLoad /\ Quiet /\ UNCHANGED <<confirm, calls>>
ChangeInput ==
  /\ dialog # None /\ Kind(dialog.op) = "import" /\ ~Is(dialog.op, "auto")
  /\ ~dialog.done /\ Goes
  /\ dialog' = [dialog EXCEPT !.input = 1 - @, !.preview = None,
                              !.overtaken = @ \/ dialog.busy]
  /\ NoLoad /\ Quiet /\ UNCHANGED <<confirm, calls>>

\* CycleDialog: the last month of actuals arrives and is sent from then on.
DefaultDrifts ==
  /\ dialog # None /\ Is(dialog.op, "drifts") /\ ~dialog.overtaken /\ Goes
  /\ dialog' = [dialog EXCEPT !.input = 1 - @, !.overtaken = TRUE]
  /\ NoLoad /\ Quiet /\ UNCHANGED <<confirm, calls>>

DryRun ==
  /\ dialog # None /\ Kind(dialog.op) = "import" /\ ~Is(dialog.op, "auto")
  /\ ~dialog.busy /\ ~dialog.done /\ Goes
  /\ dialog' = [dialog EXCEPT !.busy = TRUE]
  /\ calls' = Sent(TRUE)
  /\ NoLoad /\ Quiet /\ UNCHANGED confirm

\* The button that changes something.  ConfirmDialog stays disabled while
\* an earlier request of its is under way.
\* Mutant: the button of a form is not disabled.
SubmitMutant ==
  /\ dialog # None /\ Goes
  /\ IF Kind(dialog.op) = "confirm"
     THEN /\ dialog.op \notin confirm /\ dialog' = dialog
          /\ confirm' = confirm \union {dialog.op}
     ELSE /\ ~dialog.done
          /\ Kind(dialog.op) = "import" => dialog.preview # None
          /\ dialog' = [dialog EXCEPT !.busy = TRUE] /\ confirm' = confirm
  /\ calls' = Sent(FALSE)
  /\ NoLoad /\ Quiet
Submit ==
  /\ dialog # None /\ Goes
  /\ IF Kind(dialog.op) = "confirm"
     THEN /\ dialog.op \notin confirm /\ dialog' = dialog
          /\ confirm' = confirm \union {dialog.op}
     ELSE /\ ~dialog.busy /\ ~dialog.done
          /\ Kind(dialog.op) = "import" => dialog.preview # None
          /\ dialog' = [dialog EXCEPT !.busy = TRUE] /\ confirm' = confirm
  /\ calls' = Sent(FALSE)
  /\ NoLoad /\ Quiet

\* With the reason, the same request once more.
SubmitReason ==
  /\ dialog # None /\ dialog.asking = "open" /\ Goes
  /\ dialog' = [dialog EXCEPT !.asking = "busy"]
  /\ calls' = Sent(FALSE)
  /\ NoLoad /\ Quiet /\ UNCHANGED confirm

Press(op) ==
  /\ May(op) /\ dialog = None /\ Kind(op) = "direct" /\ Starts
  /\ calls' = Append(calls, Call(op, FALSE))
  /\ NoLoad /\ Quiet /\ UNCHANGED dialogVars

-----------------------------------------------------------------------------
\* The API.

Outcome(ok) == IF session = None THEN "refused" ELSE ok

ServeGet(i) ==
  /\ gets[i].phase = "sent"
  /\ \/ Goes /\ gets' = [gets EXCEPT ![i].phase = Outcome("ok"), ![i].at = server, ![i].by = session]
     \/ Starts /\ gets' = [gets EXCEPT ![i].phase = "failed"]
  /\ UNCHANGED <<screen, sessionVars, mount, sel, shown, failed, server, told,
                 dialogVars, calls, raced>>

\* A change is committed, refused with an error, asks for a reason (once), or
\* is committed and its answer lost (or only the first of its two requests).
ServeCall(i) ==
  LET c == calls[i]
      now == IF Touches(c.op) /\ ~c.dry THEN server + 1 ELSE server
  IN  /\ c.phase = "sent"
      /\ \/ /\ session # None /\ Goes /\ server' = now
            /\ calls' = [calls EXCEPT ![i].phase = "ok", ![i].at = now, ![i].by = session]
         \/ /\ session # None /\ Starts /\ server' \in {server, now}
            /\ calls' = [calls EXCEPT ![i].phase = "failed"]
         \/ /\ session # None /\ Goes /\ server' = server
            /\ Is(c.op, "asks") /\ Mine(c) /\ ~c.cancelled
            /\ dialog.asking = "no"
            /\ calls' = [calls EXCEPT ![i].phase = "reason"]
         \/ /\ session = None /\ Goes /\ server' = server
            /\ calls' = [calls EXCEPT ![i].phase = "refused"]
      /\ UNCHANGED <<screen, sessionVars, mount, sel, shown, failed, gets, told,
                     dialogVars, raced>>

-----------------------------------------------------------------------------
\* Answers.

\* Mutant: the data of an earlier mount is shown.
GetAnsweredMutant(i) ==
  LET g == gets[i]
  IN  /\ g.phase = "ok" /\ Goes /\ gets' = RemoveAt(gets, i) /\ Mounted
      /\ shown' = [at |-> g.at, sel |-> g.sel, by |-> g.by] /\ failed' = FALSE
      /\ UNCHANGED <<screen, sessionVars, mount, sel, server, told, dialogVars, calls, raced>>

\* A reading that ends, well or not, ends the request of ConfirmDialog that
\* waits for it, which closes, whatever row it has been opened for since.
CloseConfirm(g) ==
  IF g.closes = None THEN UNCHANGED dialogVars
  ELSE /\ confirm' = confirm \ {g.closes}
       /\ dialog' = IF dialog # None /\ dialog.op = g.closes THEN None ELSE dialog

GetAnswered(i) ==
  LET g == gets[i]
  IN  /\ g.phase = "ok" /\ Goes /\ gets' = RemoveAt(gets, i)
      /\ IF g.mount = mount
         THEN /\ shown' = [at |-> g.at, sel |-> g.sel, by |-> g.by] /\ failed' = FALSE
              /\ CloseConfirm(g)
         ELSE UNCHANGED <<shown, failed, dialogVars>>
      /\ UNCHANGED <<screen, sessionVars, mount, sel, server, told, calls, raced>>

\* The error is shown; the data stays.
GetFailed(i) ==
  LET g == gets[i]
  IN  /\ g.phase = "failed" /\ Goes /\ gets' = RemoveAt(gets, i)
      /\ IF g.mount = mount THEN failed' = TRUE /\ CloseConfirm(g)
         ELSE UNCHANGED <<failed, dialogVars>>
      /\ UNCHANGED <<screen, sessionVars, mount, sel, shown, server, told, calls, raced>>

GetRefused(i) ==
  /\ gets[i].phase = "refused" /\ Goes /\ gets' = RemoveAt(gets, i)
  /\ Unauthorized(auth)
  /\ UNCHANGED <<screen, session, server, told, calls>>

-----------------------------------------------------------------------------
Done(i) == Goes /\ calls' = RemoveAt(calls, i)
Succeeded(i, kind) ==
  /\ calls[i].phase = "ok" /\ calls[i].mount = mount /\ Kind(calls[i].op) = kind
  /\ Done(i) /\ UNCHANGED <<screen, sessionVars, server>>
\* Setting a password is left out of what the screen owes: UsersPage goes on
\* saying that there is none until it is read again.
Tells(c) == told' = IF Touches(c.op) /\ c.op # "password" /\ c.at > told THEN c.at ELSE told
\* setPending(null) closes whatever asks for a reason, for another operation
\* too, whose form then stays busy.
StopAsking ==
  dialog' = IF dialog = None THEN None
            ELSE IF Kind(dialog.op) = "ask" THEN None ELSE [dialog EXCEPT !.asking = "no"]
CloseAny(op) == dialog' = IF dialog # None /\ dialog.op = op THEN None ELSE dialog
Stay == UNCHANGED <<mount, sel, shown, failed>>

\* The page closes whatever is open in the place of this dialog, be it for
\* another row, and reads again.
FormSaved(i) ==
  LET c == calls[i]
  IN  /\ Succeeded(i, "form") /\ Stay
      /\ {"leaves", "answers", "picks", "stays"} \intersect Page.ops[c.op].flags = {}
      /\ IF c.cancelled THEN NoLoad /\ StopAsking /\ told' = told
         ELSE Tells(c) /\ CloseAny(c.op) /\ ReloadAfter(c.op, c.sel)
      /\ UNCHANGED confirm

\* PasswordDialog shows that it is done, and reads nothing.
FormStays(i) ==
  LET c == calls[i]
  IN  /\ Succeeded(i, "form") /\ Is(c.op, "stays") /\ Tells(c)
      /\ dialog' = IF Mine(c) THEN [dialog EXCEPT !.busy = FALSE, !.done = TRUE] ELSE dialog
      /\ NoLoad /\ Stay /\ UNCHANGED confirm

\* setData takes the answer for the data.
FormAnswers(i) ==
  LET c == calls[i]
  IN  /\ Succeeded(i, "form") /\ Is(c.op, "answers") /\ Tells(c) /\ CloseAny(c.op)
      /\ IF Touches(c.op)
         THEN /\ shown' = [at |-> c.at, sel |-> sel, by |-> c.by] /\ failed' = FALSE
              /\ raced' = (raced \/ MyGets # {} \/ \E j \in DOMAIN calls \ {i} : calls[j].mount = mount)
         ELSE UNCHANGED <<shown, failed, raced>>
      /\ UNCHANGED <<gets, mount, sel, confirm>>

\* The screen turns to what was made (setFy): the effect reads it, while the
\* refresh of the handler still reads what was selected before.
FormPicks(i) ==
  LET c == calls[i]
  IN  /\ c.phase = "ok" /\ ~c.dry /\ c.mount = mount /\ Is(c.op, "picks")
      /\ Done(i) /\ Tells(c) /\ CloseAny(c.op)
      /\ \E s \in (IF Watch.keyed THEN Sels ELSE {sel}) :
           /\ sel' = s
           /\ gets' = gets \o (IF s # sel THEN <<Get(s, mount)>> ELSE <<>>)
                           \o (IF Reloads(c.op) THEN <<Get(c.sel, mount)>> ELSE <<>>)
           /\ raced' = (raced \/ s # c.sel \/ MyGets # {})
      /\ UNCHANGED <<screen, sessionVars, server, mount, shown, failed, confirm>>

\* The new activity is opened, or the list after a deletion.
FormLeaves(i) ==
  /\ calls[i].phase = "ok" /\ calls[i].mount = mount /\ Is(calls[i].op, "leaves")
  /\ Done(i) /\ Mount /\ UNCHANGED <<screen, sessionVars, server, told>>

\* ConfirmDialog: onConfirm reads again before it is done.
Confirmed(i) ==
  LET c == calls[i]
  IN  /\ Succeeded(i, "confirm") /\ Tells(c) /\ Stay
      /\ IF Reloads(c.op) THEN Load(c.sel, c.op) /\ UNCHANGED dialogVars
         ELSE /\ NoLoad /\ CloseAny(c.op)
              /\ confirm' = confirm \ {c.op}

Pressed(i) ==
  LET c == calls[i]
  IN  Succeeded(i, "direct") /\ Tells(c) /\ Stay /\ ReloadAfter(c.op, c.sel) /\ UNCHANGED dialogVars

\* Who said no before gets nothing read again, unless the request does it.
Asked(i) ==
  LET c == calls[i]
  IN  /\ Succeeded(i, "ask") /\ ~Is(c.op, "leaves") /\ Stay
      /\ StopAsking
      /\ IF c.cancelled THEN NoLoad /\ UNCHANGED told
         ELSE Tells(c) /\ ReloadAfter(c.op, c.sel)
      /\ UNCHANGED confirm

\* 「内容を確認」
Previewed(i) ==
  LET c == calls[i]
  IN  /\ Succeeded(i, "import") /\ c.dry
      /\ dialog' = IF Mine(c) THEN [dialog EXCEPT !.preview = c.input, !.busy = FALSE] ELSE dialog
      /\ NoLoad /\ Stay /\ UNCHANGED <<told, confirm>>

\* 「取り込む」
Imported(i) ==
  LET c == calls[i]
  IN  /\ Succeeded(i, "import") /\ ~c.dry /\ ~Is(c.op, "picks") /\ Tells(c)
      /\ dialog' = IF Mine(c) THEN [dialog EXCEPT !.busy = FALSE, !.done = TRUE] ELSE dialog
      /\ Stay /\ ReloadAfter(c.op, c.sel) /\ UNCHANGED confirm

\* 422: a reason is needed.
ReasonNeeded(i) ==
  /\ calls[i].phase = "reason" /\ Done(i)
  /\ dialog' = IF Mine(calls[i]) THEN [dialog EXCEPT !.asking = "open"] ELSE dialog
  /\ NoLoad /\ Quiet /\ UNCHANGED confirm

\* The error is shown where the operation was started (its text is left out);
\* a preview is thrown away; some read again all the same.
CallFailed(i) ==
  LET c == calls[i]
  IN  /\ c.phase = "failed" /\ c.mount = mount /\ Done(i)
      /\ dialog' = IF ~Mine(c) \/ c.cancelled THEN dialog
                   ELSE [dialog EXCEPT !.busy = dialog.asking # "no",
                           !.asking = IF @ = "busy" THEN "open" ELSE @,
                           !.preview = IF Is(c.op, "auto") THEN @ ELSE None]
      /\ confirm' = confirm \ {c.op}
      /\ UNCHANGED <<screen, sessionVars, mount, sel, shown, failed, server, told>>
      /\ IF Is(c.op, "retries") THEN ReloadAfter(c.op, c.sel) ELSE NoLoad

\* The answer finds its screen gone: only a 401 still counts.
CallForgotten(i) ==
  /\ calls[i].phase \in {"ok", "failed", "reason"} /\ calls[i].mount # mount /\ Done(i)
  /\ NoLoad /\ Quiet /\ UNCHANGED dialogVars
CallRefused(i) ==
  /\ calls[i].phase = "refused" /\ Done(i) /\ Unauthorized(auth)
  /\ UNCHANGED <<screen, session, gets, server, told>>

-----------------------------------------------------------------------------
\* The session.

Elsewhere == UNCHANGED <<screen, mount, sel, shown, failed, gets, server, told, dialogVars, calls, raced>>
Asking(kind) == \E i \in DOMAIN auth : auth[i].kind = kind

\* PasswordForm, one request at a time.
login(u) ==
  /\ Shell /\ user = None /\ ~Asking("login") /\ Starts
  /\ auth' = Append(auth, Auth("login", u))
  /\ UNCHANGED <<user, session, bell>> /\ Elsewhere
logout ==
  /\ Shell /\ user \in Users /\ Starts
  /\ auth' = Append(auth, Auth("logout", None))
  /\ UNCHANGED <<user, session, bell>> /\ Elsewhere
\* The session times out, or is ended by an administrator.
Expire ==
  /\ Shell /\ session # None /\ Starts /\ session' = None
  /\ UNCHANGED <<user, bell, auth>> /\ Elsewhere

\* Every minute; a poll is answered before the next one is due.
\* Mutant: the bell does not poll.
PollMutant == FALSE /\ UNCHANGED vars
Poll ==
  /\ bell /\ ~Asking("poll") /\ Goes
  /\ auth' = Append(auth, Auth("poll", None))
  /\ UNCHANGED <<user, session, bell>> /\ Elsewhere

ServeAuth(i) ==
  LET r == auth[i]
  IN  /\ r.phase = "sent"
      /\ \/ /\ r.kind = "login" /\ session' = r.as /\ Goes
            /\ auth' = [auth EXCEPT ![i].phase = "ok"]
         \/ /\ r.kind = "logout" /\ session' = None /\ Goes
            /\ auth' = [auth EXCEPT ![i].phase = "ok"]
         \/ /\ r.kind \in {"me", "active", "poll"} /\ session' = session /\ Goes
            /\ auth' = [auth EXCEPT ![i].phase = Outcome("ok"), ![i].as = session]
         \/ /\ session' \in {session} \union (IF r.kind = "login" THEN {r.as} ELSE {})
                                     \union (IF r.kind = "logout" THEN {None} ELSE {})
            /\ Starts /\ auth' = [auth EXCEPT ![i].phase = "failed"]
      /\ UNCHANGED <<user, bell>> /\ Elsewhere

\* setUser: the screen and the bar are mounted; the bar waits for the versions.
Enter(i) ==
  /\ auth[i].kind \in {"me", "login"} /\ auth[i].phase = "ok" /\ Goes
  /\ user' = auth[i].as /\ bell' = FALSE
  /\ auth' = Append(RemoveAt(auth, i), Auth("active", None))
  /\ Mount /\ UNCHANGED <<screen, session, server, told, calls>>

\* Not logged in, or nobody knows: the login page.
Leave(i) ==
  /\ \/ auth[i].kind = "me" /\ auth[i].phase = "failed"
     \/ auth[i].kind = "logout" /\ auth[i].phase = "ok"
     \/ auth[i].phase = "refused"
  /\ Goes /\ Unauthorized(RemoveAt(auth, i))
  /\ UNCHANGED <<screen, session, gets, server, told, calls>>

\* The bar, with the bell, appears with the versions or without them.
BarShown(i) ==
  /\ auth[i].kind = "active" /\ auth[i].phase \in {"ok", "failed"} /\ Goes
  /\ bell' = TRUE /\ auth' = RemoveAt(auth, i)
  /\ UNCHANGED <<user, session>> /\ Elsewhere
AuthEnds(i) ==
  /\ \/ auth[i].kind = "poll" /\ auth[i].phase \in {"ok", "failed"}
     \/ auth[i].kind \in {"login", "logout"} /\ auth[i].phase = "failed"
  /\ Goes /\ auth' = RemoveAt(auth, i)
  /\ UNCHANGED <<user, session, bell>> /\ Elsewhere

-----------------------------------------------------------------------------
User ==
  \/ navigate \/ Select \/ Close \/ CancelReason \/ ChangeInput \/ DefaultDrifts
  \/ DryRun \/ Submit \/ SubmitReason \/ logout \/ Expire
  \/ \E op \in Ops : Open(op) \/ Press(op)
  \/ \E u \in Users : login(u)
Network ==
  \/ \E i \in DOMAIN gets : ServeGet(i) \/ GetAnswered(i) \/ GetFailed(i) \/ GetRefused(i)
  \/ \E i \in DOMAIN calls :
       \/ ServeCall(i) \/ FormSaved(i) \/ FormStays(i) \/ FormAnswers(i) \/ FormPicks(i)
       \/ FormLeaves(i) \/ Confirmed(i) \/ Pressed(i) \/ Asked(i) \/ Previewed(i)
       \/ Imported(i) \/ ReasonNeeded(i) \/ CallFailed(i) \/ CallForgotten(i) \/ CallRefused(i)
  \/ \E i \in DOMAIN auth : ServeAuth(i) \/ Enter(i) \/ Leave(i) \/ BarShown(i) \/ AuthEnds(i)

Next == User \/ Poll \/ Network

\* Every request ends (a lost one with an error), and the timer of the bell
\* runs.  Nothing is assumed of the user.
Spec == Init /\ [][Next]_vars /\ WF_vars(Network) /\ WF_vars(Poll)
-----------------------------------------------------------------------------
\* Properties.

Pending(n) == {i \in DOMAIN calls : calls[i].n = n /\ calls[i].phase # "reason"}

\* The state is well formed, and an open dialog that is not a ConfirmDialog
\* never has two requests under way that may both change something, however
\* often it is answered with a question (busy in ConfirmDialog, ReasonDialog
\* and the dialogs of the pages), unless the question was cancelled.
TypeOK ==
  /\ user \in Users \union {None, "unknown"} /\ session \in Users \union {None}
  /\ bell \in BOOLEAN /\ failed \in BOOLEAN /\ raced \in BOOLEAN
  /\ sel \in Sels /\ told \in 0..server
  /\ bell => user \in Users
  /\ dialog # None => /\ user \in Users
                      /\ Cardinality({i \in Pending(dialog.n) : ~calls[i].cancelled}) <= 1

\* Once nothing is under way, a screen shows what is selected on it, and
\* nothing older than the last change that it was told of (the reloads of the
\* pages and useApi), if no reading was under way when another was sent.
SettledScreenIsFresh ==
  ( /\ Mounted /\ shown # None /\ MyGets = {} /\ ~failed /\ ~raced
    /\ \A i \in DOMAIN calls : calls[i].mount # mount )
    => /\ shown.at >= told
       /\ Watch.keyed => shown.sel = sel

\* What is imported for good is what the last dry run counted (the preview of
\* CsvImportDialog, CycleDialog and ReallocateDialog), unless the file, or the
\* default of the month, was replaced while that dry run was under way.
ImportedWasPreviewed ==
  [][\A i \in DOMAIN calls' \ DOMAIN calls :
       (Kind(calls'[i].op) = "import" /\ ~calls'[i].dry)
         => dialog.preview = calls'[i].input \/ dialog.overtaken]_vars

\* Nobody sees what was read with the session of somebody else, whoever logs
\* out and in while readings are under way (AuthProvider unmounts the screen).
NothingOfAnotherUser == shown # None => shown.by = user

\* Whose session has ended is led to the login page in the end, even if he
\* does nothing: the bell polls (NotificationBell, onUnauthorized).
ExpiryIsNoticed == (user \in Users /\ session = None) ~> (user \notin Users)
=============================================================================
