---------------------------- MODULE BrowserProofs ---------------------------
(***************************************************************************)
(* Theorems about Browser, for any users, any number of inputs, and        *)
(* whatever is under way.                                                  *)
(*                                                                         *)
(* Three invariants.  The first is about whose session it is: only one     *)
(* request at a time may log somebody in, nobody logs in while somebody is *)
(* logged in, and whatever was asked for before is of an earlier mount.    *)
(* On top of it are one about the requests of the open dialog, and one     *)
(* about how new the readings are.  What a screen does comes from the      *)
(* tables of Screens, of which RoutesAssumption and ReloadsAssumption say  *)
(* all that is used.                                                       *)
(***************************************************************************)
EXTENDS Browser, SequenceTheorems, FiniteSetTheorems, TLAPS

\* The kinds of the records, for the screen that is followed.
PageOps == DOMAIN Page.ops
GetRec ==
  [sel : Sels, mount : Nat, phase : {"sent", "ok", "failed", "refused"}, at : Nat,
   by : Users \union {None}, closes : PageOps \union {None}]
CallRec ==
  [op : PageOps, n : Nat, mount : Nat, sel : Sels, dry : BOOLEAN, input : {0, 1},
   phase : {"sent", "ok", "failed", "reason", "refused"}, at : Nat,
   by : Users \union {None}, cancelled : BOOLEAN]
DialogRec ==
  [op : PageOps, n : Nat, busy : BOOLEAN, asking : {"no", "open", "busy"}, input : {0, 1},
   preview : {0, 1, None}, done : BOOLEAN, overtaken : BOOLEAN]
AuthRec ==
  [kind : {"me", "login", "logout", "active", "poll"}, as : Users \union {None},
   phase : {"sent", "ok", "failed", "refused"}]

\* A request of the screen that is mounted is one of who is logged in, and has
\* been answered with his session.
OfThisUser(r) == r.mount = mount => user \in Users /\ (r.phase = "ok" => r.by = user)
GoodGet == {g \in GetRec : g.mount <= mount /\ OfThisUser(g)}
GoodCall == {c \in CallRec : c.mount <= mount /\ c.n < inputs /\ c.at <= server /\ OfThisUser(c)}

\* Nobody knows yet who is logged in, or somebody is about to be.
Entering(r) == r.kind \in {"me", "login"}
GoodAuth ==
  {r \in AuthRec :
     /\ r.kind = "me" => user = "unknown"
     /\ r.kind = "login" => user = None /\ r.as \in Users
     /\ r.kind = "active" => user \in Users
     /\ Entering(r) /\ r.phase = "ok" => r.as \in Users /\ session \in {r.as, None}}

ScreenOK ==
  /\ <<screen.page, screen.watch>> \in Readings
  /\ mount \in Nat \ {0} /\ sel \in Sels /\ inputs \in Nat
  /\ server \in Nat /\ told \in 0..server
  /\ bell \in BOOLEAN /\ failed \in BOOLEAN /\ raced \in BOOLEAN
SessionOK ==
  /\ user \in Users \union {None, "unknown"} /\ session \in Users \union {None}
  /\ user \in Users => session \in {user, None}
  /\ bell => user \in Users
AuthOK ==
  /\ auth \in Seq(GoodAuth)
  /\ \A i, j \in DOMAIN auth : Entering(auth[i]) /\ Entering(auth[j]) => i = j
  /\ user = "unknown" => /\ \A i \in DOMAIN auth : auth[i].kind = "me"
                         /\ gets = <<>> /\ calls = <<>>
RequestsOK == gets \in Seq(GoodGet) /\ calls \in Seq(GoodCall)
ShownOK == shown # None => user \in Users /\ shown \in [at : Nat, sel : Sels, by : {user}]
DialogOK == dialog # None => user \in Users /\ dialog \in DialogRec /\ dialog.n < inputs

Inv == ScreenOK /\ SessionOK /\ AuthOK /\ RequestsOK /\ ShownOK /\ DialogOK

-----------------------------------------------------------------------------
\* Sequences of requests: one is taken out, answered, or added.
LEMMA Removed ==
  ASSUME NEW S, NEW s \in Seq(S), NEW i \in DOMAIN s
  PROVE  /\ RemoveAt(s, i) \in Seq(S) /\ Len(RemoveAt(s, i)) = Len(s) - 1
         /\ \A j \in 1..(Len(s) - 1) : RemoveAt(s, i)[j] = IF j < i THEN s[j] ELSE s[j + 1]
<1>1. i \in 1..Len(s) /\ Len(s) \in Nat
  OBVIOUS
<1>2. /\ SubSeq(s, 1, i - 1) \in Seq(S) /\ Len(SubSeq(s, 1, i - 1)) = i - 1
      /\ \A j \in 1..(i - 1) : SubSeq(s, 1, i - 1)[j] = s[j]
  BY <1>1
<1>3. /\ SubSeq(s, i + 1, Len(s)) \in Seq(S) /\ Len(SubSeq(s, i + 1, Len(s))) = Len(s) - i
      /\ \A j \in 1..(Len(s) - i) : SubSeq(s, i + 1, Len(s))[j] = s[i + j]
  BY <1>1
<1>. DEFINE a == SubSeq(s, 1, i - 1)
            b == SubSeq(s, i + 1, Len(s))
<1>4. RemoveAt(s, i) = a \o b
  BY DEF RemoveAt
<1>. HIDE DEF a, b
<1>5. a \in Seq(S) /\ b \in Seq(S) /\ Len(a) = i - 1 /\ Len(b) = Len(s) - i
  BY <1>2, <1>3 DEF a, b
<1>6. a \o b \in Seq(S) /\ Len(a \o b) = Len(s) - 1
  BY <1>1, <1>5
<1>7. ASSUME NEW j \in 1..(Len(s) - 1)
      PROVE  (a \o b)[j] = IF j < i THEN s[j] ELSE s[j + 1]
  <2>1. CASE j < i
    <3>1. (a \o b)[j] = a[j]
      BY <1>1, <1>5, <2>1
    <3>. QED  BY <1>1, <1>2, <2>1, <3>1 DEF a
  <2>2. CASE ~(j < i)
    <3>1. j - (i - 1) \in 1..(Len(s) - i)
      BY <1>1, <2>2
    <3>2. (a \o b)[j] = b[j - (i - 1)]
      BY <1>1, <1>5, <2>2
    <3>3. b[j - (i - 1)] = s[i + (j - (i - 1))]
      BY <1>3, <3>1 DEF b
    <3>4. i + (j - (i - 1)) = j + 1
      BY <1>1
    <3>. QED  BY <2>2, <3>2, <3>3, <3>4
  <2>. QED  BY <2>1, <2>2
<1>. QED  BY <1>4, <1>6, <1>7

LEMMA Widened ==
  ASSUME NEW S, NEW T, S \subseteq T, NEW s \in Seq(S)
  PROVE  s \in Seq(T)
OBVIOUS

LEMMA Replaced ==
  ASSUME NEW S, NEW s \in Seq(S), NEW i \in DOMAIN s, NEW e \in S
  PROVE  [s EXCEPT ![i] = e] \in Seq(S)
OBVIOUS

\* The table of the screen, and the operations that are followed.
LEMMA PageKnown ==
  ASSUME ScreenOK
  PROVE  /\ screen.page \in DOMAIN routes /\ screen.watch \in Watched(Page)
         /\ Ops \subseteq PageOps
<1>1. PICK p \in DOMAIN routes :
        \E w \in Watched(routes[p]) : <<screen.page, screen.watch>> = <<p, w>>
  <2>. DEFINE all == UNION {{p} \X Watched(routes[p]) : p \in DOMAIN routes}
              looks == {Look(r[1], r[2]) : r \in all}
              known == {CHOOSE r \in all : Look(r[1], r[2]) = look : look \in looks}
  <2>1. Readings = known
    BY DEF Readings
  <2>2. \A look \in looks : (CHOOSE r \in all : Look(r[1], r[2]) = look) \in all
    <3>. TAKE look \in looks
    <3>1. \E r \in all : Look(r[1], r[2]) = look
      OBVIOUS
    <3>. QED  BY <3>1
  <2>3. known \subseteq all
    <3>. HIDE DEF all
    <3>. QED  BY <2>2
  <2>4. <<screen.page, screen.watch>> \in all
    BY <2>1, <2>3 DEF ScreenOK
  <2>. QED  BY <2>4
<1>2. screen.page \in DOMAIN routes /\ screen.watch \in Watched(Page)
  BY <1>1 DEF Page
<1>3. Ops = OpsOf(Page, screen.watch)
  BY DEF ScreenOK, Ops, OpsAt, Page
<1>4. OpsOf(Page, screen.watch) \subseteq PageOps
  <2>. DEFINE seen == {Seen(Page, screen.watch, op) : op \in DOMAIN Page.ops}
  <2>1. \A s \in seen : (CHOOSE op \in DOMAIN Page.ops : Seen(Page, screen.watch, op) = s)
                          \in DOMAIN Page.ops
    <3>. TAKE s \in seen
    <3>1. \E op \in DOMAIN Page.ops : Seen(Page, screen.watch, op) = s
      OBVIOUS
    <3>. QED  BY <3>1
  <2>. QED  BY <2>1 DEF OpsOf, PageOps
<1>. QED  BY <1>2, <1>3, <1>4

-----------------------------------------------------------------------------
\* Nothing that is well formed stops being so while the counters grow.
LEMMA StillGood ==
  ASSUME Inv, screen' = screen, (mount' = mount /\ user' = user) \/ mount' = mount + 1,
         server' \in Nat, server' >= server, inputs' \in Nat, inputs' >= inputs
  PROVE  GoodGet \subseteq GoodGet' /\ GoodCall \subseteq GoodCall'
<1>1. PageOps' = PageOps /\ GetRec' = GetRec /\ CallRec' = CallRec
  BY DEF PageOps, Page, GetRec, CallRec
<1>2. mount \in Nat /\ mount' \in Nat /\ server \in Nat /\ inputs \in Nat
  BY DEF Inv, ScreenOK
<1>3. ASSUME NEW g \in GoodGet PROVE g \in GoodGet'
  <2>1. g \in GetRec /\ g.mount \in Nat /\ g.mount <= mount /\ OfThisUser(g)
    BY <1>3 DEF GoodGet, GetRec
  <2>2. g.mount <= mount' /\ OfThisUser(g)'
    BY <1>2, <2>1 DEF OfThisUser
  <2>. QED  BY <1>1, <2>1, <2>2 DEF GoodGet
<1>4. ASSUME NEW c \in GoodCall PROVE c \in GoodCall'
  <2>1. /\ c \in CallRec /\ c.mount \in Nat /\ c.n \in Nat /\ c.at \in Nat
        /\ c.mount <= mount /\ c.n < inputs /\ c.at <= server /\ OfThisUser(c)
    BY <1>4 DEF GoodCall, CallRec
  <2>2. c.mount <= mount' /\ c.n < inputs' /\ c.at <= server' /\ OfThisUser(c)'
    BY <1>2, <2>1 DEF OfThisUser
  <2>. QED  BY <1>1, <2>1, <2>2 DEF GoodCall
<1>. QED  BY <1>3, <1>4

\* A step on the screen that is mounted, with the session as it is.
Calm == UNCHANGED <<screen, user, session, bell, auth, mount>>

LEMMA CalmOK ==
  ASSUME Inv, Calm,
         sel' \in Sels, server' \in Nat, server' >= server, told' \in 0..server',
         inputs' \in Nat, inputs' >= inputs, failed' \in BOOLEAN, raced' \in BOOLEAN,
         gets' \in Seq(GoodGet'), calls' \in Seq(GoodCall'),
         user # "unknown" \/ (gets' = gets /\ calls' = calls),
         shown' = shown \/ (user \in Users /\ shown' \in [at : Nat, sel : Sels, by : {user}]),
         \/ dialog' \in {None, dialog}
         \/ user \in Users /\ dialog' \in DialogRec /\ dialog'.n < inputs'
  PROVE  Inv'
<1>. USE DEF Calm
<1>1. ScreenOK'
  BY DEF Inv, ScreenOK
<1>2. SessionOK'
  BY DEF Inv, SessionOK
<1>3. AuthOK'
  <2>1. GoodAuth' = GoodAuth
    BY DEF GoodAuth
  <2>. QED  BY <2>1 DEF Inv, AuthOK
<1>4. RequestsOK' /\ ShownOK'
  BY DEF Inv, RequestsOK, ShownOK
<1>5. DialogOK'
  <2>1. PageOps' = PageOps /\ DialogRec' = DialogRec
    BY DEF PageOps, Page, DialogRec
  <2>2. dialog # None => dialog.n \in Nat /\ dialog.n < inputs
    BY DEF Inv, DialogOK, DialogRec
  <2>3. dialog # None => dialog.n < inputs'
    BY <2>2 DEF Inv, ScreenOK
  <2>. QED  BY <2>1, <2>3 DEF Inv, DialogOK
<1>. QED  BY <1>1, <1>2, <1>3, <1>4, <1>5 DEF Inv

\* What the guards and the requests say of the user.
LEMMA Users1 == user \in Users => user # "unknown" /\ user # None
BY UsersAssumption

LEMMA Counters ==
  ASSUME Inv
  PROVE  /\ inputs \in Nat /\ server \in Nat /\ mount \in Nat /\ mount > 0 /\ told \in 0..server
         /\ sel \in Sels /\ failed \in BOOLEAN /\ raced \in BOOLEAN
         /\ (Goes => inputs' \in Nat /\ inputs' >= inputs)
         /\ (Starts => inputs' \in Nat /\ inputs' = inputs + 1)
BY DEF Inv, ScreenOK, Goes, Starts

LEMMA GetOf ==
  ASSUME Inv, NEW i \in DOMAIN gets
  PROVE  gets[i] \in GoodGet /\ user # "unknown"
BY DEF Inv, RequestsOK, AuthOK

LEMMA CallOf ==
  ASSUME Inv, NEW i \in DOMAIN calls
  PROVE  calls[i] \in GoodCall /\ user # "unknown"
BY DEF Inv, RequestsOK, AuthOK

\* load: the new reading is of this mount, the ones before it are kept, or
\* given up.
LEMMA LoadOK ==
  ASSUME Inv, Calm, server' \in Nat, server' >= server, inputs' \in Nat, inputs' >= inputs,
         user \in Users, NEW s \in Sels, NEW closes \in PageOps \union {None}, Load(s, closes)
  PROVE  gets' \in Seq(GoodGet') /\ raced' \in BOOLEAN
<1>. DEFINE new == [Get(s, mount) EXCEPT !.closes = closes]
            old == IF Watch.guarded THEN [i \in DOMAIN gets |-> [gets[i] EXCEPT !.mount = 0]]
                   ELSE gets
<1>1. gets' = Append(old, new) /\ raced' \in BOOLEAN
  BY DEF Load, Inv, ScreenOK
<1>2. new \in GoodGet
  <2>1. new \in GetRec /\ new.mount = mount /\ new.phase = "sent"
    BY Counters DEF Get, GetRec
  <2>2. mount \in Nat /\ mount <= mount
    BY Counters
  <2>. HIDE DEF new
  <2>. QED  BY <2>1, <2>2 DEF GoodGet, OfThisUser
<1>3. old \in Seq(GoodGet)
  <2>1. ASSUME NEW i \in DOMAIN gets PROVE [gets[i] EXCEPT !.mount = 0] \in GoodGet
    <3>1. gets[i] \in GetRec
      BY GetOf DEF GoodGet
    <3>. DEFINE g == [gets[i] EXCEPT !.mount = 0]
    <3>2. g \in GetRec /\ g.mount = 0
      BY <3>1 DEF GetRec
    <3>3. 0 <= mount /\ 0 # mount
      BY Counters
    <3>. HIDE DEF g
    <3>4. g \in GoodGet
      BY <3>2, <3>3 DEF GoodGet, OfThisUser
    <3>. QED  BY <3>4 DEF g
  <2>2. gets \in Seq(GoodGet) /\ DOMAIN gets = 1..Len(gets) /\ Len(gets) \in Nat
    BY DEF Inv, RequestsOK
  <2>. QED  BY <2>1, <2>2
<1>4. GoodGet \subseteq GoodGet'
  BY StillGood DEF Calm
<1>. HIDE DEF old, new
<1>5. Append(old, new) \in Seq(GoodGet)
  BY <1>2, <1>3
<1>. QED  BY <1>1, <1>4, <1>5, Widened

\* The same for what a handler does at its end.
LEMMA NoLoadOK ==
  ASSUME Inv, Calm, server' \in Nat, server' >= server, inputs' \in Nat, inputs' >= inputs, NoLoad
  PROVE  gets' \in Seq(GoodGet') /\ raced' \in BOOLEAN /\ gets' = gets
<1>1. GoodGet \subseteq GoodGet'
  BY StillGood DEF Calm
<1>. QED  BY <1>1, Widened DEF Inv, RequestsOK, ScreenOK, NoLoad

LEMMA ReloadOK ==
  ASSUME Inv, Calm, server' \in Nat, server' >= server, inputs' \in Nat, inputs' >= inputs,
         user \in Users, NEW op, NEW s \in Sels, ReloadAfter(op, s)
  PROVE  gets' \in Seq(GoodGet') /\ raced' \in BOOLEAN
BY LoadOK, NoLoadOK DEF ReloadAfter

-----------------------------------------------------------------------------
\* What the user does with dialogs and buttons.

LEMMA DialogOf ==
  ASSUME Inv, dialog # None
  PROVE  /\ user \in Users /\ user # "unknown" /\ dialog \in DialogRec /\ dialog.op \in PageOps
         /\ dialog.n \in Nat /\ dialog.n < inputs /\ dialog.input \in {0, 1}
BY UsersAssumption DEF Inv, DialogOK, DialogRec

LEMMA QuietCalm == Quiet => Calm /\ sel' = sel /\ shown' = shown /\ failed' = failed
                                 /\ server' = server /\ told' = told
BY DEF Quiet, Calm, sessionVars

LEMMA QuietOK ==
  ASSUME Inv, Quiet, inputs' \in Nat, inputs' >= inputs, user # "unknown",
         gets' \in Seq(GoodGet'), raced' \in BOOLEAN, calls' \in Seq(GoodCall'),
         \/ dialog' \in {None, dialog}
         \/ user \in Users /\ dialog' \in DialogRec /\ dialog'.n < inputs'
  PROVE  Inv'
<1>1. sel' \in Sels /\ server' \in Nat /\ server' >= server /\ told' \in 0..server' /\ failed' \in BOOLEAN
  BY Counters, QuietCalm
<1>. QED  BY <1>1, QuietCalm, CalmOK

\* The calls stay, are called off, or one is added to them.
LEMMA KeptCalls ==
  ASSUME Inv, Quiet, inputs' \in Nat, inputs' >= inputs, calls' \in {calls, Cancelled}
  PROVE  calls' \in Seq(GoodCall')
<1>1. GoodCall \subseteq GoodCall'
  BY Counters, QuietCalm, StillGood DEF Calm
<1>2. Cancelled \in Seq(GoodCall)
  <2>1. ASSUME NEW i \in DOMAIN calls
        PROVE  [calls[i] EXCEPT !.cancelled = @ \/ Mine(calls[i])] \in GoodCall
    <3>. DEFINE c == [calls[i] EXCEPT !.cancelled = @ \/ Mine(calls[i])]
    <3>1. calls[i] \in GoodCall /\ calls[i] \in CallRec
      BY CallOf DEF GoodCall
    <3>2. (calls[i].cancelled \/ Mine(calls[i])) \in BOOLEAN
      OBVIOUS
    <3>3. /\ c \in CallRec /\ c.mount = calls[i].mount /\ c.n = calls[i].n
          /\ c.at = calls[i].at /\ c.phase = calls[i].phase /\ c.by = calls[i].by
      BY <3>1, <3>2 DEF CallRec
    <3>. HIDE DEF c
    <3>4. c \in GoodCall
      BY <3>1, <3>3 DEF GoodCall, OfThisUser
    <3>. QED  BY <3>4 DEF c
  <2>2. calls \in Seq(GoodCall) /\ DOMAIN calls = 1..Len(calls) /\ Len(calls) \in Nat
    BY DEF Inv, RequestsOK
  <2>. QED  BY <2>1, <2>2 DEF Cancelled
<1>. QED  BY <1>1, <1>2, Widened DEF Inv, RequestsOK

LEMMA NewCall ==
  ASSUME Inv, Calm, user \in Users, server' \in Nat, server' >= server,
         inputs' \in Nat, inputs' >= inputs, NEW op \in PageOps, NEW dry \in BOOLEAN,
         NEW n \in Nat, n < inputs', NEW c,
         c = [Call(op, dry) EXCEPT !.n = n] \/ (c = Call(op, dry) /\ n = inputs)
  PROVE  c \in GoodCall'
<1>1. (IF dialog = None THEN 0 ELSE dialog.input) \in {0, 1}
  BY DialogOf
<1>2. mount \in Nat /\ sel \in Sels /\ server \in Nat
  BY Counters
<1>3. c \in CallRec /\ c.mount = mount /\ c.n = n /\ c.at = 0 /\ c.phase = "sent"
  <2>. DEFINE call == Call(op, dry)
  <2>1. inputs \in Nat
    BY Counters
  <2>2. /\ call \in CallRec /\ call.n = inputs /\ call.mount = mount /\ call.at = 0
        /\ call.phase = "sent"
    BY <1>1, <1>2, <2>1 DEF Call, CallRec
  <2>. HIDE DEF call
  <2>3. CASE c = call /\ n = inputs
    BY <2>2, <2>3
  <2>4. CASE c = [call EXCEPT !.n = n]
    BY <2>2, <2>4 DEF CallRec
  <2>. QED  BY <2>3, <2>4 DEF call
<1>4. CallRec' = CallRec /\ mount' = mount /\ user' = user
  BY DEF CallRec, PageOps, Page, Calm
<1>5. mount <= mount /\ 0 <= server'
  BY <1>2
<1>. QED  BY <1>3, <1>4, <1>5 DEF GoodCall, OfThisUser

LEMMA SentOK ==
  ASSUME Inv, Quiet, Goes, dialog # None, NEW dry \in BOOLEAN, calls' = Sent(dry)
  PROVE  calls' \in Seq(GoodCall')
<1>1. inputs' = inputs /\ inputs \in Nat /\ server' = server /\ server \in Nat
  BY Counters, QuietCalm DEF Goes
<1>2. [Call(dialog.op, dry) EXCEPT !.n = dialog.n] \in GoodCall'
  BY <1>1, QuietCalm, NewCall, DialogOf
<1>3. calls \in Seq(GoodCall')
  BY <1>1, StillGood, QuietCalm, Widened DEF Calm, Inv, RequestsOK
<1>. QED  BY <1>2, <1>3 DEF Sent

LEMMA AddedOK ==
  ASSUME Inv, Quiet, Starts, user \in Users, NEW op \in PageOps, NEW dry \in BOOLEAN,
         calls' = Append(calls, Call(op, dry))
  PROVE  calls' \in Seq(GoodCall')
<1>1. inputs' = inputs + 1 /\ inputs \in Nat /\ server' = server /\ server \in Nat
  BY Counters, QuietCalm
<1>2. Call(op, dry) \in GoodCall'
  BY <1>1, QuietCalm, NewCall
<1>3. calls \in Seq(GoodCall')
  BY <1>1, StillGood, QuietCalm, Widened DEF Calm, Inv, RequestsOK
<1>. QED  BY <1>2, <1>3

LEMMA OpeningOK ==
  ASSUME Inv, NEW op \in Ops, Open(op) \/ Press(op)
  PROVE  Inv'
<1>1. /\ Quiet /\ Starts /\ NoLoad /\ user \in Users /\ user # "unknown"
      /\ dialog = None /\ op \in PageOps
  BY PageKnown, Users1 DEF Inv, Open, Press, May, Mounted
<1>2. inputs' \in Nat /\ inputs' = inputs + 1 /\ inputs \in Nat
  BY <1>1, Counters
<1>3. gets' \in Seq(GoodGet') /\ raced' \in BOOLEAN
  BY <1>1, <1>2, NoLoadOK, QuietCalm, Counters
<1>4. calls' \in Seq(GoodCall')
  <2>1. calls' = calls \/ calls' = Append(calls, Call(op, TRUE)) \/ calls' = Append(calls, Call(op, FALSE))
    BY DEF Open, Press
  <2>2. CASE calls' = calls
    BY <1>1, <1>2, <2>2, KeptCalls
  <2>3. CASE calls' = Append(calls, Call(op, TRUE))
    BY <1>1, <2>3, AddedOK, TRUE \in BOOLEAN
  <2>4. CASE calls' = Append(calls, Call(op, FALSE))
    BY <1>1, <2>4, AddedOK, FALSE \in BOOLEAN
  <2>. QED  BY <2>1, <2>2, <2>3, <2>4
<1>5. dialog' = None \/ (dialog' \in DialogRec /\ dialog'.n < inputs')
  <2>1. CASE Open(op)
    <3>. DEFINE d == [op |-> op, n |-> inputs, busy |-> FALSE, asking |-> "no", input |-> 0,
                      preview |-> None, done |-> FALSE, overtaken |-> FALSE]
    <3>1. dialog' = d
      BY <2>1 DEF Open
    <3>2. d \in DialogRec /\ d.n < inputs'
      BY <1>1, <1>2 DEF DialogRec
    <3>. QED  BY <3>1, <3>2
  <2>2. CASE Press(op)
    BY <1>1, <2>2 DEF Press, dialogVars
  <2>. QED  BY <2>1, <2>2
<1>. QED  BY <1>1, <1>2, <1>3, <1>4, <1>5, QuietOK

LEMMA ClosingOK == ASSUME Inv, Close PROVE Inv'
<1>1. /\ Quiet /\ Goes /\ user \in Users /\ user # "unknown" /\ dialog' = None
      /\ inputs' = inputs /\ inputs \in Nat /\ server' = server /\ server \in Nat /\ sel \in Sels
  BY DialogOf, Counters, QuietCalm DEF Close, Goes
<1>2. calls' \in Seq(GoodCall')
  BY <1>1, KeptCalls DEF Close
<1>3. Load(sel, None) \/ NoLoad
  BY DEF Close
<1>4. gets' \in Seq(GoodGet') /\ raced' \in BOOLEAN
  BY <1>1, <1>3, LoadOK, NoLoadOK, QuietCalm
<1>. QED  BY <1>1, <1>2, <1>4, QuietOK

\* The steps inside of a dialog.
LEMMA InsideOK ==
  ASSUME Inv, CancelReason \/ ChangeInput \/ DefaultDrifts \/ DryRun \/ Submit \/ SubmitReason
  PROVE  Inv'
<1>1. /\ dialog # None /\ Quiet /\ NoLoad /\ (Goes \/ Starts)
  BY DEF CancelReason, ChangeInput, DefaultDrifts, DryRun, Submit, SubmitReason
<1>2. /\ inputs' \in Nat /\ inputs' >= inputs /\ inputs \in Nat /\ user \in Users /\ user # "unknown"
      /\ dialog \in DialogRec /\ dialog.n \in Nat /\ dialog.n < inputs'
      /\ server' = server /\ server \in Nat
  BY <1>1, DialogOf, Counters, QuietCalm
<1>3. gets' \in Seq(GoodGet') /\ raced' \in BOOLEAN
  BY <1>1, <1>2, NoLoadOK, QuietCalm
<1>4. calls' \in Seq(GoodCall')
  <2>1. CASE CancelReason \/ ChangeInput \/ DefaultDrifts
    BY <1>1, <1>2, <2>1, KeptCalls DEF CancelReason, ChangeInput, DefaultDrifts
  <2>2. CASE DryRun \/ Submit \/ SubmitReason
    BY <1>1, <2>2, SentOK DEF DryRun, Submit, SubmitReason
  <2>. QED  BY <2>1, <2>2
<1>5. 1 - dialog.input \in {0, 1} /\ (dialog.overtaken \/ dialog.busy) \in BOOLEAN
  BY <1>2 DEF DialogRec
<1>6. dialog' \in DialogRec /\ dialog'.n = dialog.n
  <2>1. CASE CancelReason
    BY <1>2, <2>1 DEF CancelReason, DialogRec
  <2>2. CASE ChangeInput
    BY <1>2, <1>5, <2>2 DEF ChangeInput, DialogRec
  <2>3. CASE DefaultDrifts
    BY <1>2, <1>5, <2>3 DEF DefaultDrifts, DialogRec
  <2>4. CASE DryRun
    BY <1>2, <2>4 DEF DryRun, DialogRec
  <2>5. CASE Submit
    BY <1>2, <2>5 DEF Submit, DialogRec
  <2>6. CASE SubmitReason
    BY <1>2, <2>6 DEF SubmitReason, DialogRec
  <2>. QED  BY <2>1, <2>2, <2>3, <2>4, <2>5, <2>6
<1>. QED  BY <1>1, <1>2, <1>3, <1>4, <1>6, QuietOK

LEMMA SelectOK == ASSUME Inv, Select PROVE Inv'
<1>1. /\ Calm /\ Starts /\ user \in Users /\ user # "unknown" /\ dialog' = dialog /\ calls' = calls
      /\ server' = server /\ shown' = shown /\ failed' = failed /\ told' = told
      /\ sel' = 1 - sel /\ Load(1 - sel, None)
  BY Users1 DEF Select, Calm, Mounted, sessionVars, dialogVars
<1>2. /\ inputs' \in Nat /\ inputs' >= inputs /\ server' \in Nat /\ server' >= server
      /\ failed' \in BOOLEAN /\ told' \in 0..server' /\ 1 - sel \in Sels
  BY <1>1, Counters DEF Sels
<1>3. gets' \in Seq(GoodGet') /\ raced' \in BOOLEAN
  BY <1>1, <1>2, LoadOK
<1>4. calls' \in Seq(GoodCall')
  BY <1>1, <1>2, StillGood, Widened DEF Calm, Inv, RequestsOK
<1>. QED  BY <1>1, <1>2, <1>3, <1>4, CalmOK

-----------------------------------------------------------------------------
\* The answers to operations.
LEMMA AnswerOK ==
  ASSUME Inv, NEW i \in DOMAIN calls, calls[i].mount = mount, Done(i), Calm, server' = server,
         sel' \in Sels, failed' \in BOOLEAN, raced' \in BOOLEAN, gets' \in Seq(GoodGet'),
         told' = told \/ Tells(calls[i]),
         shown' = shown \/ shown' \in [at : Nat, sel : Sels, by : {user}],
         \/ dialog' \in {None, dialog}
         \/ dialog # None /\ dialog' \in DialogRec /\ dialog'.n = dialog.n
  PROVE  Inv'
<1>1. /\ calls[i] \in GoodCall /\ user # "unknown" /\ user \in Users
      /\ calls[i].at \in Nat /\ calls[i].at <= server
  BY CallOf DEF GoodCall, CallRec, OfThisUser
<1>2. inputs' = inputs /\ inputs \in Nat /\ server \in Nat /\ told \in 0..server
  BY Counters DEF Done, Goes
<1>3. told' \in 0..server'
  BY <1>1, <1>2 DEF Tells
<1>4. calls' \in Seq(GoodCall')
  <2>1. calls' \in Seq(GoodCall)
    BY Removed DEF Inv, RequestsOK, Done
  <2>. QED  BY <1>2, <2>1, StillGood, Widened DEF Calm
<1>5. dialog # None => dialog.n < inputs'
  BY <1>2, DialogOf
<1>. QED  BY <1>1, <1>2, <1>3, <1>4, <1>5, CalmOK

\* Those after which the page stays as it is, apart from the readings.
LEMMA StayingOK ==
  ASSUME Inv, NEW i \in DOMAIN calls, calls[i].mount = mount, Done(i), Stay,
         UNCHANGED <<screen, sessionVars, server>>,
         told' = told \/ Tells(calls[i]),
         \/ NoLoad \/ ReloadAfter(calls[i].op, calls[i].sel)
         \/ Load(calls[i].sel, calls[i].op),
         \/ dialog' \in {None, dialog}
         \/ dialog # None /\ dialog' \in DialogRec /\ dialog'.n = dialog.n
  PROVE  Inv'
<1>1. Calm /\ server' = server /\ inputs' = inputs /\ sel' = sel /\ shown' = shown /\ failed' = failed
  BY DEF Calm, sessionVars, Stay, Done, Goes
<1>2. calls[i].op \in PageOps /\ calls[i].sel \in Sels /\ user \in Users
  BY CallOf DEF GoodCall, CallRec, OfThisUser
<1>3. sel' \in Sels /\ failed' \in BOOLEAN /\ server \in Nat /\ inputs \in Nat
  BY <1>1, Counters
<1>4. gets' \in Seq(GoodGet') /\ raced' \in BOOLEAN
  BY <1>1, <1>2, <1>3, LoadOK, NoLoadOK, ReloadOK
<1>. QED  BY <1>1, <1>3, <1>4, AnswerOK

LEMMA StopAskingOK ==
  ASSUME Inv, StopAsking
  PROVE  \/ dialog' \in {None, dialog}
         \/ dialog # None /\ dialog' \in DialogRec /\ dialog'.n = dialog.n
BY DialogOf DEF StopAsking, DialogRec

LEMMA FormsOK ==
  ASSUME Inv, NEW i \in DOMAIN calls, FormSaved(i) \/ FormStays(i)
  PROVE  Inv'
<1>1. /\ calls[i].mount = mount /\ Done(i) /\ UNCHANGED <<screen, sessionVars, server>> /\ Stay
      /\ told' = told \/ Tells(calls[i])
      /\ NoLoad \/ ReloadAfter(calls[i].op, calls[i].sel)
  BY DEF FormSaved, FormStays, Succeeded
<1>2. \/ dialog' \in {None, dialog}
      \/ dialog # None /\ dialog' \in DialogRec /\ dialog'.n = dialog.n
  <2>1. CASE FormSaved(i)
    BY <2>1, StopAskingOK DEF FormSaved, CloseAny
  <2>2. CASE FormStays(i)
    BY <2>2, DialogOf DEF FormStays, Mine, DialogRec
  <2>. QED  BY <2>1, <2>2
<1>. QED  BY <1>1, <1>2, StayingOK

LEMMA ConfirmedOK == ASSUME Inv, NEW i \in DOMAIN calls, Confirmed(i) PROVE Inv'
<1>1. /\ calls[i].mount = mount /\ Done(i) /\ UNCHANGED <<screen, sessionVars, server>> /\ Stay
      /\ Tells(calls[i]) /\ (NoLoad \/ Load(calls[i].sel, calls[i].op))
      /\ dialog' \in {None, dialog}
  BY DEF Confirmed, Succeeded, dialogVars, CloseAny
<1>. QED  BY <1>1, StayingOK

LEMMA PressedOK ==
  ASSUME Inv, NEW i \in DOMAIN calls, Pressed(i) \/ Asked(i)
  PROVE  Inv'
<1>1. /\ calls[i].mount = mount /\ Done(i) /\ UNCHANGED <<screen, sessionVars, server>> /\ Stay
      /\ told' = told \/ Tells(calls[i])
      /\ NoLoad \/ ReloadAfter(calls[i].op, calls[i].sel)
      /\ dialog' = dialog \/ StopAsking
  BY DEF Pressed, Asked, Succeeded, dialogVars
<1>. QED  BY <1>1, StayingOK, StopAskingOK

LEMMA ImportingOK ==
  ASSUME Inv, NEW i \in DOMAIN calls, Previewed(i) \/ Imported(i)
  PROVE  Inv'
<1>1. /\ calls[i].mount = mount /\ Done(i) /\ UNCHANGED <<screen, sessionVars, server>> /\ Stay
      /\ told' = told \/ Tells(calls[i])
      /\ NoLoad \/ ReloadAfter(calls[i].op, calls[i].sel)
  BY DEF Previewed, Imported, Succeeded
<1>2. calls[i].input \in {0, 1}
  BY CallOf DEF GoodCall, CallRec
<1>3. \/ dialog' \in {None, dialog}
      \/ dialog # None /\ dialog' \in DialogRec /\ dialog'.n = dialog.n
  <2>1. CASE Previewed(i)
    BY <1>2, <2>1, DialogOf DEF Previewed, Mine, DialogRec
  <2>2. CASE Imported(i)
    BY <2>2, DialogOf DEF Imported, Mine, DialogRec
  <2>. QED  BY <2>1, <2>2
<1>. QED  BY <1>1, <1>3, StayingOK

LEMMA CallFailedOK == ASSUME Inv, NEW i \in DOMAIN calls, CallFailed(i) PROVE Inv'
<1>1. /\ calls[i].mount = mount /\ Done(i) /\ UNCHANGED <<screen, sessionVars, server>> /\ Stay
      /\ told' = told
      /\ NoLoad \/ ReloadAfter(calls[i].op, calls[i].sel)
  BY DEF CallFailed, Stay
<1>2. \/ dialog' = dialog
      \/ dialog # None /\ dialog' \in DialogRec /\ dialog'.n = dialog.n
  <2>1. CASE ~Mine(calls[i]) \/ calls[i].cancelled
    BY <2>1 DEF CallFailed
  <2>2. CASE Mine(calls[i]) /\ ~calls[i].cancelled
    <3>1. dialog # None /\ dialog \in DialogRec
      BY <2>2, DialogOf DEF Mine
    <3>. DEFINE asking == IF dialog.asking = "busy" THEN "open" ELSE dialog.asking
                busy == dialog.asking # "no"
                preview == IF Is(calls[i].op, "auto") THEN dialog.preview ELSE None
                d == [dialog EXCEPT !.busy = busy, !.asking = asking, !.preview = preview]
    <3>2. dialog' = d
      BY <2>2 DEF CallFailed
    <3>3. asking \in {"no", "open", "busy"} /\ busy \in BOOLEAN /\ preview \in {0, 1, None}
      BY <3>1 DEF DialogRec
    <3>. HIDE DEF asking, busy, preview
    <3>4. d \in DialogRec /\ d.n = dialog.n
      BY <3>1, <3>3 DEF DialogRec
    <3>. QED  BY <3>1, <3>2, <3>4
  <2>. QED  BY <2>1, <2>2
<1>. QED  BY <1>1, <1>2, StayingOK

\* Whatever comes too late for the screen, or only opens the reason.
LEMMA UnheardOK ==
  ASSUME Inv, NEW i \in DOMAIN calls, ReasonNeeded(i) \/ CallForgotten(i)
  PROVE  Inv'
<1>1. Done(i) /\ NoLoad /\ Quiet /\ inputs' = inputs
  BY DEF ReasonNeeded, CallForgotten, Done, Goes
<1>2. user # "unknown" /\ inputs \in Nat /\ server \in Nat /\ server' = server
  BY <1>1, CallOf, Counters, QuietCalm
<1>3. gets' \in Seq(GoodGet') /\ raced' \in BOOLEAN
  BY <1>1, <1>2, NoLoadOK, QuietCalm
<1>4. calls' \in Seq(GoodCall')
  <2>1. calls' \in Seq(GoodCall)
    BY <1>1, Removed DEF Inv, RequestsOK, Done
  <2>. QED  BY <1>1, <1>2, <2>1, StillGood, Widened, QuietCalm DEF Calm
<1>5. \/ dialog' \in {None, dialog}
      \/ user \in Users /\ dialog' \in DialogRec /\ dialog'.n < inputs'
  <2>1. CASE ReasonNeeded(i)
    BY <1>1, <2>1, DialogOf DEF ReasonNeeded, Mine, DialogRec
  <2>2. CASE CallForgotten(i)
    BY <2>2 DEF CallForgotten, dialogVars
  <2>. QED  BY <2>1, <2>2
<1>. QED  BY <1>1, <1>2, <1>3, <1>4, <1>5, QuietOK

LEMMA FormAnswersOK == ASSUME Inv, NEW i \in DOMAIN calls, FormAnswers(i) PROVE Inv'
<1>. DEFINE c == calls[i]
<1>1. /\ c.mount = mount /\ c.phase = "ok" /\ Done(i) /\ Tells(c) /\ gets' = gets /\ sel' = sel
      /\ Calm /\ server' = server /\ inputs' = inputs /\ dialog' \in {None, dialog}
      /\ \/ shown' = [at |-> c.at, sel |-> sel, by |-> c.by] /\ failed' = FALSE
         \/ shown' = shown /\ failed' = failed
  BY DEF FormAnswers, Succeeded, Calm, sessionVars, Done, Goes, CloseAny
<1>2. raced' \in BOOLEAN
  BY Counters DEF FormAnswers
<1>3. c.at \in Nat /\ c.by = user
  BY <1>1, CallOf DEF GoodCall, CallRec, OfThisUser
<1>4. sel \in Sels /\ failed' \in BOOLEAN /\ server \in Nat /\ inputs \in Nat
  BY <1>1, Counters
<1>5. shown' = shown \/ shown' \in [at : Nat, sel : Sels, by : {user}]
  BY <1>1, <1>3, <1>4
<1>6. gets' \in Seq(GoodGet')
  BY <1>1, <1>4, StillGood, Widened DEF Inv, RequestsOK, Calm
<1>. QED  BY <1>1, <1>2, <1>4, <1>5, <1>6, AnswerOK

LEMMA NewGet ==
  ASSUME Inv, Calm, user \in Users, NEW s \in Sels, server' = server, inputs' = inputs
  PROVE  Get(s, mount) \in GoodGet'
<1>1. Get(s, mount) \in GoodGet
  <2>1. Get(s, mount) \in GetRec /\ Get(s, mount).mount = mount /\ Get(s, mount).phase = "sent"
    BY Counters DEF Get, GetRec
  <2>2. mount <= mount
    BY Counters
  <2>. QED  BY <2>1, <2>2 DEF GoodGet, OfThisUser
<1>. QED  BY <1>1, StillGood, Counters DEF Calm

LEMMA FormPicksOK == ASSUME Inv, NEW i \in DOMAIN calls, FormPicks(i) PROVE Inv'
<1>. DEFINE c == calls[i]
<1>1. /\ c.mount = mount /\ Done(i) /\ Tells(c) /\ Calm /\ server' = server /\ inputs' = inputs
      /\ dialog' \in {None, dialog} /\ shown' = shown /\ failed' = failed
  BY DEF FormPicks, Calm, sessionVars, Done, Goes, CloseAny
<1>2. c.sel \in Sels /\ user \in Users
  BY <1>1, CallOf DEF GoodCall, CallRec, OfThisUser
<1>3. PICK s \in (IF Watch.keyed THEN Sels ELSE {sel}) :
        /\ sel' = s
        /\ gets' = gets \o (IF s # sel THEN <<Get(s, mount)>> ELSE <<>>)
                        \o (IF Reloads(c.op) THEN <<Get(c.sel, mount)>> ELSE <<>>)
        /\ raced' = (raced \/ s # c.sel \/ MyGets # {})
  BY DEF FormPicks
<1>4. s \in Sels /\ sel' \in Sels /\ failed' \in BOOLEAN /\ raced' \in BOOLEAN
  BY <1>1, <1>3, Counters
<1>5. gets' \in Seq(GoodGet')
  <2>. DEFINE one == IF s # sel THEN <<Get(s, mount)>> ELSE <<>>
              two == IF Reloads(c.op) THEN <<Get(c.sel, mount)>> ELSE <<>>
  <2>1. Get(s, mount) \in GoodGet' /\ Get(c.sel, mount) \in GoodGet'
    BY <1>1, <1>2, <1>4, NewGet
  <2>2. gets \in Seq(GoodGet')
    BY <1>1, StillGood, Widened, Counters DEF Inv, RequestsOK, Calm
  <2>3. one \in Seq(GoodGet') /\ two \in Seq(GoodGet')
    BY <2>1
  <2>4. gets' = gets \o one \o two
    BY <1>3
  <2>. HIDE DEF one, two
  <2>. QED  BY <2>2, <2>3, <2>4
<1>. QED  BY <1>1, <1>4, <1>5, AnswerOK

-----------------------------------------------------------------------------
\* The API serves a reading or an operation; a reading is answered.
LEMMA ServeGetOK == ASSUME Inv, NEW i \in DOMAIN gets, ServeGet(i) PROVE Inv'
<1>1. /\ Calm /\ sel' = sel /\ shown' = shown /\ failed' = failed /\ server' = server /\ told' = told
      /\ dialog' = dialog /\ calls' = calls /\ raced' = raced /\ (Goes \/ Starts)
  BY DEF ServeGet, Calm, sessionVars, dialogVars
<1>2. /\ sel \in Sels /\ failed \in BOOLEAN /\ server \in Nat /\ told \in 0..server /\ raced \in BOOLEAN
      /\ inputs' \in Nat /\ inputs' >= inputs
  BY <1>1, Counters
<1>3. user # "unknown" /\ gets[i] \in GoodGet /\ gets[i] \in GetRec
  BY GetOf DEF GoodGet
<1>4. PICK g \in GoodGet : gets' = [gets EXCEPT ![i] = g]
  <2>1. CASE gets' = [gets EXCEPT ![i].phase = Outcome("ok"), ![i].at = server, ![i].by = session]
    <3>. DEFINE g == [gets[i] EXCEPT !.phase = Outcome("ok"), !.at = server, !.by = session]
    <3>1. gets' = [gets EXCEPT ![i] = g]
      BY <2>1
    <3>2. Outcome("ok") \in {"ok", "refused"} /\ session \in Users \union {None}
      BY DEF Outcome, Inv, SessionOK
    <3>3. g \in GetRec /\ g.mount = gets[i].mount /\ g.phase = Outcome("ok") /\ g.by = session
      BY <1>2, <1>3, <3>2 DEF GetRec
    <3>4. OfThisUser(g)
      <4>1. SUFFICES ASSUME g.mount = mount PROVE user \in Users /\ (g.phase = "ok" => g.by = user)
        BY DEF OfThisUser
      <4>2. user \in Users
        BY <1>3, <3>3, <4>1 DEF GoodGet, OfThisUser
      <4>3. Outcome("ok") = "ok" => session = user
        BY <4>2 DEF Inv, SessionOK, Outcome
      <4>. QED  BY <3>3, <4>2, <4>3
    <3>5. g.mount <= mount
      BY <1>3, <3>3 DEF GoodGet
    <3>. HIDE DEF g
    <3>6. g \in GoodGet
      BY <3>3, <3>4, <3>5 DEF GoodGet
    <3>. QED  BY <3>1, <3>6
  <2>2. CASE gets' = [gets EXCEPT ![i].phase = "failed"]
    <3>. DEFINE g == [gets[i] EXCEPT !.phase = "failed"]
    <3>1. gets' = [gets EXCEPT ![i] = g]
      BY <2>2
    <3>2. g \in GetRec /\ g.mount = gets[i].mount /\ g.phase = "failed"
      BY <1>3 DEF GetRec
    <3>. HIDE DEF g
    <3>3. g \in GoodGet
      BY <1>3, <3>2 DEF GoodGet, OfThisUser
    <3>. QED  BY <3>1, <3>3
  <2>. QED  BY <2>1, <2>2 DEF ServeGet
<1>5. gets' \in Seq(GoodGet')
  <2>1. gets' \in Seq(GoodGet)
    BY <1>4, Replaced DEF Inv, RequestsOK
  <2>. QED  BY <1>1, <1>2, <2>1, StillGood, Widened DEF Calm
<1>6. calls' \in Seq(GoodCall')
  BY <1>1, <1>2, StillGood, Widened DEF Inv, RequestsOK, Calm
<1>. QED  BY <1>1, <1>2, <1>3, <1>5, <1>6, CalmOK

LEMMA ServeCallOK == ASSUME Inv, NEW i \in DOMAIN calls, ServeCall(i) PROVE Inv'
<1>. DEFINE c == calls[i]
            now == IF Touches(c.op) /\ ~c.dry THEN server + 1 ELSE server
<1>1. /\ Calm /\ sel' = sel /\ shown' = shown /\ failed' = failed /\ gets' = gets /\ told' = told
      /\ dialog' = dialog /\ raced' = raced
  BY DEF ServeCall, Calm, sessionVars, dialogVars
<1>2. server \in Nat /\ now \in Nat /\ now >= server
  BY Counters
<1>3. \/ /\ session # None /\ Goes /\ server' = now
         /\ calls' = [calls EXCEPT ![i].phase = "ok", ![i].at = now, ![i].by = session]
      \/ /\ Starts /\ server' \in {server, now}
         /\ calls' = [calls EXCEPT ![i].phase = "failed"]
      \/ Goes /\ server' = server /\ calls' = [calls EXCEPT ![i].phase = "reason"]
      \/ Goes /\ server' = server /\ calls' = [calls EXCEPT ![i].phase = "refused"]
  BY DEF ServeCall
<1>. HIDE DEF now
<1>4. /\ sel \in Sels /\ failed \in BOOLEAN /\ told \in 0..server' /\ raced \in BOOLEAN
      /\ inputs' \in Nat /\ inputs' >= inputs /\ server' \in Nat /\ server' >= server
  BY <1>2, <1>3, Counters
<1>5. user # "unknown" /\ c \in GoodCall' /\ c \in CallRec /\ c \in GoodCall /\ CallRec' = CallRec
  BY <1>1, <1>4, CallOf, StillGood DEF GoodCall, Calm, CallRec, PageOps, Page
<1>6. PICK d \in GoodCall' : calls' = [calls EXCEPT ![i] = d]
  <2>1. CASE /\ session # None /\ server' = now
             /\ calls' = [calls EXCEPT ![i].phase = "ok", ![i].at = now, ![i].by = session]
    <3>. DEFINE d == [c EXCEPT !.phase = "ok", !.at = now, !.by = session]
    <3>1. calls' = [calls EXCEPT ![i] = d]
      BY <2>1
    <3>2. session \in Users \union {None}
      BY DEF Inv, SessionOK
    <3>3. d \in CallRec /\ d.mount = c.mount /\ d.n = c.n /\ d.at = server' /\ d.by = session
      BY <1>2, <1>5, <2>1, <3>2 DEF CallRec
    <3>4. d.mount = mount' => user' \in Users /\ (d.phase = "ok" => d.by = user')
      <4>1. SUFFICES ASSUME d.mount = mount PROVE user \in Users /\ d.by = user
        BY <1>1 DEF Calm
      <4>2. user \in Users
        BY <1>5, <3>3, <4>1 DEF GoodCall, OfThisUser
      <4>3. session = user
        BY <2>1, <4>2 DEF Inv, SessionOK
      <4>. QED  BY <3>3, <4>2, <4>3
    <3>5. d.mount <= mount' /\ d.n < inputs' /\ d.at <= server'
      BY <1>4, <1>5, <3>3 DEF GoodCall
    <3>. HIDE DEF d
    <3>6. d \in GoodCall'
      BY <1>5, <3>3, <3>4, <3>5 DEF GoodCall, OfThisUser
    <3>. QED  BY <3>1, <3>6
  <2>2. ASSUME NEW p \in {"failed", "reason", "refused"}, calls' = [calls EXCEPT ![i].phase = p]
        PROVE  \E d \in GoodCall' : calls' = [calls EXCEPT ![i] = d]
    <3>. DEFINE d == [c EXCEPT !.phase = p]
    <3>1. calls' = [calls EXCEPT ![i] = d]
      BY <2>2
    <3>2. d \in CallRec /\ d.mount = c.mount /\ d.n = c.n /\ d.at = c.at /\ d.phase = p
      BY <1>5 DEF CallRec
    <3>. HIDE DEF d
    <3>3. d \in GoodCall'
      BY <1>5, <3>2 DEF GoodCall, OfThisUser
    <3>. QED  BY <3>1, <3>3
  <2>. QED  BY <1>3, <2>1, <2>2
<1>7. calls' \in Seq(GoodCall')
  <2>1. calls \in Seq(GoodCall')
    BY <1>1, <1>4, StillGood, Widened DEF Inv, RequestsOK, Calm
  <2>. QED  BY <1>6, <2>1, Replaced
<1>8. gets' \in Seq(GoodGet')
  BY <1>1, <1>4, StillGood, Widened DEF Inv, RequestsOK, Calm
<1>. QED  BY <1>1, <1>4, <1>5, <1>7, <1>8, CalmOK

LEMMA GetEndsOK ==
  ASSUME Inv, NEW i \in DOMAIN gets, GetAnswered(i) \/ GetFailed(i)
  PROVE  Inv'
<1>. DEFINE g == gets[i]
<1>1. /\ Calm /\ sel' = sel /\ server' = server /\ told' = told /\ calls' = calls /\ raced' = raced
      /\ inputs' = inputs /\ gets' = RemoveAt(gets, i)
      /\ dialog' \in {None, dialog}
  BY DEF GetAnswered, GetFailed, Calm, sessionVars, dialogVars, Goes, CloseConfirm
<1>2. g \in GetRec /\ g \in GoodGet /\ user # "unknown"
  BY GetOf DEF GoodGet
<1>3. /\ sel \in Sels /\ server \in Nat /\ told \in 0..server /\ raced \in BOOLEAN /\ inputs \in Nat
      /\ failed' \in BOOLEAN
  BY Counters DEF GetAnswered, GetFailed
<1>4. shown' = shown \/ (user \in Users /\ shown' \in [at : Nat, sel : Sels, by : {user}])
  <2>1. CASE GetAnswered(i) /\ g.mount = mount
    <3>1. g.at \in Nat /\ g.sel \in Sels /\ user \in Users /\ g.by = user
      BY <1>2, <2>1 DEF GoodGet, OfThisUser, GetRec, GetAnswered
    <3>2. shown' = [at |-> g.at, sel |-> g.sel, by |-> g.by]
      BY <2>1 DEF GetAnswered
    <3>. QED  BY <3>1, <3>2
  <2>2. CASE ~(GetAnswered(i) /\ g.mount = mount)
    BY <2>2 DEF GetAnswered, GetFailed
  <2>. QED  BY <2>1, <2>2
<1>5. gets' \in Seq(GoodGet') /\ calls' \in Seq(GoodCall')
  <2>1. gets' \in Seq(GoodGet)
    BY <1>1, Removed DEF Inv, RequestsOK
  <2>. QED  BY <1>1, <1>3, <2>1, StillGood, Widened DEF Inv, RequestsOK, Calm
<1>. QED  BY <1>1, <1>2, <1>3, <1>4, <1>5, CalmOK

-----------------------------------------------------------------------------
\* The screen is new: whatever was asked for is of an earlier mount.
LEMMA ClearOK ==
  ASSUME Inv, Clear, screen' = screen, server' = server, told' = told, bell' \in {bell, FALSE},
         inputs' \in Nat, inputs' >= inputs, calls' \in Seq(GoodCall),
         \/ gets' \in Seq(GoodGet)
         \/ /\ user' \in Users
            /\ gets' = Append(gets, Get(0, mount + 1)),
         SessionOK', AuthOK'
  PROVE  Inv'
<1>1. /\ mount \in Nat /\ mount' = mount + 1 /\ mount' \in Nat \ {0} /\ server \in Nat
      /\ told \in 0..server /\ inputs \in Nat
  BY Counters DEF Clear
<1>2. ScreenOK'
  <2>1. <<screen.page, screen.watch>> \in Readings /\ bell \in BOOLEAN
    BY DEF Inv, ScreenOK
  <2>2. <<screen.page, screen.watch>>' \in Readings' /\ bell' \in BOOLEAN
    BY <2>1 DEF Readings
  <2>3. sel' \in Sels /\ failed' \in BOOLEAN /\ raced' \in BOOLEAN
    BY DEF Clear, Sels
  <2>. QED  BY <1>1, <2>2, <2>3 DEF ScreenOK
<1>3. GoodGet \subseteq GoodGet' /\ GoodCall \subseteq GoodCall'
  BY <1>1, StillGood
<1>4. gets' \in Seq(GoodGet')
  <2>1. CASE gets' \in Seq(GoodGet)
    BY <1>3, <2>1, Widened
  <2>2. CASE user' \in Users /\ gets' = Append(gets, Get(0, mount + 1))
    <3>. DEFINE g == Get(0, mount + 1)
    <3>1. g \in GetRec /\ g.mount = mount + 1 /\ g.phase = "sent"
      BY <1>1 DEF Get, GetRec, Sels
    <3>2. GetRec' = GetRec
      BY DEF GetRec, PageOps, Page
    <3>. HIDE DEF g
    <3>3. g.mount <= mount'
      BY <1>1, <3>1
    <3>4. g \in GoodGet'
      BY <2>2, <3>1, <3>2, <3>3 DEF GoodGet, OfThisUser
    <3>5. gets \in Seq(GoodGet')
      BY <1>3, Widened DEF Inv, RequestsOK
    <3>. QED  BY <2>2, <3>4, <3>5 DEF g
  <2>. QED  BY <2>1, <2>2
<1>5. calls' \in Seq(GoodCall')
  BY <1>3, Widened
<1>6. ShownOK' /\ DialogOK'
  BY DEF Clear, ShownOK, DialogOK
<1>. QED  BY <1>2, <1>4, <1>5, <1>6 DEF Inv, RequestsOK

LEMMA navigateOK == ASSUME Inv, navigate PROVE Inv'
<1>1. /\ Clear /\ screen' = screen /\ server' = server /\ told' = told /\ calls' = calls
      /\ UNCHANGED sessionVars /\ user \in Users /\ user # "unknown"
      /\ gets' = Append(gets, Get(0, mount + 1))
  BY Users1 DEF navigate, Mount, Mounted
<1>2. inputs' \in Nat /\ inputs' >= inputs
  BY Counters DEF navigate
<1>3. SessionOK' /\ GoodAuth' = GoodAuth
  BY <1>1 DEF Inv, SessionOK, sessionVars, GoodAuth
<1>4. AuthOK'
  BY <1>1, <1>3 DEF Inv, AuthOK, sessionVars
<1>. QED  BY <1>1, <1>2, <1>3, <1>4, ClearOK DEF Inv, RequestsOK, sessionVars

LEMMA FormLeavesOK == ASSUME Inv, NEW i \in DOMAIN calls, FormLeaves(i) PROVE Inv'
<1>1. /\ Clear /\ screen' = screen /\ server' = server /\ told' = told
      /\ calls' = RemoveAt(calls, i) /\ UNCHANGED sessionVars /\ inputs' = inputs
      /\ gets' = Append(gets, Get(0, mount + 1)) /\ calls[i].mount = mount
  BY DEF FormLeaves, Mount, Done, Goes
<1>2. user \in Users /\ user # "unknown"
  BY <1>1, CallOf, Users1 DEF GoodCall, OfThisUser
<1>3. SessionOK' /\ GoodAuth' = GoodAuth
  BY <1>1 DEF Inv, SessionOK, sessionVars, GoodAuth
<1>4. AuthOK'
  BY <1>1, <1>2, <1>3 DEF Inv, AuthOK, sessionVars
<1>5. calls' \in Seq(GoodCall) /\ inputs' \in Nat /\ inputs' >= inputs
  BY <1>1, Removed, Counters DEF Inv, RequestsOK
<1>. QED  BY <1>1, <1>2, <1>3, <1>4, <1>5, ClearOK DEF sessionVars

-----------------------------------------------------------------------------
\* The session.

LEMMA AuthOf ==
  ASSUME Inv, NEW i \in DOMAIN auth
  PROVE  /\ auth[i] \in AuthRec
         /\ auth[i].kind = "me" => user = "unknown"
         /\ auth[i].kind = "login" => user = None /\ auth[i].as \in Users
         /\ auth[i].kind = "active" => user \in Users
         /\ Entering(auth[i]) /\ auth[i].phase = "ok" =>
              auth[i].as \in Users /\ session \in {auth[i].as, None}
BY DEF Inv, AuthOK, GoodAuth

\* The requests that are left when one is answered.
LEMMA Rest ==
  ASSUME NEW S, NEW s \in Seq(S), NEW i \in DOMAIN s
  PROVE  /\ RemoveAt(s, i) \in Seq(S)
         /\ \A j \in DOMAIN RemoveAt(s, i) :
              \E k \in DOMAIN s \ {i} : RemoveAt(s, i)[j] = s[k] /\ k = IF j < i THEN j ELSE j + 1
<1>1. /\ RemoveAt(s, i) \in Seq(S) /\ Len(RemoveAt(s, i)) = Len(s) - 1
      /\ \A j \in 1..(Len(s) - 1) : RemoveAt(s, i)[j] = IF j < i THEN s[j] ELSE s[j + 1]
  BY Removed
<1>2. Len(s) \in Nat /\ DOMAIN s = 1..Len(s) /\ DOMAIN RemoveAt(s, i) = 1..(Len(s) - 1)
  BY <1>1
<1>. HIDE DEF RemoveAt
<1>3. ASSUME NEW j \in DOMAIN RemoveAt(s, i)
      PROVE  \E k \in DOMAIN s \ {i} : RemoveAt(s, i)[j] = s[k] /\ k = IF j < i THEN j ELSE j + 1
  <2>. DEFINE k == IF j < i THEN j ELSE j + 1
  <2>1. k \in DOMAIN s \ {i} /\ RemoveAt(s, i)[j] = s[k]
    BY <1>1, <1>2
  <2>. QED  BY <2>1
<1>. QED  BY <1>1, <1>3

LEMMA RestOfAuth ==
  ASSUME Inv, NEW i \in DOMAIN auth
  PROVE  /\ RemoveAt(auth, i) \in Seq(GoodAuth)
         /\ \A j, k \in DOMAIN RemoveAt(auth, i) :
              Entering(RemoveAt(auth, i)[j]) /\ Entering(RemoveAt(auth, i)[k]) => j = k
         /\ Entering(auth[i]) => \A j \in DOMAIN RemoveAt(auth, i) : ~Entering(RemoveAt(auth, i)[j])
         /\ user = "unknown" => \A j \in DOMAIN RemoveAt(auth, i) : RemoveAt(auth, i)[j].kind = "me"
<1>. DEFINE s == RemoveAt(auth, i)
<1>1. auth \in Seq(GoodAuth) /\ \A j, k \in DOMAIN auth : Entering(auth[j]) /\ Entering(auth[k]) => j = k
  BY DEF Inv, AuthOK
<1>2. s \in Seq(GoodAuth) /\ \A j \in DOMAIN s :
        \E k \in DOMAIN auth \ {i} : s[j] = auth[k] /\ k = IF j < i THEN j ELSE j + 1
  BY <1>1, Rest
<1>3. i \in Nat /\ DOMAIN s \subseteq Nat
  BY <1>1, <1>2
<1>. HIDE DEF s
<1>4. \A j, k \in DOMAIN s : Entering(s[j]) /\ Entering(s[k]) => j = k
  <2>. TAKE j, k \in DOMAIN s
  <2>1. PICK a \in DOMAIN auth \ {i} : s[j] = auth[a] /\ a = IF j < i THEN j ELSE j + 1
    BY <1>2
  <2>2. PICK b \in DOMAIN auth \ {i} : s[k] = auth[b] /\ b = IF k < i THEN k ELSE k + 1
    BY <1>2
  <2>3. a = b => j = k
    BY <1>3, <2>1, <2>2
  <2>. QED  BY <1>1, <2>1, <2>2, <2>3
<1>5. Entering(auth[i]) => \A j \in DOMAIN s : ~Entering(s[j])
  BY <1>1, <1>2
<1>6. user = "unknown" => \A j \in DOMAIN s : s[j].kind = "me"
  BY <1>2 DEF Inv, AuthOK
<1>. QED  BY <1>2, <1>4, <1>5, <1>6 DEF s

\* Nobody is logged in any more; the versions that were asked for are nobody's.
LEMMA OrphanedOK ==
  ASSUME Inv, NEW a \in Seq(GoodAuth), \A i, j \in DOMAIN a : Entering(a[i]) /\ Entering(a[j]) => i = j,
         \A i \in DOMAIN a : a[i].kind # "me",
         user' = None, session' = session, auth' = Orphaned(a)
  PROVE  AuthOK'
<1>. DEFINE r(i) == IF a[i].kind = "active" THEN [a[i] EXCEPT !.kind = "poll"] ELSE a[i]
<1>1. ASSUME NEW i \in DOMAIN a
      PROVE  /\ r(i) \in GoodAuth' /\ r(i).kind # "active"
             /\ Entering(r(i)) => Entering(a[i])
  <2>1. /\ a[i] \in AuthRec
        /\ a[i].kind = "login" => user = None /\ a[i].as \in Users
        /\ Entering(a[i]) /\ a[i].phase = "ok" => a[i].as \in Users /\ session \in {a[i].as, None}
        /\ a[i].kind # "me"
    BY <1>1 DEF GoodAuth
  <2>2. CASE a[i].kind = "active"
    <3>. DEFINE p == [a[i] EXCEPT !.kind = "poll"]
    <3>1. p \in AuthRec /\ p.kind = "poll"
      BY <2>1 DEF AuthRec
    <3>. HIDE DEF p
    <3>2. p \in GoodAuth' /\ ~Entering(p)
      BY <3>1 DEF GoodAuth, AuthRec, Entering
    <3>. QED  BY <2>2, <3>1, <3>2 DEF p
  <2>3. CASE a[i].kind # "active"
    <3>1. a[i] \in GoodAuth'
      BY <2>1, <2>3 DEF GoodAuth, AuthRec, Entering
    <3>. QED  BY <2>3, <3>1
  <2>. QED  BY <2>2, <2>3
<1>. HIDE DEF r
<1>2. auth' = [i \in DOMAIN a |-> r(i)]
  BY DEF Orphaned, r
<1>3. DOMAIN a = 1..Len(a) /\ Len(a) \in Nat
  OBVIOUS
<1>4. auth' \in Seq(GoodAuth')
  BY <1>1, <1>2, <1>3
<1>5. \A i, j \in DOMAIN auth' : Entering(auth'[i]) /\ Entering(auth'[j]) => i = j
  BY <1>1, <1>2
<1>6. user' # "unknown"
  BY UsersAssumption
<1>. QED  BY <1>4, <1>5, <1>6 DEF AuthOK, Entering

LEMMA NobodyOK == ASSUME Inv, user' = None, session' = session, bell' = FALSE PROVE SessionOK'
BY UsersAssumption DEF Inv, SessionOK

LEMMA RefusedOK ==
  ASSUME Inv,
         \/ \E i \in DOMAIN gets : GetRefused(i)
         \/ \E i \in DOMAIN calls : CallRefused(i)
  PROVE  Inv'
<1>1. /\ Unauthorized(auth) /\ screen' = screen /\ session' = session /\ server' = server
      /\ told' = told /\ inputs' = inputs
  BY DEF GetRefused, CallRefused, Done, Goes
<1>2. user # "unknown"
  BY GetOf, CallOf
<1>3. gets' \in Seq(GoodGet) /\ calls' \in Seq(GoodCall)
  BY Removed DEF GetRefused, CallRefused, Done, Inv, RequestsOK
<1>4. AuthOK'
  <2>1. auth \in Seq(GoodAuth) /\ \A i, j \in DOMAIN auth : Entering(auth[i]) /\ Entering(auth[j]) => i = j
    BY DEF Inv, AuthOK
  <2>2. \A i \in DOMAIN auth : auth[i].kind # "me"
    BY <1>2, AuthOf
  <2>. QED  BY <1>1, <2>1, <2>2, OrphanedOK DEF Unauthorized
<1>5. SessionOK'
  BY <1>1, NobodyOK DEF Unauthorized
<1>6. inputs' \in Nat /\ inputs' >= inputs
  BY <1>1, Counters
<1>. QED  BY <1>1, <1>3, <1>4, <1>5, <1>6, ClearOK DEF Unauthorized

LEMMA LeaveOK == ASSUME Inv, NEW i \in DOMAIN auth, Leave(i) PROVE Inv'
<1>. DEFINE a == RemoveAt(auth, i)
<1>1. /\ Unauthorized(a) /\ screen' = screen /\ session' = session /\ server' = server
      /\ told' = told /\ inputs' = inputs /\ gets' = gets /\ calls' = calls
  BY DEF Leave, Goes
<1>2. a \in Seq(GoodAuth) /\ \A j, k \in DOMAIN a : Entering(a[j]) /\ Entering(a[k]) => j = k
  BY RestOfAuth
<1>3. \A j \in DOMAIN a : a[j].kind # "me"
  <2>1. CASE user = "unknown"
    <3>1. Entering(auth[i])
      BY <2>1 DEF Inv, AuthOK, Entering
    <3>. QED  BY <3>1, RestOfAuth DEF Entering
  <2>2. CASE user # "unknown"
    <3>. HIDE DEF a
    <3>. QED  BY <1>2, <2>2 DEF GoodAuth
  <2>. QED  BY <2>1, <2>2
<1>. HIDE DEF a
<1>4. AuthOK'
  BY <1>1, <1>2, <1>3, OrphanedOK DEF Unauthorized
<1>5. SessionOK'
  BY <1>1, NobodyOK DEF Unauthorized
<1>6. inputs' \in Nat /\ inputs' >= inputs
  BY <1>1, Counters
<1>. QED  BY <1>1, <1>4, <1>5, <1>6, ClearOK DEF Unauthorized, Inv, RequestsOK

LEMMA EnterOK == ASSUME Inv, NEW i \in DOMAIN auth, Enter(i) PROVE Inv'
<1>. DEFINE a == RemoveAt(auth, i)
<1>1. /\ Clear /\ screen' = screen /\ session' = session /\ server' = server /\ told' = told
      /\ inputs' = inputs /\ calls' = calls /\ gets' = Append(gets, Get(0, mount + 1))
      /\ user' = auth[i].as /\ bell' = FALSE /\ auth' = Append(a, Auth("active", None))
  BY DEF Enter, Mount, Goes
<1>2. Entering(auth[i]) /\ auth[i].as \in Users /\ session \in {auth[i].as, None}
  BY AuthOf DEF Enter, Entering
<1>3. a \in Seq(GoodAuth) /\ \A j \in DOMAIN a : ~Entering(a[j])
  BY <1>2, RestOfAuth
<1>. HIDE DEF a
<1>4. user' \in Users /\ user' # "unknown"
  BY <1>1, <1>2, UsersAssumption
<1>5. SessionOK'
  BY <1>1, <1>2, <1>4 DEF Inv, SessionOK
<1>6. AuthOK'
  <2>1. ASSUME NEW j \in DOMAIN a PROVE a[j] \in GoodAuth'
    <3>1. a[j] \in AuthRec /\ a[j].kind # "me" /\ a[j].kind # "login"
      BY <1>3, <2>1 DEF GoodAuth, Entering
    <3>. QED  BY <1>4, <3>1 DEF GoodAuth, AuthRec, Entering
  <2>2. Auth("active", None) \in GoodAuth' /\ ~Entering(Auth("active", None))
    BY <1>4 DEF Auth, GoodAuth, AuthRec, Entering
  <2>3. a \in Seq(GoodAuth')
    BY <1>3, <2>1
  <2>4. auth' \in Seq(GoodAuth')
    BY <1>1, <2>2, <2>3
  <2>5. \A j \in DOMAIN auth' : ~Entering(auth'[j])
    BY <1>1, <1>3, <2>2, <2>3
  <2>. QED  BY <1>4, <2>4, <2>5 DEF AuthOK, Entering
<1>7. inputs' \in Nat /\ inputs' >= inputs
  BY <1>1, Counters
<1>. QED  BY <1>1, <1>4, <1>5, <1>6, <1>7, ClearOK DEF Inv, RequestsOK

\* The steps of the session that leave the screen alone.
LEMMA ElsewhereOK ==
  ASSUME Inv, Elsewhere, user' = user, bell' \in BOOLEAN, Goes \/ Starts, SessionOK', AuthOK'
  PROVE  Inv'
<1>1. inputs' \in Nat /\ inputs' >= inputs /\ inputs \in Nat
  BY Counters
<1>. USE DEF Elsewhere, dialogVars
<1>2. ScreenOK'
  BY <1>1 DEF Inv, ScreenOK, Readings
<1>3. RequestsOK'
  <2>1. GoodGet \subseteq GoodGet' /\ GoodCall \subseteq GoodCall'
    BY <1>1, StillGood, Counters
  <2>. QED  BY <2>1, Widened DEF Inv, RequestsOK
<1>4. ShownOK'
  BY DEF Inv, ShownOK
<1>5. DialogOK'
  <2>1. DialogRec' = DialogRec
    BY DEF DialogRec, PageOps, Page
  <2>2. dialog # None => dialog.n < inputs'
    BY <1>1, DialogOf
  <2>. QED  BY <2>1, <2>2 DEF Inv, DialogOK
<1>. QED  BY <1>2, <1>3, <1>4, <1>5 DEF Inv

LEMMA AskedFor ==
  ASSUME Inv, Elsewhere, user' = user, session' = session, user # "unknown",
         NEW r \in GoodAuth, auth' = Append(auth, r),
         Entering(r) => \A i \in DOMAIN auth : ~Entering(auth[i])
  PROVE  AuthOK'
<1>1. GoodAuth' = GoodAuth
  BY DEF GoodAuth
<1>2. auth \in Seq(GoodAuth) /\ \A i, j \in DOMAIN auth : Entering(auth[i]) /\ Entering(auth[j]) => i = j
  BY DEF Inv, AuthOK
<1>3. /\ auth' \in Seq(GoodAuth') /\ DOMAIN auth' = DOMAIN auth \union {Len(auth) + 1}
      /\ auth'[Len(auth) + 1] = r /\ \A i \in DOMAIN auth : auth'[i] = auth[i]
  BY <1>1, <1>2
<1>4. \A i, j \in DOMAIN auth' : Entering(auth'[i]) /\ Entering(auth'[j]) => i = j
  BY <1>2, <1>3
<1>. QED  BY <1>3, <1>4 DEF AuthOK, Entering

LEMMA AskingOK == ASSUME Inv, logout \/ Poll \/ \E u \in Users : login(u) PROVE Inv'
<1>1. /\ Elsewhere /\ user' = user /\ session' = session /\ bell' = bell /\ (Goes \/ Starts)
      /\ user # "unknown"
  BY UsersAssumption DEF logout, Poll, login, Inv, SessionOK
<1>2. SessionOK' /\ bell' \in BOOLEAN
  BY <1>1 DEF Inv, SessionOK, ScreenOK
<1>3. PICK r : /\ auth' = Append(auth, r) /\ r \in GoodAuth
               /\ Entering(r) => \A i \in DOMAIN auth : ~Entering(auth[i])
  <2>1. CASE logout \/ Poll
    <3>1. PICK kind \in {"logout", "poll"} : auth' = Append(auth, Auth(kind, None))
      BY <2>1 DEF logout, Poll
    <3>2. Auth(kind, None) \in GoodAuth /\ ~Entering(Auth(kind, None))
      BY DEF Auth, GoodAuth, AuthRec, Entering
    <3>. QED  BY <3>1, <3>2
  <2>2. ASSUME NEW u \in Users, login(u)
        PROVE  /\ auth' = Append(auth, Auth("login", u)) /\ Auth("login", u) \in GoodAuth
               /\ \A i \in DOMAIN auth : ~Entering(auth[i])
    <3>1. user = None /\ auth' = Append(auth, Auth("login", u)) /\ ~Asking("login")
      BY <2>2 DEF login
    <3>2. Auth("login", u) \in GoodAuth
      BY <3>1 DEF Auth, GoodAuth, AuthRec, Entering
    <3>. QED  BY <1>1, <3>1, <3>2, AuthOf DEF Asking, Entering
  <2>. QED  BY <2>1, <2>2
<1>4. AuthOK'
  BY <1>1, <1>3, AskedFor
<1>. QED  BY <1>1, <1>2, <1>4, ElsewhereOK

LEMMA ExpireOK == ASSUME Inv, Expire PROVE Inv'
<1>1. Elsewhere /\ user' = user /\ bell' = bell /\ auth' = auth /\ Starts /\ session' = None
  BY DEF Expire
<1>2. SessionOK' /\ bell' \in BOOLEAN
  BY <1>1 DEF Inv, SessionOK, ScreenOK
<1>3. AuthOK'
  <2>1. GoodAuth \subseteq GoodAuth'
    BY <1>1 DEF GoodAuth
  <2>2. auth' \in Seq(GoodAuth')
    BY <1>1, <2>1, Widened DEF Inv, AuthOK
  <2>. QED  BY <1>1, <2>2 DEF Inv, AuthOK, Elsewhere, Entering
<1>. QED  BY <1>1, <1>2, <1>3, ElsewhereOK

LEMMA AuthEndsOK == ASSUME Inv, NEW i \in DOMAIN auth, BarShown(i) \/ AuthEnds(i) PROVE Inv'
<1>. DEFINE a == RemoveAt(auth, i)
<1>1. Elsewhere /\ user' = user /\ session' = session /\ auth' = a /\ Goes
  BY DEF BarShown, AuthEnds
<1>2. bell' \in BOOLEAN /\ (bell' => user \in Users)
  <2>1. bell \in BOOLEAN /\ (bell => user \in Users)
    BY DEF Inv, SessionOK, ScreenOK
  <2>2. CASE BarShown(i)
    BY <2>2, AuthOf DEF BarShown
  <2>3. CASE AuthEnds(i)
    BY <2>1, <2>3 DEF AuthEnds
  <2>. QED  BY <2>2, <2>3
<1>3. SessionOK'
  BY <1>1, <1>2 DEF Inv, SessionOK
<1>4. AuthOK'
  <2>1. GoodAuth' = GoodAuth
    BY <1>1 DEF GoodAuth
  <2>2. /\ a \in Seq(GoodAuth) /\ \A j, k \in DOMAIN a : Entering(a[j]) /\ Entering(a[k]) => j = k
        /\ user = "unknown" => \A j \in DOMAIN a : a[j].kind = "me"
    BY RestOfAuth
  <2>. HIDE DEF a
  <2>. QED  BY <1>1, <2>1, <2>2 DEF AuthOK, Inv, Elsewhere, Entering
<1>. QED  BY <1>1, <1>2, <1>3, <1>4, ElsewhereOK

LEMMA ServeAuthOK == ASSUME Inv, NEW i \in DOMAIN auth, ServeAuth(i) PROVE Inv'
<1>. DEFINE r == auth[i]
<1>1. Elsewhere /\ user' = user /\ bell' = bell /\ (Goes \/ Starts) /\ r \in AuthRec
  BY AuthOf DEF ServeAuth
<1>2. PICK p \in AuthRec :
        /\ auth' = [auth EXCEPT ![i] = p] /\ p.kind = r.kind
        /\ p.phase = "ok" /\ p.kind = "me" => p.as = session /\ session # None
        /\ p.kind = "login" => p.as = r.as
        /\ \/ session' = session
           \/ session' = None
           \/ p.kind = "login" /\ session' = r.as
        /\ p.kind = "me" => session' = session
        /\ p.kind = "login" /\ p.phase = "ok" => session' = r.as
  <2>1. CASE r.kind \in {"login", "logout"} /\ auth' = [auth EXCEPT ![i].phase = "ok"]
             /\ session' = IF r.kind = "login" THEN r.as ELSE None
    <3>. DEFINE p == [r EXCEPT !.phase = "ok"]
    <3>1. p \in AuthRec /\ p.kind = r.kind /\ p.as = r.as /\ p.phase = "ok"
      BY <1>1 DEF AuthRec
    <3>2. auth' = [auth EXCEPT ![i] = p]
      BY <2>1
    <3>. HIDE DEF p
    <3>. QED  BY <2>1, <3>1, <3>2
  <2>2. CASE /\ r.kind \in {"me", "active", "poll"} /\ session' = session
             /\ auth' = [auth EXCEPT ![i].phase = Outcome("ok"), ![i].as = session]
    <3>. DEFINE p == [r EXCEPT !.phase = Outcome("ok"), !.as = session]
    <3>1. Outcome("ok") \in {"ok", "refused"} /\ (Outcome("ok") = "ok" => session # None)
          /\ session \in Users \union {None}
      BY DEF Outcome, Inv, SessionOK
    <3>2. p \in AuthRec /\ p.kind = r.kind /\ p.as = session /\ p.phase = Outcome("ok")
      BY <1>1, <3>1 DEF AuthRec
    <3>3. auth' = [auth EXCEPT ![i] = p]
      BY <2>2
    <3>. HIDE DEF p
    <3>. QED  BY <2>2, <3>1, <3>2, <3>3
  <2>3. CASE /\ session' \in {session} \union (IF r.kind = "login" THEN {r.as} ELSE {})
                                       \union (IF r.kind = "logout" THEN {None} ELSE {})
             /\ auth' = [auth EXCEPT ![i].phase = "failed"]
    <3>. DEFINE p == [r EXCEPT !.phase = "failed"]
    <3>1. p \in AuthRec /\ p.kind = r.kind /\ p.as = r.as /\ p.phase = "failed"
      BY <1>1 DEF AuthRec
    <3>2. auth' = [auth EXCEPT ![i] = p]
      BY <2>3
    <3>. HIDE DEF p
    <3>. QED  BY <2>3, <3>1, <3>2
  <2>. QED  BY <2>1, <2>2, <2>3 DEF ServeAuth
<1>3. session \in Users \union {None} /\ (user \in Users => session \in {user, None})
  BY DEF Inv, SessionOK
<1>4. r.kind = "login" => user = None /\ r.as \in Users
  BY AuthOf
<1>5. SessionOK' /\ bell' \in BOOLEAN
  <2>1. session' \in Users \union {None} /\ (user \in Users => session' \in {user, None})
    BY <1>2, <1>3, <1>4, Users1
  <2>. QED  BY <1>1, <2>1 DEF Inv, SessionOK, ScreenOK
<1>6. AuthOK'
  <2>1. auth \in Seq(GoodAuth) /\ \A j, k \in DOMAIN auth : Entering(auth[j]) /\ Entering(auth[k]) => j = k
    BY DEF Inv, AuthOK
  <2>2. DOMAIN auth' = DOMAIN auth /\ auth'[i] = p /\ \A j \in DOMAIN auth \ {i} : auth'[j] = auth[j]
    BY <1>2, <2>1
  <2>3. \A j \in DOMAIN auth : auth'[j].kind = auth[j].kind
    BY <1>2, <2>2
  <2>4. p \in GoodAuth'
    <3>1. /\ p.kind = "me" => user' = "unknown"
          /\ p.kind = "login" => user' = None /\ p.as \in Users
          /\ p.kind = "active" => user' \in Users
      BY <1>1, <1>2, AuthOf
    <3>2. Entering(p) /\ p.phase = "ok" => p.as \in Users /\ session' \in {p.as, None}
      BY <1>2, <1>3, <1>4 DEF Entering
    <3>. QED  BY <3>1, <3>2 DEF GoodAuth, AuthRec, Entering
  <2>5. ASSUME NEW j \in DOMAIN auth, j # i PROVE auth[j] \in GoodAuth'
    <3>1. auth[j] \in GoodAuth
      BY <2>1
    <3>2. Entering(auth[j]) => ~Entering(r)
      BY <2>1, <2>5
    <3>3. Entering(auth[j]) => session' \in {session, None}
      BY <1>2, <3>2 DEF Entering
    <3>. QED  BY <1>1, <3>1, <3>3 DEF GoodAuth, AuthRec, Entering
  <2>6. auth' \in Seq(GoodAuth')
    <3>1. DOMAIN auth = 1..Len(auth) /\ Len(auth) \in Nat
      BY <2>1
    <3>2. auth' = [j \in 1..Len(auth) |-> IF j = i THEN p ELSE auth[j]]
      BY <1>2, <3>1
    <3>3. \A j \in 1..Len(auth) : (IF j = i THEN p ELSE auth[j]) \in GoodAuth'
      BY <2>4, <2>5, <3>1
    <3>. QED  BY <3>1, <3>2, <3>3
  <2>. QED  BY <1>1, <2>1, <2>2, <2>3, <2>6 DEF AuthOK, Inv, Elsewhere, Entering
<1>. QED  BY <1>1, <1>5, <1>6, ElsewhereOK

-----------------------------------------------------------------------------
LEMMA InitInv == Init => Inv
<1>. SUFFICES ASSUME Init PROVE Inv
  OBVIOUS
<1>1. PICK r \in Readings : screen \in [page : {r[1]}, watch : {r[2]}, role : RolesOf(routes[r[1]])]
  BY DEF Init
<1>2. <<screen.page, screen.watch>> \in Readings
  <2>1. \E p, w : r = <<p, w>>
    <3>. DEFINE all == UNION {{p} \X Watched(routes[p]) : p \in DOMAIN routes}
                looks == {Look(x[1], x[2]) : x \in all}
    <3>1. \A look \in looks : (CHOOSE x \in all : Look(x[1], x[2]) = look) \in all
      <4>. TAKE look \in looks
      <4>1. \E x \in all : Look(x[1], x[2]) = look
        OBVIOUS
      <4>. QED  BY <4>1
    <3>2. r \in all
      BY <3>1 DEF Readings
    <3>. QED  BY <3>2
  <2>. QED  BY <1>1, <2>1
<1>3. ScreenOK
  <2>1. /\ mount = 1 /\ sel = 0 /\ inputs = 0 /\ server = 0 /\ told = 0
        /\ bell = FALSE /\ failed = FALSE /\ raced = FALSE
    BY DEF Init
  <2>2. bell \in BOOLEAN /\ failed \in BOOLEAN /\ raced \in BOOLEAN
    BY <2>1
  <2>3. mount \in Nat \ {0} /\ sel \in Sels /\ inputs \in Nat /\ server \in Nat /\ told \in 0..server
    BY <2>1 DEF Sels
  <2>. QED  BY <1>2, <2>2, <2>3 DEF ScreenOK
<1>4. session \in Users \union {None} /\ (~Shell => session \in Users)
  BY UsersAssumption DEF Init
<1>5. SessionOK
  BY <1>4, UsersAssumption DEF Init, SessionOK
<1>6. AuthOK
  <2>1. CASE Shell
    <3>1. auth = <<Auth("me", None)>> /\ user = "unknown" /\ gets = <<>> /\ calls = <<>>
      BY <2>1, UsersAssumption DEF Init, Mounted
    <3>2. Auth("me", None) \in GoodAuth
      BY <3>1 DEF Auth, GoodAuth, AuthRec, Entering
    <3>. QED  BY <3>1, <3>2 DEF AuthOK, Auth
  <2>2. CASE ~Shell
    <3>1. auth = <<>> /\ user \in Users
      BY <1>4, <2>2 DEF Init
    <3>. QED  BY <3>1, UsersAssumption DEF AuthOK
  <2>. QED  BY <2>1, <2>2
<1>7. RequestsOK
  <2>1. calls = <<>>
    BY DEF Init
  <2>2. CASE gets = <<>>
    BY <2>1, <2>2 DEF RequestsOK
  <2>3. CASE gets = <<Get(0, 1)>> /\ user \in Users
    <3>1. Get(0, 1) \in GetRec /\ Get(0, 1).mount <= mount /\ Get(0, 1).phase = "sent"
      BY DEF Get, GetRec, Init, Sels
    <3>2. Get(0, 1) \in GoodGet
      BY <2>3, <3>1 DEF GoodGet, OfThisUser
    <3>. QED  BY <2>1, <2>3, <3>2 DEF RequestsOK
  <2>. QED  BY <2>2, <2>3 DEF Init, Mounted
<1>. QED  BY <1>3, <1>5, <1>6, <1>7 DEF Inv, Init, ShownOK, DialogOK

LEMMA NextInv == Inv /\ [Next]_vars => Inv'
<1>. SUFFICES ASSUME Inv, [Next]_vars PROVE Inv'
  OBVIOUS
<1>1. CASE User
  <2>1. CASE navigate \/ Select \/ Close \/ logout \/ Expire \/ \E u \in Users : login(u)
    BY <2>1, navigateOK, SelectOK, ClosingOK, AskingOK, ExpireOK
  <2>2. CASE CancelReason \/ ChangeInput \/ DefaultDrifts \/ DryRun \/ Submit \/ SubmitReason
    BY <2>2, InsideOK
  <2>3. CASE \E op \in Ops : Open(op) \/ Press(op)
    BY <2>3, OpeningOK
  <2>. QED  BY <1>1, <2>1, <2>2, <2>3 DEF User
<1>2. CASE Poll
  BY <1>2, AskingOK
<1>3. CASE \E i \in DOMAIN gets : ServeGet(i) \/ GetAnswered(i) \/ GetFailed(i) \/ GetRefused(i)
  BY <1>3, ServeGetOK, GetEndsOK, RefusedOK
<1>4. ASSUME NEW i \in DOMAIN calls,
             \/ ServeCall(i) \/ FormSaved(i) \/ FormStays(i) \/ FormAnswers(i) \/ FormPicks(i)
             \/ FormLeaves(i) \/ Confirmed(i) \/ Pressed(i) \/ Asked(i) \/ Previewed(i)
             \/ Imported(i) \/ ReasonNeeded(i) \/ CallFailed(i) \/ CallForgotten(i) \/ CallRefused(i)
      PROVE  Inv'
  BY <1>4, ServeCallOK, FormsOK, FormAnswersOK, FormPicksOK, FormLeavesOK, ConfirmedOK, PressedOK,
     ImportingOK, UnheardOK, CallFailedOK, RefusedOK
<1>5. CASE \E i \in DOMAIN auth : ServeAuth(i) \/ Enter(i) \/ Leave(i) \/ BarShown(i) \/ AuthEnds(i)
  BY <1>5, ServeAuthOK, EnterOK, LeaveOK, AuthEndsOK
<1>6. CASE UNCHANGED vars
  BY <1>6 DEF vars, Inv, ScreenOK, SessionOK, AuthOK, RequestsOK, ShownOK, DialogOK, GoodGet, GoodCall,
     GoodAuth, GetRec, CallRec, DialogRec, PageOps, Page, OfThisUser
<1>. QED  BY <1>1, <1>2, <1>3, <1>4, <1>5, <1>6 DEF Next, Network

LEMMA SpecInv == Spec => []Inv
BY InitInv, NextInv, PTL DEF Spec

\* Nobody sees what was read with the session of somebody else, whoever logs
\* out and in while readings are under way (AuthProvider, onUnauthorized).
THEOREM NobodySeesAnothers == Spec => []NothingOfAnotherUser
<1>1. Inv => NothingOfAnotherUser
  BY DEF Inv, ShownOK, NothingOfAnotherUser
<1>. QED  BY <1>1, SpecInv, PTL

-----------------------------------------------------------------------------
\* The second invariant: the requests of an open dialog, and of ConfirmDialog.

\* The requests of the open dialog, and those that nobody has called off.
Own(i) == calls[i].n = dialog.n
Live(i) == Own(i) /\ ~calls[i].cancelled

OwnOK ==
  \A i \in DOMAIN calls : Own(i) =>
    /\ calls[i].op = dialog.op /\ calls[i].mount = mount
    /\ calls[i].cancelled =>
         (Is(dialog.op, "asks") \/ Kind(dialog.op) = "ask") /\ calls[i].phase # "reason"
    /\ calls[i].phase = "reason" => Is(dialog.op, "asks")
OneLive == \A i, j \in DOMAIN calls : Live(i) /\ Live(j) => i = j
\* A dialog other than ConfirmDialog is busy while a request of it is under
\* way, except for the dry run with which it may open.
IdleOK ==
  Kind(dialog.op) # "confirm" /\ ~dialog.busy =>
    \A i \in DOMAIN calls : Live(i) =>
      Is(dialog.op, "auto") /\ calls[i].dry /\ dialog.preview = None
ReasonOK ==
  /\ dialog.asking = "open" => \A i \in DOMAIN calls : ~Live(i)
  /\ dialog.asking = "busy" => \A i \in DOMAIN calls : Live(i) => calls[i].phase # "reason"
  /\ dialog.asking # "no" => Is(dialog.op, "asks") /\ dialog.busy
DialogCalls == dialog # None => OwnOK /\ OneLive /\ IdleOK /\ ReasonOK

\* What a dry run counts is what the dialog shows, unless that was overtaken.
Previews ==
  dialog # None /\ Kind(dialog.op) = "import" =>
    /\ dialog.preview # None => dialog.preview = dialog.input \/ dialog.overtaken
    /\ \A i \in DOMAIN calls : Own(i) => calls[i].input = dialog.input \/ dialog.overtaken

\* ConfirmDialog: one request, or the reading that ends it, and then its button
\* is disabled.
Deleting(op) == {i \in DOMAIN calls : calls[i].mount = mount /\ calls[i].op = op}
Ending(op) == {i \in DOMAIN gets : gets[i].mount = mount /\ gets[i].closes = op}
Lone(S) == \A i, j \in S : i = j
ConfirmOK(op) ==
  /\ Deleting(op) # {} \/ Ending(op) # {} => op \in confirm
  /\ Lone(Deleting(op)) /\ Lone(Ending(op))
  /\ Deleting(op) = {} \/ Ending(op) = {}
Confirms == \A op \in PageOps : Kind(op) = "confirm" => ConfirmOK(op)

Inv2 == DialogCalls /\ Previews /\ Confirms

\* The flags of an operation.
LEMMA Flags ==
  ASSUME Inv, NEW op \in PageOps
  PROVE  /\ op # None
         /\ Is(op, "asks") => Kind(op) = "form" /\ ~Is(op, "stays")
         /\ Is(op, "auto") => Kind(op) = "import"
<1>1. screen.page \in DOMAIN routes
  BY PageKnown DEF Inv
<1>. QED  BY <1>1, RoutesAssumption DEF PageOps, Page, Is, Kind

LEMMA FlagsKept ==
  ASSUME screen' = screen
  PROVE  PageOps' = PageOps /\ \A op, flag : Is(op, flag)' = Is(op, flag) /\ Kind(op)' = Kind(op)
BY DEF PageOps, Page, Is, Kind

\* Whoever is left after one is taken out was there before.
LEMMA Left ==
  ASSUME NEW S, NEW s \in Seq(S), NEW i \in DOMAIN s
  PROVE  \E f \in [DOMAIN RemoveAt(s, i) -> DOMAIN s \ {i}] :
           /\ \A j, k \in DOMAIN RemoveAt(s, i) : f[j] = f[k] => j = k
           /\ \A j \in DOMAIN RemoveAt(s, i) : RemoveAt(s, i)[j] = s[f[j]]
<1>. DEFINE t == RemoveAt(s, i)
            f == [j \in DOMAIN t |-> IF j < i THEN j ELSE j + 1]
<1>1. t \in Seq(S) /\ i \in Nat /\ \A j \in DOMAIN t :
        \E k \in DOMAIN s \ {i} : t[j] = s[k] /\ k = IF j < i THEN j ELSE j + 1
  BY Rest
<1>. HIDE DEF t
<1>2. \A j \in DOMAIN t : f[j] \in DOMAIN s \ {i} /\ t[j] = s[f[j]]
  BY <1>1
<1>3. f \in [DOMAIN t -> DOMAIN s \ {i}]
  BY <1>2
<1>4. DOMAIN t \subseteq Nat
  BY <1>1
<1>5. \A j, k \in DOMAIN t : f[j] = f[k] => j = k
  BY <1>1, <1>4
<1>. QED  BY <1>2, <1>3, <1>5 DEF t

\* No call is new.
Thinned ==
  \E f \in [DOMAIN calls' -> DOMAIN calls] :
    /\ \A j, k \in DOMAIN calls' : f[j] = f[k] => j = k
    /\ \A j \in DOMAIN calls' : calls'[j] = calls[f[j]]

LEMMA ThinnedByRemoval ==
  ASSUME Inv, NEW i \in DOMAIN calls, calls' = RemoveAt(calls, i)
  PROVE  Thinned
<1>1. calls \in Seq(GoodCall)
  BY DEF Inv, RequestsOK
<1>2. PICK f \in [DOMAIN calls' -> DOMAIN calls \ {i}] :
        /\ \A j, k \in DOMAIN calls' : f[j] = f[k] => j = k
        /\ \A j \in DOMAIN calls' : calls'[j] = calls[f[j]]
  BY <1>1, Left
<1>3. f \in [DOMAIN calls' -> DOMAIN calls]
  OBVIOUS
<1>. QED  BY <1>2, <1>3 DEF Thinned

LEMMA ThinnedByNothing == ASSUME calls' = calls PROVE Thinned
<1>. DEFINE f == [j \in DOMAIN calls |-> j]
<1>1. /\ f \in [DOMAIN calls' -> DOMAIN calls]
      /\ \A j, k \in DOMAIN calls' : f[j] = f[k] => j = k
      /\ \A j \in DOMAIN calls' : calls'[j] = calls[f[j]]
  OBVIOUS
<1>. QED  BY <1>1 DEF Thinned

\* Then the dialog may stay, close, or stop asking for a reason.
LEMMA ThinDialog ==
  ASSUME Inv, DialogCalls, Previews, screen' = screen, mount' = mount, Thinned,
         \/ dialog' \in {None, dialog}
         \/ dialog # None /\ dialog' = [dialog EXCEPT !.asking = "no"]
  PROVE  DialogCalls' /\ Previews'
<1>. SUFFICES ASSUME dialog' # None PROVE DialogCalls' /\ Previews'
  BY DEF DialogCalls, Previews
<1>1. /\ dialog # None /\ dialog \in DialogRec
  BY DialogOf
<1>2. /\ dialog'.op = dialog.op /\ dialog'.n = dialog.n /\ dialog'.busy = dialog.busy
      /\ dialog'.preview = dialog.preview /\ dialog'.input = dialog.input
      /\ dialog'.overtaken = dialog.overtaken /\ dialog'.asking \in {"no", dialog.asking}
  BY <1>1 DEF DialogRec
<1>3. PICK f \in [DOMAIN calls' -> DOMAIN calls] :
        /\ \A j, k \in DOMAIN calls' : f[j] = f[k] => j = k
        /\ \A j \in DOMAIN calls' : calls'[j] = calls[f[j]]
  BY DEF Thinned
<1>4. \A j \in DOMAIN calls' : (Own(j)' <=> Own(f[j])) /\ (Live(j)' <=> Live(f[j])) /\ f[j] \in DOMAIN calls
  BY <1>2, <1>3 DEF Own, Live
<1>5. /\ Kind(dialog.op)' = Kind(dialog.op)
      /\ \A flag : Is(dialog.op, flag)' = Is(dialog.op, flag)
  BY <1>2 DEF Kind, Is, Page
<1>6. OwnOK /\ OneLive /\ IdleOK /\ ReasonOK
  BY <1>1 DEF DialogCalls
<1>7. OwnOK'
  BY <1>2, <1>3, <1>4, <1>5, <1>6 DEF OwnOK
<1>8. OneLive'
  BY <1>3, <1>4, <1>6 DEF OneLive
<1>9. IdleOK'
  BY <1>2, <1>3, <1>4, <1>5, <1>6 DEF IdleOK
<1>10. ReasonOK'
  BY <1>2, <1>3, <1>4, <1>5, <1>6 DEF ReasonOK
<1>11. Previews'
  BY <1>1, <1>2, <1>3, <1>4, <1>5 DEF Previews
<1>. QED  BY <1>7, <1>8, <1>9, <1>10, <1>11 DEF DialogCalls

\* A dialog of which nothing is under way any more.
LEMMA SettledDialog ==
  ASSUME Inv, DialogCalls, screen' = screen, mount' = mount, Thinned,
         dialog # None, dialog' # None, dialog'.op = dialog.op, dialog'.n = dialog.n,
         \A j \in DOMAIN calls' : Own(j)' => calls'[j].cancelled,
         dialog'.asking # "no" => Is(dialog.op, "asks") /\ dialog'.busy
  PROVE  DialogCalls'
<1>1. PICK f \in [DOMAIN calls' -> DOMAIN calls] :
        /\ \A j, k \in DOMAIN calls' : f[j] = f[k] => j = k
        /\ \A j \in DOMAIN calls' : calls'[j] = calls[f[j]]
  BY DEF Thinned
<1>2. \A j \in DOMAIN calls' : ~Live(j)' /\ (Own(j)' <=> Own(f[j])) /\ f[j] \in DOMAIN calls
  BY <1>1 DEF Own, Live
<1>3. /\ Kind(dialog.op)' = Kind(dialog.op)
      /\ \A flag : Is(dialog.op, flag)' = Is(dialog.op, flag)
  BY DEF Kind, Is, Page
<1>4. OwnOK
  BY DEF DialogCalls
<1>5. OwnOK'
  BY <1>1, <1>2, <1>3, <1>4 DEF OwnOK
<1>6. OneLive' /\ IdleOK'
  BY <1>2 DEF OneLive, IdleOK
<1>7. ReasonOK'
  BY <1>2, <1>3 DEF ReasonOK
<1>. QED  BY <1>5, <1>6, <1>7 DEF DialogCalls

\* The one request that nobody has called off has been answered.
LEMMA LastOne ==
  ASSUME Inv, DialogCalls, NEW i \in DOMAIN calls, Mine(calls[i]), ~calls[i].cancelled,
         calls' = RemoveAt(calls, i), dialog' # None, dialog'.n = dialog.n
  PROVE  \A j \in DOMAIN calls' : Own(j)' => calls'[j].cancelled
<1>1. calls \in Seq(GoodCall)
  BY DEF Inv, RequestsOK
<1>2. PICK f \in [DOMAIN calls' -> DOMAIN calls \ {i}] :
        \A j \in DOMAIN calls' : calls'[j] = calls[f[j]]
  BY <1>1, Left
<1>3. OneLive /\ Live(i)
  BY DEF DialogCalls, Mine, Live, Own
<1>. QED  BY <1>2, <1>3 DEF OneLive, Live, Own

LEMMA ThinPreviews ==
  ASSUME Inv, Previews, screen' = screen, Thinned,
         dialog # None, dialog' # None, dialog'.op = dialog.op, dialog'.n = dialog.n,
         dialog'.input = dialog.input, dialog'.overtaken = dialog.overtaken,
         \/ dialog'.preview \in {dialog.preview, None}
         \/ dialog'.preview = dialog.input
         \/ dialog.overtaken
  PROVE  Previews'
<1>1. PICK f \in [DOMAIN calls' -> DOMAIN calls] :
        \A j \in DOMAIN calls' : calls'[j] = calls[f[j]]
  BY DEF Thinned
<1>2. \A j \in DOMAIN calls' : (Own(j)' <=> Own(f[j])) /\ f[j] \in DOMAIN calls
  BY <1>1 DEF Own
<1>3. Kind(dialog.op)' = Kind(dialog.op)
  BY DEF Kind, Page
<1>. QED  BY <1>1, <1>2, <1>3 DEF Previews

\* A dialog of which nothing is under way sends a request.
LEMMA SentDialog ==
  ASSUME Inv, DialogCalls, Previews, Quiet, dialog # None, NEW dry \in BOOLEAN, calls' = Sent(dry),
         \A i \in DOMAIN calls : ~Live(i),
         dialog' # None, dialog'.op = dialog.op, dialog'.n = dialog.n,
         dialog'.input = dialog.input, dialog'.overtaken = dialog.overtaken,
         dialog'.preview = dialog.preview, dialog'.asking # "open",
         Kind(dialog.op) # "confirm" => dialog'.busy,
         dialog'.asking # "no" => Is(dialog.op, "asks") /\ dialog'.busy
  PROVE  DialogCalls' /\ Previews'
<1>. DEFINE c == [Call(dialog.op, dry) EXCEPT !.n = dialog.n]
            last == Len(calls) + 1
<1>1. /\ c.op = dialog.op /\ c.n = dialog.n /\ c.mount = mount /\ c.input = dialog.input
      /\ c.phase = "sent" /\ c.cancelled = FALSE
  BY DEF Call
<1>2. calls \in Seq(GoodCall) /\ calls' = Append(calls, c)
  BY DEF Inv, RequestsOK, Sent
<1>. HIDE DEF c
<1>3. /\ DOMAIN calls' = DOMAIN calls \union {last} /\ last \notin DOMAIN calls
      /\ calls'[last] = c /\ \A i \in DOMAIN calls : calls'[i] = calls[i]
  BY <1>2
<1>. HIDE DEF last
<1>4. /\ \A i \in DOMAIN calls : ~Live(i)' /\ (Own(i)' <=> Own(i))
      /\ screen' = screen /\ mount' = mount
  BY <1>3 DEF Live, Own, Quiet
<1>5. /\ Kind(dialog.op)' = Kind(dialog.op)
      /\ \A flag : Is(dialog.op, flag)' = Is(dialog.op, flag)
  BY <1>4 DEF Kind, Is, Page
<1>6. OwnOK
  BY DEF DialogCalls
<1>7. OwnOK'
  <2>. SUFFICES ASSUME NEW i \in DOMAIN calls', Own(i)'
                PROVE  /\ calls'[i].op = dialog'.op /\ calls'[i].mount = mount'
                       /\ calls'[i].cancelled =>
                            (Is(dialog.op, "asks") \/ Kind(dialog.op) = "ask")' /\ calls'[i].phase # "reason"
                       /\ calls'[i].phase = "reason" => Is(dialog.op, "asks")'
    BY DEF OwnOK
  <2>1. CASE i = last
    BY <1>1, <1>3, <1>4, <2>1
  <2>2. CASE i # last
    BY <1>3, <1>4, <1>5, <1>6, <2>2 DEF OwnOK
  <2>. QED  BY <2>1, <2>2
<1>8. OneLive'
  BY <1>3, <1>4 DEF OneLive
<1>9. IdleOK'
  BY <1>5 DEF IdleOK
<1>10. ReasonOK'
  BY <1>1, <1>3, <1>4, <1>5 DEF ReasonOK
<1>11. Previews'
  BY <1>1, <1>3, <1>4, <1>5 DEF Previews
<1>. QED  BY <1>7, <1>8, <1>9, <1>10, <1>11 DEF DialogCalls

\* Another input is chosen, nothing else changes.
LEMMA OtherInput ==
  ASSUME Inv, DialogCalls, screen' = screen, mount' = mount, calls' = calls, dialog # None, dialog' # None,
         dialog'.op = dialog.op, dialog'.n = dialog.n, dialog'.busy = dialog.busy,
         dialog'.asking = dialog.asking, dialog'.preview \in {dialog.preview, None}
  PROVE  DialogCalls'
<1>1. \A j \in DOMAIN calls : (Own(j)' <=> Own(j)) /\ (Live(j)' <=> Live(j))
  BY DEF Own, Live
<1>2. /\ Kind(dialog.op)' = Kind(dialog.op)
      /\ \A flag : Is(dialog.op, flag)' = Is(dialog.op, flag)
  BY DEF Kind, Is, Page
<1>3. OwnOK /\ OneLive /\ IdleOK /\ ReasonOK
  BY DEF DialogCalls
<1>4. OwnOK'
  BY <1>1, <1>2, <1>3 DEF OwnOK
<1>5. OneLive'
  BY <1>1, <1>3 DEF OneLive
<1>6. IdleOK'
  BY <1>1, <1>2, <1>3 DEF IdleOK
<1>7. ReasonOK'
  BY <1>1, <1>2, <1>3 DEF ReasonOK
<1>. QED  BY <1>4, <1>5, <1>6, <1>7 DEF DialogCalls

\* While nothing is under way there is nothing that the new input overtakes.
LEMMA ChangedInput ==
  ASSUME Inv, DialogCalls, Previews, ChangeInput \/ DefaultDrifts
  PROVE  DialogCalls' /\ Previews'
<1>. SUFFICES ASSUME dialog' # None PROVE DialogCalls' /\ Previews'
  BY DEF DialogCalls, Previews
<1>1. /\ dialog # None /\ dialog \in DialogRec /\ calls' = calls /\ screen' = screen /\ mount' = mount
      /\ dialog.op \in PageOps /\ dialog.busy \in BOOLEAN
  BY DialogOf DEF ChangeInput, DefaultDrifts, Quiet, DialogRec
<1>2. CASE ChangeInput
  <2>1. /\ dialog' = [dialog EXCEPT !.input = 1 - @, !.preview = None, !.overtaken = @ \/ dialog.busy]
        /\ Kind(dialog.op) = "import" /\ ~Is(dialog.op, "auto")
    BY <1>2 DEF ChangeInput
  <2>2. /\ dialog'.op = dialog.op /\ dialog'.n = dialog.n /\ dialog'.busy = dialog.busy
        /\ dialog'.asking = dialog.asking /\ dialog'.preview = None
        /\ dialog'.overtaken = (dialog.overtaken \/ dialog.busy)
    BY <1>1, <2>1 DEF DialogRec
  <2>3. DialogCalls'
    BY <1>1, <2>2, OtherInput
  <2>4. OwnOK /\ IdleOK
    BY <1>1 DEF DialogCalls
  <2>5. dialog.busy \/ \A i \in DOMAIN calls : ~Own(i)
    BY <1>1, <2>1, <2>4, Flags DEF OwnOK, IdleOK, Live
  <2>6. Previews'
    BY <1>1, <2>2, <2>5 DEF Previews, Own
  <2>. QED  BY <2>3, <2>6
<1>3. CASE DefaultDrifts
  <2>1. dialog' = [dialog EXCEPT !.input = 1 - @, !.overtaken = TRUE]
    BY <1>3 DEF DefaultDrifts
  <2>2. /\ dialog'.op = dialog.op /\ dialog'.n = dialog.n /\ dialog'.busy = dialog.busy
        /\ dialog'.asking = dialog.asking /\ dialog'.preview = dialog.preview /\ dialog'.overtaken
    BY <1>1, <2>1 DEF DialogRec
  <2>3. DialogCalls'
    BY <1>1, <2>2, OtherInput
  <2>4. Previews'
    BY <2>2 DEF Previews
  <2>. QED  BY <2>3, <2>4
<1>. QED  BY <1>2, <1>3

\* A request of a dialog is sent only while no other one of it is under way.
LEMMA SendingDialog ==
  ASSUME Inv, Inv2, DryRun \/ Submit \/ SubmitReason
  PROVE  DialogCalls' /\ Previews'
<1>. SUFFICES ASSUME dialog' # None PROVE DialogCalls' /\ Previews'
  BY DEF DialogCalls, Previews
<1>. USE DEF Inv2
<1>1. /\ Quiet /\ dialog # None /\ dialog \in DialogRec /\ dialog.op \in PageOps /\ dialog.busy \in BOOLEAN
      /\ dialog.asking \in {"no", "open", "busy"}
  BY DialogOf DEF DryRun, Submit, SubmitReason, DialogRec
<1>2. OwnOK /\ IdleOK /\ ReasonOK
  BY <1>1 DEF DialogCalls
<1>3. Is(dialog.op, "asks") => Kind(dialog.op) = "form"
  BY <1>1, Flags
<1>4. CASE DryRun
  <2>1. /\ dialog' = [dialog EXCEPT !.busy = TRUE] /\ calls' = Sent(TRUE) /\ ~dialog.busy
        /\ Kind(dialog.op) = "import" /\ ~Is(dialog.op, "auto")
    BY <1>4 DEF DryRun
  <2>2. /\ dialog'.op = dialog.op /\ dialog'.n = dialog.n /\ dialog'.busy = TRUE
        /\ dialog'.asking = dialog.asking /\ dialog'.preview = dialog.preview
        /\ dialog'.overtaken = dialog.overtaken /\ dialog'.input = dialog.input
    BY <1>1, <2>1 DEF DialogRec
  <2>3. dialog.asking = "no"
    BY <1>2, <2>1 DEF ReasonOK
  <2>4. \A i \in DOMAIN calls : ~Live(i)
    BY <1>2, <2>1 DEF IdleOK
  <2>5. TRUE \in BOOLEAN
    OBVIOUS
  <2>. QED  BY <1>1, <2>1, <2>2, <2>3, <2>4, <2>5, SentDialog
<1>5. CASE Submit /\ Kind(dialog.op) = "confirm"
  <2>1. dialog' = dialog /\ calls' = Sent(FALSE) /\ dialog.op \notin confirm
    BY <1>5 DEF Submit
  <2>2. dialog.asking = "no"
    BY <1>2, <1>3, <1>5 DEF ReasonOK
  <2>3. Deleting(dialog.op) = {}
    BY <1>1, <1>5, <2>1 DEF Confirms, ConfirmOK
  <2>4. \A i \in DOMAIN calls : ~Live(i)
    BY <1>2, <2>3 DEF OwnOK, Live, Deleting
  <2>5. FALSE \in BOOLEAN
    OBVIOUS
  <2>. QED  BY <1>1, <1>5, <2>1, <2>2, <2>4, <2>5, SentDialog
<1>6. CASE Submit /\ Kind(dialog.op) # "confirm"
  <2>1. /\ dialog' = [dialog EXCEPT !.busy = TRUE] /\ calls' = Sent(FALSE) /\ ~dialog.busy
        /\ Kind(dialog.op) = "import" => dialog.preview # None
    BY <1>6 DEF Submit
  <2>2. /\ dialog'.op = dialog.op /\ dialog'.n = dialog.n /\ dialog'.busy = TRUE
        /\ dialog'.asking = dialog.asking /\ dialog'.preview = dialog.preview
        /\ dialog'.overtaken = dialog.overtaken /\ dialog'.input = dialog.input
    BY <1>1, <2>1 DEF DialogRec
  <2>3. dialog.asking = "no"
    BY <1>2, <2>1 DEF ReasonOK
  <2>4. \A i \in DOMAIN calls : ~Live(i)
    BY <1>1, <1>2, <1>6, <2>1, Flags DEF IdleOK
  <2>5. FALSE \in BOOLEAN
    OBVIOUS
  <2>. QED  BY <1>1, <2>1, <2>2, <2>3, <2>4, <2>5, SentDialog
<1>7. CASE SubmitReason
  <2>1. dialog' = [dialog EXCEPT !.asking = "busy"] /\ calls' = Sent(FALSE) /\ dialog.asking = "open"
    BY <1>7 DEF SubmitReason
  <2>2. /\ dialog'.op = dialog.op /\ dialog'.n = dialog.n /\ dialog'.busy = dialog.busy
        /\ dialog'.asking = "busy" /\ dialog'.preview = dialog.preview
        /\ dialog'.overtaken = dialog.overtaken /\ dialog'.input = dialog.input
    BY <1>1, <2>1 DEF DialogRec
  <2>3. Is(dialog.op, "asks") /\ dialog.busy /\ \A i \in DOMAIN calls : ~Live(i)
    BY <1>2, <2>1 DEF ReasonOK
  <2>4. FALSE \in BOOLEAN
    OBVIOUS
  <2>. QED  BY <1>1, <2>1, <2>2, <2>3, <2>4, SentDialog
<1>. QED  BY <1>4, <1>5, <1>6, <1>7

\* No request has the number of the dialog that opens.
LEMMA OpenedDialog ==
  ASSUME Inv, NEW op \in Ops, Open(op)
  PROVE  DialogCalls' /\ Previews'
<1>. SUFFICES ASSUME dialog' # None PROVE DialogCalls' /\ Previews'
  BY DEF DialogCalls, Previews
<1>. DEFINE last == Len(calls) + 1
<1>1. /\ screen' = screen /\ mount' = mount /\ dialog = None /\ op \in PageOps
      /\ dialog' = [op |-> op, n |-> inputs, busy |-> FALSE, asking |-> "no", input |-> 0,
                    preview |-> None, done |-> FALSE, overtaken |-> FALSE]
      /\ calls' = IF Is(op, "auto") THEN Append(calls, Call(op, TRUE)) ELSE calls
  BY PageKnown DEF Open, Quiet, Inv
<1>2. /\ dialog'.op = op /\ dialog'.n = inputs /\ dialog'.busy = FALSE /\ dialog'.asking = "no"
      /\ dialog'.input = 0 /\ dialog'.preview = None
  BY <1>1
<1>3. \A i \in DOMAIN calls : calls[i].n # inputs
  BY CallOf, Counters DEF GoodCall, CallRec
<1>4. Call(op, TRUE).dry
  BY DEF Call
<1>5. calls \in Seq(GoodCall)
  BY DEF Inv, RequestsOK
<1>6. \A i \in DOMAIN calls' : Own(i)' =>
        /\ i = last /\ Is(op, "auto") /\ calls'[i].op = op /\ calls'[i].mount = mount
        /\ calls'[i].dry /\ calls'[i].input = 0 /\ calls'[i].phase = "sent" /\ calls'[i].cancelled = FALSE
  <2>1. CASE Is(op, "auto")
    <3>. DEFINE c == Call(op, TRUE)
    <3>1. calls' = Append(calls, c)
      BY <1>1, <2>1
    <3>2. /\ c.op = op /\ c.mount = mount /\ c.input = 0 /\ c.phase = "sent"
          /\ c.cancelled = FALSE
      BY <1>1 DEF Call
    <3>4. c.dry
      BY <1>4
    <3>. HIDE DEF c
    <3>3. /\ DOMAIN calls' = DOMAIN calls \union {last} /\ calls'[last] = c
          /\ \A i \in DOMAIN calls : calls'[i] = calls[i]
      BY <1>5, <3>1
    <3>. HIDE DEF last
    <3>. QED  BY <1>2, <1>3, <2>1, <3>2, <3>3, <3>4 DEF Own
  <2>2. CASE ~Is(op, "auto")
    BY <1>1, <1>2, <1>3, <2>2 DEF Own
  <2>. QED  BY <2>1, <2>2
<1>. HIDE DEF last
<1>7. \A flag : Is(op, flag)' = Is(op, flag)
  BY <1>1, FlagsKept
<1>8. OwnOK' /\ OneLive'
  BY <1>1, <1>2, <1>6 DEF OwnOK, OneLive, Live
<1>9. IdleOK'
  BY <1>2, <1>6, <1>7 DEF IdleOK, Live
<1>10. ReasonOK'
  BY <1>2 DEF ReasonOK
<1>11. Previews'
  BY <1>2, <1>6 DEF Previews
<1>. QED  BY <1>8, <1>9, <1>10, <1>11 DEF DialogCalls

\* Whoever gives no reason calls off what asks for it.
LEMMA CancelledDialog ==
  ASSUME Inv, DialogCalls, Previews, CancelReason
  PROVE  DialogCalls' /\ Previews'
<1>. SUFFICES ASSUME dialog' # None PROVE DialogCalls' /\ Previews'
  BY DEF DialogCalls, Previews
<1>1. /\ screen' = screen /\ mount' = mount /\ dialog # None /\ dialog.asking # "no" /\ dialog \in DialogRec
      /\ dialog' = [dialog EXCEPT !.asking = "no", !.busy = FALSE] /\ calls' = Cancelled
      /\ dialog.op \in PageOps /\ dialog.asking \in {"no", "open", "busy"}
  BY DialogOf DEF CancelReason, Quiet, DialogRec
<1>2. /\ dialog'.op = dialog.op /\ dialog'.n = dialog.n /\ dialog'.asking = "no"
      /\ dialog'.input = dialog.input /\ dialog'.overtaken = dialog.overtaken
      /\ dialog'.preview = dialog.preview
  BY <1>1 DEF DialogRec
<1>3. OwnOK /\ ReasonOK
  BY <1>1 DEF DialogCalls
<1>4. /\ DOMAIN calls' = DOMAIN calls
      /\ \A i \in DOMAIN calls :
           /\ calls'[i].op = calls[i].op /\ calls'[i].n = calls[i].n /\ calls'[i].mount = calls[i].mount
           /\ calls'[i].input = calls[i].input /\ calls'[i].phase = calls[i].phase
           /\ calls'[i].cancelled = (calls[i].cancelled \/ Mine(calls[i]))
  <2>1. ASSUME NEW i \in DOMAIN calls PROVE calls[i] \in CallRec
    BY CallOf DEF GoodCall
  <2>. QED  BY <1>1, <2>1 DEF Cancelled, CallRec
<1>5. /\ \A flag : Is(dialog.op, flag)' = Is(dialog.op, flag)
      /\ Kind(dialog.op)' = Kind(dialog.op)
  BY <1>1, <1>2 DEF Is, Kind, Page
<1>6. \A i \in DOMAIN calls : (Own(i)' <=> Own(i)) /\ (Own(i) => Mine(calls[i]))
  BY <1>1, <1>2, <1>3, <1>4 DEF Own, OwnOK, Mine
<1>7. \A i \in DOMAIN calls : ~Live(i)'
  BY <1>4, <1>6 DEF Live
<1>8. \A i \in DOMAIN calls : Own(i) => calls[i].phase # "reason"
  BY <1>1, <1>3 DEF OwnOK, ReasonOK, Live
<1>9. OwnOK'
  BY <1>1, <1>2, <1>3, <1>4, <1>5, <1>6, <1>8 DEF OwnOK, ReasonOK
<1>10. OneLive' /\ IdleOK' /\ ReasonOK'
  BY <1>2, <1>4, <1>7 DEF OneLive, IdleOK, ReasonOK
<1>11. Previews'
  BY <1>1, <1>2, <1>4, <1>5, <1>6 DEF Previews
<1>. QED  BY <1>9, <1>10, <1>11 DEF DialogCalls

\* The API asks for a reason only if the dialog is not asking already.
LEMMA ServedDialog ==
  ASSUME Inv, DialogCalls, Previews, NEW i \in DOMAIN calls, ServeCall(i)
  PROVE  DialogCalls' /\ Previews'
<1>. SUFFICES ASSUME dialog' # None PROVE DialogCalls' /\ Previews'
  BY DEF DialogCalls, Previews
<1>1. screen' = screen /\ mount' = mount /\ dialog' = dialog /\ dialog # None
  BY DEF ServeCall, dialogVars
<1>2. /\ DOMAIN calls' = DOMAIN calls
      /\ \A j \in DOMAIN calls :
           /\ calls'[j].op = calls[j].op /\ calls'[j].n = calls[j].n /\ calls'[j].mount = calls[j].mount
           /\ calls'[j].input = calls[j].input /\ calls'[j].dry = calls[j].dry
           /\ calls'[j].cancelled = calls[j].cancelled
           /\ calls'[j].phase = "reason" =>
                \/ calls[j].phase = "reason"
                \/ Is(calls[j].op, "asks") /\ dialog.asking = "no" /\ ~calls[j].cancelled
  <2>1. ASSUME NEW j \in DOMAIN calls PROVE calls[j] \in CallRec
    BY CallOf DEF GoodCall
  <2>2. \/ calls' = [calls EXCEPT ![i].phase = "ok", ![i].at = server', ![i].by = session]
        \/ calls' = [calls EXCEPT ![i].phase = "failed"]
        \/ calls' = [calls EXCEPT ![i].phase = "refused"]
        \/ /\ calls' = [calls EXCEPT ![i].phase = "reason"]
           /\ Is(calls[i].op, "asks") /\ dialog.asking = "no" /\ ~calls[i].cancelled
    BY DEF ServeCall
  <2>3. DOMAIN calls' = DOMAIN calls /\ \A j \in DOMAIN calls \ {i} : calls'[j] = calls[j]
    BY <2>2
  <2>4. \/ calls'[i] = [calls[i] EXCEPT !.phase = "ok", !.at = server', !.by = session]
        \/ calls'[i] = [calls[i] EXCEPT !.phase = "failed"]
        \/ calls'[i] = [calls[i] EXCEPT !.phase = "refused"]
        \/ /\ calls'[i] = [calls[i] EXCEPT !.phase = "reason"]
           /\ Is(calls[i].op, "asks") /\ dialog.asking = "no" /\ ~calls[i].cancelled
    BY <2>2
  <2>5. /\ calls'[i].op = calls[i].op /\ calls'[i].n = calls[i].n /\ calls'[i].mount = calls[i].mount
        /\ calls'[i].input = calls[i].input /\ calls'[i].dry = calls[i].dry
        /\ calls'[i].cancelled = calls[i].cancelled
        /\ calls'[i].phase = "reason" =>
             Is(calls[i].op, "asks") /\ dialog.asking = "no" /\ ~calls[i].cancelled
    <3>1. calls[i] \in CallRec
      BY <2>1
    <3>2. CASE calls'[i] = [calls[i] EXCEPT !.phase = "ok", !.at = server', !.by = session]
      BY <3>1, <3>2 DEF CallRec
    <3>3. ASSUME NEW p, calls'[i] = [calls[i] EXCEPT !.phase = p]
          PROVE  /\ calls'[i].op = calls[i].op /\ calls'[i].n = calls[i].n
                 /\ calls'[i].mount = calls[i].mount /\ calls'[i].input = calls[i].input
                 /\ calls'[i].dry = calls[i].dry /\ calls'[i].cancelled = calls[i].cancelled
                 /\ calls'[i].phase = p
      BY <3>1, <3>3 DEF CallRec
    <3>. QED  BY <2>4, <3>2, <3>3
  <2>. QED  BY <2>3, <2>5
<1>3. /\ \A flag : Is(dialog.op, flag)' = Is(dialog.op, flag)
      /\ Kind(dialog.op)' = Kind(dialog.op)
  BY <1>1 DEF Is, Kind, Page
<1>4. OwnOK /\ OneLive /\ IdleOK /\ ReasonOK
  BY <1>1 DEF DialogCalls
<1>5. \A j \in DOMAIN calls : (Own(j)' <=> Own(j)) /\ (Live(j)' <=> Live(j))
  BY <1>1, <1>2 DEF Own, Live
<1>6. OwnOK'
  BY <1>1, <1>2, <1>3, <1>4, <1>5 DEF OwnOK
<1>7. OneLive'
  BY <1>2, <1>4, <1>5 DEF OneLive
<1>8. IdleOK'
  BY <1>1, <1>2, <1>3, <1>4, <1>5 DEF IdleOK
<1>9. ReasonOK'
  BY <1>1, <1>2, <1>3, <1>4, <1>5 DEF ReasonOK
<1>10. Previews'
  BY <1>1, <1>2, <1>3, <1>5 DEF Previews
<1>. QED  BY <1>6, <1>7, <1>8, <1>9, <1>10 DEF DialogCalls

\* The answers that the open dialog waits for.
LEMMA AnsweredDialog ==
  ASSUME Inv, DialogCalls, Previews, NEW i \in DOMAIN calls,
         FormStays(i) \/ Previewed(i) \/ Imported(i) \/ ReasonNeeded(i) \/ CallFailed(i)
  PROVE  DialogCalls' /\ Previews'
<1>. SUFFICES ASSUME dialog' # None PROVE DialogCalls' /\ Previews'
  BY DEF DialogCalls, Previews
<1>. DEFINE c == calls[i]
<1>1. /\ screen' = screen /\ mount' = mount /\ calls' = RemoveAt(calls, i)
  BY DEF FormStays, Previewed, Imported, ReasonNeeded, CallFailed, Succeeded, Stay, Quiet, Done
<1>2. Thinned
  BY <1>1, ThinnedByRemoval
<1>3. CASE dialog' = dialog
  BY <1>1, <1>2, <1>3, ThinDialog
<1>4. CASE Mine(c) /\ ~(CallFailed(i) /\ c.cancelled)
  <2>1. /\ dialog # None /\ dialog \in DialogRec /\ dialog.op = c.op /\ dialog.op \in PageOps
        /\ dialog.busy \in BOOLEAN /\ Own(i)
    BY <1>4, DialogOf DEF Mine, DialogRec, Own
  <2>2. OwnOK /\ IdleOK /\ ReasonOK
    BY <2>1 DEF DialogCalls
  <2>3. /\ Is(dialog.op, "asks") => Kind(dialog.op) = "form" /\ ~Is(dialog.op, "stays")
        /\ Is(dialog.op, "auto") => Kind(dialog.op) = "import"
    BY <2>1, Flags
  <2>4. ~c.cancelled
    <3>1. CASE FormStays(i)
      BY <2>1, <2>2, <2>3, <3>1 DEF FormStays, Succeeded, OwnOK
    <3>2. CASE Previewed(i) \/ Imported(i)
      BY <2>1, <2>2, <2>3, <3>2 DEF Previewed, Imported, Succeeded, OwnOK
    <3>3. CASE ReasonNeeded(i)
      BY <2>1, <2>2, <3>3 DEF ReasonNeeded, OwnOK
    <3>. QED  BY <1>4, <3>1, <3>2, <3>3
  <2>5. /\ dialog'.op = dialog.op /\ dialog'.n = dialog.n
        /\ dialog'.input = dialog.input /\ dialog'.overtaken = dialog.overtaken
        /\ \/ dialog'.preview \in {dialog.preview, None}
           \/ Previewed(i) /\ dialog'.preview = c.input
        /\ dialog'.asking # "no" => Is(dialog.op, "asks") /\ dialog'.busy
    <3>1. CASE FormStays(i)
      <4>1. dialog' = [dialog EXCEPT !.busy = FALSE, !.done = TRUE] /\ Is(dialog.op, "stays")
        BY <1>4, <2>1, <3>1 DEF FormStays
      <4>. QED  BY <2>1, <2>2, <2>3, <4>1 DEF DialogRec, ReasonOK
    <3>2. CASE Previewed(i)
      <4>1. dialog' = [dialog EXCEPT !.preview = c.input, !.busy = FALSE] /\ Kind(dialog.op) = "import"
        BY <1>4, <2>1, <3>2 DEF Previewed, Succeeded
      <4>. QED  BY <2>1, <2>2, <2>3, <3>2, <4>1 DEF DialogRec, ReasonOK
    <3>3. CASE Imported(i)
      <4>1. dialog' = [dialog EXCEPT !.busy = FALSE, !.done = TRUE] /\ Kind(dialog.op) = "import"
        BY <1>4, <2>1, <3>3 DEF Imported, Succeeded
      <4>. QED  BY <2>1, <2>2, <2>3, <4>1 DEF DialogRec, ReasonOK
    <3>4. CASE ReasonNeeded(i)
      <4>1. dialog' = [dialog EXCEPT !.asking = "open"] /\ Is(dialog.op, "asks")
        BY <1>4, <2>1, <2>2, <3>4 DEF ReasonNeeded, OwnOK
      <4>2. dialog.busy
        BY <2>1, <2>2, <2>3, <2>4, <4>1 DEF IdleOK, Live
      <4>. QED  BY <2>1, <4>1, <4>2 DEF DialogRec
    <3>5. CASE CallFailed(i)
      <4>1. dialog' = [dialog EXCEPT !.busy = dialog.asking # "no",
                         !.asking = IF @ = "busy" THEN "open" ELSE @,
                         !.preview = IF Is(c.op, "auto") THEN @ ELSE None]
        BY <1>4, <3>5 DEF CallFailed
      <4>2. /\ dialog'.op = dialog.op /\ dialog'.n = dialog.n
            /\ dialog'.input = dialog.input /\ dialog'.overtaken = dialog.overtaken
            /\ dialog'.preview \in {dialog.preview, None}
            /\ dialog'.asking = IF dialog.asking = "busy" THEN "open" ELSE dialog.asking
            /\ dialog'.busy = (dialog.asking # "no")
        BY <2>1, <4>1 DEF DialogRec
      <4>. QED  BY <2>2, <4>2 DEF ReasonOK
    <3>. QED  BY <3>1, <3>2, <3>3, <3>4, <3>5
  <2>6. \A j \in DOMAIN calls' : Own(j)' => calls'[j].cancelled
    BY <1>1, <1>4, <2>4, <2>5, LastOne
  <2>7. DialogCalls'
    BY <1>1, <1>2, <2>1, <2>5, <2>6, SettledDialog
  <2>8. Previewed(i) => c.input = dialog.input \/ dialog.overtaken
    BY <2>1 DEF Previewed, Succeeded, Previews
  <2>9. Previews'
    BY <1>1, <1>2, <2>1, <2>5, <2>8, ThinPreviews
  <2>. QED  BY <2>7, <2>9
<1>5. ~Mine(c) \/ (CallFailed(i) /\ c.cancelled) => dialog' = dialog
  BY DEF FormStays, Previewed, Imported, ReasonNeeded, CallFailed
<1>. QED  BY <1>3, <1>4, <1>5

\* Every other step leaves the dialog as it is, or closes it, or stops asking.
LEMMA OtherDialogs ==
  ASSUME Inv, DialogCalls, Previews,
         \/ navigate \/ Select \/ Close \/ Poll \/ logout \/ Expire \/ UNCHANGED vars
         \/ \E op \in Ops : Press(op)
         \/ \E u \in Users : login(u)
         \/ \E i \in DOMAIN gets : ServeGet(i) \/ GetAnswered(i) \/ GetFailed(i) \/ GetRefused(i)
         \/ \E i \in DOMAIN calls :
              \/ FormSaved(i) \/ FormAnswers(i) \/ FormPicks(i) \/ FormLeaves(i) \/ Confirmed(i)
              \/ Pressed(i) \/ Asked(i) \/ CallForgotten(i) \/ CallRefused(i)
         \/ \E i \in DOMAIN auth : ServeAuth(i) \/ Enter(i) \/ Leave(i) \/ BarShown(i) \/ AuthEnds(i)
  PROVE  DialogCalls' /\ Previews'
<1>. SUFFICES ASSUME dialog' # None PROVE DialogCalls' /\ Previews'
  BY DEF DialogCalls, Previews
<1>1. /\ ~navigate /\ ~Close /\ ~\E op \in Ops : Press(op)
      /\ ~\E i \in DOMAIN gets : GetRefused(i)
      /\ ~\E i \in DOMAIN calls : FormLeaves(i) \/ CallRefused(i)
      /\ ~\E i \in DOMAIN auth : Enter(i) \/ Leave(i)
  BY DEF navigate, Close, Press, GetRefused, FormLeaves, CallRefused, Enter, Leave, Mount, Unauthorized,
         Clear, dialogVars
<1>2. CASE \/ Select \/ Poll \/ logout \/ Expire \/ UNCHANGED vars
           \/ \E u \in Users : login(u)
           \/ \E i \in DOMAIN auth : ServeAuth(i) \/ BarShown(i) \/ AuthEnds(i)
  <2>1. screen' = screen /\ mount' = mount /\ calls' = calls /\ dialog' = dialog
    BY <1>2 DEF Select, Poll, logout, Expire, login, ServeAuth, BarShown, AuthEnds, Elsewhere, dialogVars, vars
  <2>. QED  BY <2>1, ThinnedByNothing, ThinDialog
<1>3. CASE \E i \in DOMAIN gets : ServeGet(i) \/ GetAnswered(i) \/ GetFailed(i)
  <2>1. screen' = screen /\ mount' = mount /\ calls' = calls /\ dialog' \in {None, dialog}
    BY <1>3 DEF ServeGet, GetAnswered, GetFailed, CloseConfirm, dialogVars
  <2>. QED  BY <2>1, ThinnedByNothing, ThinDialog
<1>4. ASSUME NEW i \in DOMAIN calls,
             \/ FormSaved(i) \/ FormAnswers(i) \/ FormPicks(i) \/ Confirmed(i)
             \/ Pressed(i) \/ Asked(i) \/ CallForgotten(i)
      PROVE  DialogCalls' /\ Previews'
  <2>1. screen' = screen /\ mount' = mount /\ calls' = RemoveAt(calls, i)
    BY <1>4 DEF FormSaved, FormAnswers, FormPicks, Confirmed, Pressed, Asked, CallForgotten, Succeeded,
                Done, Stay, Quiet
  <2>2. \/ dialog' \in {None, dialog}
        \/ dialog # None /\ dialog' = [dialog EXCEPT !.asking = "no"]
    BY <1>4 DEF FormSaved, FormAnswers, FormPicks, Confirmed, Pressed, Asked, CallForgotten, StopAsking,
                CloseAny, dialogVars
  <2>. QED  BY <2>1, <2>2, ThinnedByRemoval, ThinDialog
<1>. QED  BY <1>1, <1>2, <1>3, <1>4

-----------------------------------------------------------------------------
\* ConfirmDialog.

\* What is under way for an operation gets no more.
DelShrinks(op) ==
  /\ Lone(Deleting(op)) => Lone(Deleting(op)')
  /\ Deleting(op) = {} => Deleting(op)' = {}
EndShrinks(op) ==
  /\ Lone(Ending(op)) => Lone(Ending(op)')
  /\ Ending(op) = {} => Ending(op)' = {}

LEMMA ConfirmKept ==
  ASSUME NEW op, ConfirmOK(op), DelShrinks(op), EndShrinks(op), op \in confirm => op \in confirm'
  PROVE  ConfirmOK(op)'
BY DEF ConfirmOK, DelShrinks, EndShrinks

\* The same calls, some of them perhaps gone.
LEMMA DelByMap ==
  ASSUME mount' = mount, NEW f \in [DOMAIN calls' -> DOMAIN calls],
         \A j, k \in DOMAIN calls' : f[j] = f[k] => j = k,
         \A j \in DOMAIN calls' : calls'[j].op = calls[f[j]].op /\ calls'[j].mount = calls[f[j]].mount,
         NEW op
  PROVE  DelShrinks(op)
<1>1. \A j \in Deleting(op)' : f[j] \in Deleting(op) /\ j \in DOMAIN calls'
  BY DEF Deleting
<1>2. Deleting(op) = {} => Deleting(op)' = {}
  BY <1>1
<1>3. Lone(Deleting(op)) => Lone(Deleting(op)')
  BY <1>1 DEF Lone
<1>. QED  BY <1>2, <1>3 DEF DelShrinks

LEMMA DelByThinning == ASSUME mount' = mount, Thinned, NEW op PROVE DelShrinks(op)
BY DelByMap DEF Thinned

LEMMA DelByChange ==
  ASSUME mount' = mount, DOMAIN calls' = DOMAIN calls,
         \A j \in DOMAIN calls : calls'[j].op = calls[j].op /\ calls'[j].mount = calls[j].mount,
         NEW op
  PROVE  DelShrinks(op)
<1>1. Deleting(op)' = Deleting(op)
  BY DEF Deleting
<1>. QED  BY <1>1 DEF DelShrinks

LEMMA DelByAppend ==
  ASSUME Inv, mount' = mount, NEW c, calls' = Append(calls, c), NEW op
  PROVE  /\ op # c.op => DelShrinks(op)
         /\ Deleting(op) = {} => Lone(Deleting(op)')
<1>1. calls \in Seq(GoodCall)
  BY DEF Inv, RequestsOK
<1>2. /\ DOMAIN calls' = DOMAIN calls \union {Len(calls) + 1} /\ calls'[Len(calls) + 1] = c
      /\ \A i \in DOMAIN calls : calls'[i] = calls[i]
  BY <1>1
<1>3. Deleting(op)' \subseteq Deleting(op) \union {Len(calls) + 1}
  BY <1>2 DEF Deleting
<1>4. op # c.op => Deleting(op)' \subseteq Deleting(op)
  BY <1>2 DEF Deleting
<1>. QED  BY <1>3, <1>4 DEF DelShrinks, Lone

\* The only one is answered.
LEMMA DelDone ==
  ASSUME Inv, mount' = mount, NEW i \in DOMAIN calls, calls' = RemoveAt(calls, i), NEW op,
         i \in Deleting(op), Lone(Deleting(op))
  PROVE  Deleting(op)' = {}
<1>1. calls \in Seq(GoodCall)
  BY DEF Inv, RequestsOK
<1>2. PICK f \in [DOMAIN calls' -> DOMAIN calls \ {i}] :
        \A j \in DOMAIN calls' : calls'[j] = calls[f[j]]
  BY <1>1, Left
<1>3. \A j \in Deleting(op)' : f[j] \in Deleting(op) /\ f[j] # i
  BY <1>2 DEF Deleting
<1>. QED  BY <1>3 DEF Lone

LEMMA EndDone ==
  ASSUME Inv, mount' = mount, NEW i \in DOMAIN gets, gets' = RemoveAt(gets, i), NEW op
  PROVE  /\ EndShrinks(op)
         /\ i \in Ending(op) /\ Lone(Ending(op)) => Ending(op)' = {}
<1>1. gets \in Seq(GoodGet)
  BY DEF Inv, RequestsOK
<1>2. PICK f \in [DOMAIN gets' -> DOMAIN gets \ {i}] :
        /\ \A j, k \in DOMAIN gets' : f[j] = f[k] => j = k
        /\ \A j \in DOMAIN gets' : gets'[j] = gets[f[j]]
  BY <1>1, Left
<1>3. \A j \in Ending(op)' : j \in DOMAIN gets' /\ f[j] \in Ending(op) /\ f[j] # i
  BY <1>2 DEF Ending
<1>4. Lone(Ending(op)) => Lone(Ending(op)')
  BY <1>2, <1>3 DEF Lone
<1>5. Ending(op) = {} => Ending(op)' = {}
  BY <1>3
<1>6. i \in Ending(op) /\ Lone(Ending(op)) => Ending(op)' = {}
  BY <1>3 DEF Lone
<1>. QED  BY <1>4, <1>5, <1>6 DEF EndShrinks

LEMMA EndByChange ==
  ASSUME mount' = mount, DOMAIN gets' = DOMAIN gets,
         \A j \in DOMAIN gets : gets'[j].mount = gets[j].mount /\ gets'[j].closes = gets[j].closes,
         NEW op
  PROVE  EndShrinks(op)
<1>1. Ending(op)' = Ending(op)
  BY DEF Ending
<1>. QED  BY <1>1 DEF EndShrinks

LEMMA EndByNoLoad == ASSUME mount' = mount, gets' = gets, NEW op PROVE EndShrinks(op)
BY EndByChange

\* A reading is sent that ends one operation, or none.
LEMMA EndByLoad ==
  ASSUME Inv, mount' = mount, NEW s, NEW closes, Load(s, closes), NEW op
  PROVE  /\ op # closes => EndShrinks(op)
         /\ Ending(op) = {} => Lone(Ending(op)')
<1>. DEFINE new == [Get(s, mount) EXCEPT !.closes = closes]
            old == IF Watch.guarded THEN [i \in DOMAIN gets |-> [gets[i] EXCEPT !.mount = 0]]
                   ELSE gets
            last == Len(gets) + 1
<1>1. gets' = Append(old, new) /\ new.closes = closes
  BY DEF Load, Get
<1>2. gets \in Seq(GoodGet) /\ mount # 0
  BY Counters DEF Inv, RequestsOK
<1>3. /\ Len(old) = Len(gets) /\ old \in Seq({old[i] : i \in DOMAIN old}) /\ DOMAIN old = DOMAIN gets
  BY <1>2
<1>4. ASSUME NEW i \in DOMAIN gets, old[i].mount = mount
      PROVE  old[i] = gets[i]
  <2>1. gets[i] \in GetRec
    BY GetOf DEF GoodGet
  <2>2. [gets[i] EXCEPT !.mount = 0].mount = 0
    BY <2>1 DEF GetRec
  <2>. QED  BY <1>2, <1>4, <2>2
<1>. HIDE DEF old, new
<1>5. /\ DOMAIN gets' = DOMAIN gets \union {last} /\ gets'[last] = new
      /\ \A i \in DOMAIN gets : gets'[i] = old[i]
  BY <1>1, <1>2, <1>3
<1>. HIDE DEF last
<1>6. Ending(op)' \subseteq Ending(op) \union {last}
  BY <1>4, <1>5 DEF Ending
<1>7. op # closes => Ending(op)' \subseteq Ending(op)
  BY <1>1, <1>4, <1>5 DEF Ending
<1>. QED  BY <1>6, <1>7 DEF EndShrinks, Lone

LEMMA EndByReload ==
  ASSUME Inv, mount' = mount, NEW op \in PageOps,
         \/ NoLoad \/ (\E o, s : ReloadAfter(o, s)) \/ (\E s : Load(s, None))
  PROVE  EndShrinks(op)
BY Flags, EndByLoad, EndByNoLoad DEF ReloadAfter, NoLoad

\* On a screen that is new nothing is under way that ends a ConfirmDialog.
LEMMA ConfirmsCleared ==
  ASSUME Inv, Clear, screen' = screen, calls' \in Seq(GoodCall),
         gets' \in Seq(GoodGet) \/ gets' = Append(gets, Get(0, mount + 1))
  PROVE  Confirms'
<1>1. mount \in Nat /\ mount' = mount + 1
  BY Counters DEF Clear
<1>2. \A i \in DOMAIN calls' : calls'[i].mount # mount'
  <2>1. \A c \in GoodCall : c.mount # mount'
    BY <1>1 DEF GoodCall, CallRec
  <2>. QED  BY <2>1
<1>3. \A i \in DOMAIN gets' : gets'[i].mount = mount' => gets'[i].closes = None
  <2>1. \A g \in GoodGet : g.mount # mount'
    BY <1>1 DEF GoodGet, GetRec
  <2>2. CASE gets' \in Seq(GoodGet)
    BY <2>1, <2>2
  <2>3. CASE gets' = Append(gets, Get(0, mount + 1))
    <3>. DEFINE g == Get(0, mount + 1)
    <3>1. gets' = Append(gets, g) /\ g.closes = None /\ gets \in Seq(GoodGet)
      BY <2>3 DEF Get, Inv, RequestsOK
    <3>. HIDE DEF g
    <3>2. \A i \in DOMAIN gets' : gets'[i] = g \/ gets'[i] \in GoodGet
      BY <3>1
    <3>. QED  BY <2>1, <3>1, <3>2
  <2>. QED  BY <2>2, <2>3
<1>4. ASSUME NEW op \in PageOps PROVE ConfirmOK(op)'
  <2>1. op # None
    BY Flags
  <2>2. Deleting(op)' = {} /\ Ending(op)' = {}
    BY <1>2, <1>3, <2>1 DEF Deleting, Ending
  <2>. QED  BY <2>2 DEF ConfirmOK, Lone
<1>. QED  BY <1>4, FlagsKept DEF Confirms

LEMMA ConfirmsKept ==
  ASSUME Inv, Confirms, screen' = screen, confirm' = confirm,
         \A op \in PageOps : Kind(op) = "confirm" => DelShrinks(op) /\ EndShrinks(op)
  PROVE  Confirms'
<1>1. ASSUME NEW op \in PageOps, Kind(op) = "confirm" PROVE ConfirmOK(op)'
  BY <1>1, ConfirmKept DEF Confirms
<1>. QED  BY <1>1, FlagsKept DEF Confirms

\* The button of ConfirmDialog.
LEMMA SubmitConfirms == ASSUME Inv, Confirms, Submit PROVE Confirms'
<1>. DEFINE c == [Call(dialog.op, FALSE) EXCEPT !.n = dialog.n]
<1>1. /\ screen' = screen /\ mount' = mount /\ gets' = gets /\ calls' = Append(calls, c)
      /\ dialog.op \in PageOps
  BY DialogOf DEF Submit, Quiet, NoLoad, Sent
<1>2. c.op = dialog.op
  BY DEF Call
<1>. HIDE DEF c
<1>3. \A op : EndShrinks(op) /\ (op # dialog.op => DelShrinks(op))
  BY <1>1, <1>2, EndByNoLoad, DelByAppend
<1>4. CASE Kind(dialog.op) # "confirm"
  <2>1. confirm' = confirm
    BY <1>4 DEF Submit
  <2>. QED  BY <1>1, <1>3, <1>4, <2>1, ConfirmsKept
<1>5. CASE Kind(dialog.op) = "confirm"
  <2>1. dialog.op \notin confirm /\ confirm' = confirm \union {dialog.op}
    BY <1>5 DEF Submit
  <2>2. ASSUME NEW op \in PageOps, Kind(op) = "confirm" PROVE ConfirmOK(op)'
    <3>1. ConfirmOK(op)
      BY <2>2 DEF Confirms
    <3>2. CASE op # dialog.op
      BY <1>3, <2>1, <3>1, <3>2, ConfirmKept
    <3>3. CASE op = dialog.op
      <4>1. Deleting(op) = {} /\ Ending(op) = {}
        BY <2>1, <3>1, <3>3 DEF ConfirmOK
      <4>2. Ending(op)' = {} /\ Lone(Deleting(op)')
        BY <1>1, <1>3, <4>1, DelByAppend DEF EndShrinks
      <4>. QED  BY <2>1, <3>3, <4>2 DEF ConfirmOK, Lone
    <3>. QED  BY <3>2, <3>3
  <2>. QED  BY <1>1, <2>2, FlagsKept DEF Confirms
<1>. QED  BY <1>4, <1>5

\* Its request is answered, well or not.
LEMMA AnswerConfirms ==
  ASSUME Inv, Confirms, NEW i \in DOMAIN calls, Confirmed(i) \/ CallFailed(i)
  PROVE  Confirms'
<1>. DEFINE c == calls[i]
<1>1. /\ screen' = screen /\ mount' = mount /\ calls' = RemoveAt(calls, i) /\ c.mount = mount
      /\ c.op \in PageOps /\ i \in Deleting(c.op)
  BY CallOf DEF Confirmed, CallFailed, Succeeded, Stay, Done, Deleting, GoodCall, CallRec
<1>2. \A op : DelShrinks(op)
  BY <1>1, ThinnedByRemoval, DelByThinning
<1>3. \/ confirm' = confirm \ {c.op} /\ \A op \in PageOps : EndShrinks(op)
      \/ confirm' = confirm /\ Load(c.sel, c.op)
  BY <1>1, EndByReload DEF Confirmed, CallFailed, dialogVars
<1>4. ASSUME NEW op \in PageOps, Kind(op) = "confirm" PROVE ConfirmOK(op)'
  <2>1. ConfirmOK(op)
    BY <1>4 DEF Confirms
  <2>2. CASE op # c.op
    <3>1. EndShrinks(op)
      BY <1>1, <1>3, <2>2, EndByLoad
    <3>. QED  BY <1>2, <1>3, <2>1, <2>2, <3>1, ConfirmKept
  <2>3. CASE op = c.op
    <3>1. Lone(Deleting(op)) /\ Ending(op) = {} /\ op \in confirm
      BY <1>1, <2>1, <2>3 DEF ConfirmOK
    <3>2. Deleting(op)' = {}
      BY <1>1, <2>3, <3>1, DelDone
    <3>3. CASE confirm' = confirm \ {c.op} /\ EndShrinks(op)
      BY <3>1, <3>2, <3>3 DEF EndShrinks, ConfirmOK, Lone
    <3>4. CASE confirm' = confirm /\ Load(c.sel, c.op)
      <4>1. Lone(Ending(op)')
        BY <1>1, <3>1, <3>4, EndByLoad
      <4>. QED  BY <3>1, <3>2, <3>4, <4>1 DEF ConfirmOK, Lone
    <3>. QED  BY <1>3, <3>3, <3>4
  <2>. QED  BY <2>2, <2>3
<1>. QED  BY <1>1, <1>4, FlagsKept DEF Confirms

\* The reading that it waits for is answered, well or not.
LEMMA ReadingConfirms ==
  ASSUME Inv, Confirms, NEW i \in DOMAIN gets, GetAnswered(i) \/ GetFailed(i)
  PROVE  Confirms'
<1>. DEFINE g == gets[i]
<1>1. /\ screen' = screen /\ mount' = mount /\ calls' = calls /\ gets' = RemoveAt(gets, i)
  BY DEF GetAnswered, GetFailed
<1>2. \A op : DelShrinks(op) /\ EndShrinks(op)
  BY <1>1, ThinnedByNothing, DelByThinning, EndDone
<1>3. CASE confirm' = confirm
  BY <1>1, <1>2, <1>3, ConfirmsKept
<1>4. CASE confirm' # confirm
  <2>1. g.mount = mount /\ confirm' = confirm \ {g.closes}
    BY <1>4 DEF GetAnswered, GetFailed, CloseConfirm, dialogVars
  <2>2. ASSUME NEW op \in PageOps, Kind(op) = "confirm" PROVE ConfirmOK(op)'
    <3>1. ConfirmOK(op)
      BY <2>2 DEF Confirms
    <3>2. CASE op # g.closes
      BY <1>2, <2>1, <3>1, <3>2, ConfirmKept
    <3>3. CASE op = g.closes
      <4>1. i \in Ending(op)
        BY <2>1, <3>3 DEF Ending
      <4>2. Lone(Ending(op)) /\ Deleting(op) = {}
        BY <3>1, <4>1 DEF ConfirmOK
      <4>3. Ending(op)' = {} /\ Deleting(op)' = {}
        BY <1>1, <1>2, <4>1, <4>2, EndDone DEF DelShrinks
      <4>. QED  BY <4>3 DEF ConfirmOK, Lone
    <3>. QED  BY <3>2, <3>3
  <2>. QED  BY <1>1, <2>2, FlagsKept DEF Confirms
<1>. QED  BY <1>3, <1>4

\* Another request is sent.
LEMMA SentConfirms ==
  ASSUME Inv, Inv2, DryRun \/ SubmitReason \/ \E op \in Ops : Open(op) \/ Press(op)
  PROVE  Confirms'
<1>1. screen' = screen /\ mount' = mount /\ gets' = gets /\ confirm' = confirm
  BY DEF DryRun, SubmitReason, Open, Press, Quiet, NoLoad, dialogVars
<1>2. calls' = calls \/ \E c : calls' = Append(calls, c) /\ c.op \in PageOps /\ Kind(c.op) # "confirm"
  <2>1. CASE DryRun \/ SubmitReason
    <3>1. PICK dry \in BOOLEAN : calls' = Append(calls, [Call(dialog.op, dry) EXCEPT !.n = dialog.n])
      BY <2>1 DEF DryRun, SubmitReason, Sent
    <3>. DEFINE c == [Call(dialog.op, dry) EXCEPT !.n = dialog.n]
    <3>2. c.op = dialog.op
      BY DEF Call
    <3>3. dialog # None /\ dialog.op \in PageOps
      BY <2>1, DialogOf DEF DryRun, SubmitReason
    <3>4. Kind(dialog.op) # "confirm"
      BY <2>1, <3>3, Flags DEF DryRun, SubmitReason, Inv2, DialogCalls, ReasonOK
    <3>. HIDE DEF c
    <3>. QED  BY <3>1, <3>2, <3>3, <3>4 DEF c
  <2>2. ASSUME NEW op \in Ops, Open(op) \/ Press(op)
        PROVE  calls' = calls \/ \E c : calls' = Append(calls, c) /\ c.op \in PageOps /\ Kind(c.op) # "confirm"
    <3>1. op \in PageOps
      BY PageKnown DEF Inv
    <3>2. calls' = calls \/ \E dry : calls' = Append(calls, Call(op, dry)) /\ Kind(op) # "confirm"
      BY <2>2, <3>1, Flags DEF Open, Press
    <3>3. \A dry : Call(op, dry).op = op
      BY DEF Call
    <3>. QED  BY <3>1, <3>2, <3>3
  <2>. QED  BY <2>1, <2>2
<1>3. \A op \in PageOps : Kind(op) = "confirm" => DelShrinks(op) /\ EndShrinks(op)
  <2>1. \A op : EndShrinks(op)
    BY <1>1, EndByNoLoad
  <2>2. CASE calls' = calls
    BY <1>1, <2>1, <2>2, ThinnedByNothing, DelByThinning
  <2>3. ASSUME NEW c, calls' = Append(calls, c), Kind(c.op) # "confirm"
        PROVE  \A op \in PageOps : Kind(op) = "confirm" => DelShrinks(op)
    BY <1>1, <2>3, DelByAppend
  <2>. QED  BY <1>2, <2>1, <2>2, <2>3
<1>. QED  BY <1>1, <1>3, ConfirmsKept DEF Inv2

\* The steps after which the screen is new.
LEMMA ClearConfirms ==
  ASSUME Inv, Confirms,
         \/ navigate
         \/ \E i \in DOMAIN gets : GetRefused(i)
         \/ \E i \in DOMAIN calls : FormLeaves(i) \/ CallRefused(i)
         \/ \E i \in DOMAIN auth : Enter(i) \/ Leave(i)
  PROVE  Confirms'
<1>1. Clear /\ screen' = screen
  BY DEF navigate, GetRefused, FormLeaves, CallRefused, Enter, Leave, Mount, Unauthorized
<1>2. gets \in Seq(GoodGet) /\ calls \in Seq(GoodCall)
  BY DEF Inv, RequestsOK
<1>3. calls' \in Seq(GoodCall)
  BY <1>2, Removed DEF navigate, GetRefused, FormLeaves, CallRefused, Enter, Leave, Done
<1>4. gets' \in Seq(GoodGet) \/ gets' = Append(gets, Get(0, mount + 1))
  BY <1>2, Removed DEF navigate, GetRefused, FormLeaves, CallRefused, Enter, Leave, Mount
<1>. QED  BY <1>1, <1>3, <1>4, ConfirmsCleared

\* Every other step sends no request of it, and no reading that ends it.
LEMMA OtherConfirms ==
  ASSUME Inv, Confirms,
         \/ Select \/ Close \/ CancelReason \/ ChangeInput \/ DefaultDrifts \/ Poll \/ logout \/ Expire
         \/ UNCHANGED vars
         \/ \E u \in Users : login(u)
         \/ \E i \in DOMAIN gets : ServeGet(i)
         \/ \E i \in DOMAIN calls :
              \/ ServeCall(i) \/ FormSaved(i) \/ FormStays(i) \/ FormAnswers(i) \/ FormPicks(i)
              \/ Pressed(i) \/ Asked(i) \/ Previewed(i) \/ Imported(i) \/ ReasonNeeded(i)
              \/ CallForgotten(i)
         \/ \E i \in DOMAIN auth : ServeAuth(i) \/ BarShown(i) \/ AuthEnds(i)
  PROVE  Confirms'
<1>1. CASE \/ ChangeInput \/ DefaultDrifts \/ Poll \/ logout \/ Expire \/ UNCHANGED vars
           \/ \E u \in Users : login(u)
           \/ \E i \in DOMAIN auth : ServeAuth(i) \/ BarShown(i) \/ AuthEnds(i)
  <2>1. screen' = screen /\ mount' = mount /\ calls' = calls /\ gets' = gets /\ confirm' = confirm
    BY <1>1 DEF ChangeInput, DefaultDrifts, Quiet, NoLoad, Poll, logout, Expire, login, ServeAuth, BarShown,
                AuthEnds, Elsewhere, dialogVars, vars
  <2>2. \A op : DelShrinks(op) /\ EndShrinks(op)
    BY <2>1, EndByNoLoad, ThinnedByNothing, DelByThinning
  <2>. QED  BY <2>1, <2>2, ConfirmsKept
<1>2. CASE Select \/ Close \/ CancelReason
  <2>1. /\ screen' = screen /\ mount' = mount /\ confirm' = confirm
        /\ calls' \in {calls, Cancelled} /\ (NoLoad \/ \E s : Load(s, None))
    BY <1>2 DEF Select, Close, CancelReason, Quiet, dialogVars
  <2>2. DOMAIN calls' = DOMAIN calls /\ \A j \in DOMAIN calls :
          calls'[j].op = calls[j].op /\ calls'[j].mount = calls[j].mount
    <3>1. ASSUME NEW j \in DOMAIN calls PROVE calls[j] \in CallRec
      BY CallOf DEF GoodCall
    <3>2. CASE calls' = Cancelled
      BY <3>1, <3>2 DEF Cancelled, CallRec
    <3>. QED  BY <2>1, <3>2
  <2>3. \A op \in PageOps : DelShrinks(op) /\ EndShrinks(op)
    BY <2>1, <2>2, DelByChange, EndByReload
  <2>. QED  BY <2>1, <2>3, ConfirmsKept
<1>3. ASSUME NEW i \in DOMAIN gets, ServeGet(i)
      PROVE  Confirms'
  <2>1. /\ screen' = screen /\ mount' = mount /\ confirm' = confirm /\ calls' = calls
        /\ \/ gets' = [gets EXCEPT ![i].phase = Outcome("ok"), ![i].at = server, ![i].by = session]
           \/ gets' = [gets EXCEPT ![i].phase = "failed"]
    BY <1>3 DEF ServeGet, dialogVars
  <2>2. DOMAIN gets' = DOMAIN gets /\ \A j \in DOMAIN gets :
          gets'[j].mount = gets[j].mount /\ gets'[j].closes = gets[j].closes
    <3>1. gets[i] \in GetRec
      BY GetOf DEF GoodGet
    <3>2. CASE gets' = [gets EXCEPT ![i].phase = Outcome("ok"), ![i].at = server, ![i].by = session]
      <4>1. /\ DOMAIN gets' = DOMAIN gets /\ \A j \in DOMAIN gets \ {i} : gets'[j] = gets[j]
            /\ gets'[i] = [gets[i] EXCEPT !.phase = Outcome("ok"), !.at = server, !.by = session]
        BY <3>2
      <4>2. gets'[i].mount = gets[i].mount /\ gets'[i].closes = gets[i].closes
        BY <3>1, <4>1 DEF GetRec
      <4>. QED  BY <4>1, <4>2
    <3>3. CASE gets' = [gets EXCEPT ![i].phase = "failed"]
      BY <3>1, <3>3 DEF GetRec
    <3>. QED  BY <2>1, <3>2, <3>3
  <2>3. \A op : DelShrinks(op) /\ EndShrinks(op)
    BY <2>1, <2>2, EndByChange, ThinnedByNothing, DelByThinning
  <2>. QED  BY <2>1, <2>3, ConfirmsKept
<1>4. ASSUME NEW i \in DOMAIN calls,
             \/ FormSaved(i) \/ FormStays(i) \/ FormAnswers(i) \/ FormPicks(i)
             \/ Pressed(i) \/ Asked(i) \/ Previewed(i) \/ Imported(i) \/ ReasonNeeded(i)
             \/ CallForgotten(i)
      PROVE  Confirms'
  <2>1. screen' = screen /\ mount' = mount /\ confirm' = confirm /\ calls' = RemoveAt(calls, i)
    BY <1>4 DEF FormSaved, FormStays, FormAnswers, FormPicks, Pressed, Asked, Previewed, Imported,
                ReasonNeeded, CallForgotten, Succeeded, Stay, Quiet, Done, dialogVars
  <2>2. \A op \in PageOps : EndShrinks(op)
    <3>1. CASE ~FormPicks(i)
      <4>1. \/ NoLoad \/ (\E o, s : ReloadAfter(o, s)) \/ gets' = gets
        BY <1>4, <3>1 DEF FormSaved, FormStays, FormAnswers, Pressed, Asked, Previewed, Imported,
                          ReasonNeeded, CallForgotten
      <4>. QED  BY <2>1, <4>1, EndByReload, EndByNoLoad
    <3>2. CASE FormPicks(i)
      <4>1. PICK s : gets' = gets \o (IF s # sel THEN <<Get(s, mount)>> ELSE <<>>)
                                  \o (IF Reloads(calls[i].op) THEN <<Get(calls[i].sel, mount)>> ELSE <<>>)
        BY <3>2 DEF FormPicks
      <4>. DEFINE g == Get(s, mount)
                  h == Get(calls[i].sel, mount)
                  more == (IF s # sel THEN <<g>> ELSE <<>>) \o (IF Reloads(calls[i].op) THEN <<h>> ELSE <<>>)
      <4>2. g.closes = None /\ h.closes = None /\ gets \in Seq(GoodGet)
        BY DEF Get, Inv, RequestsOK
      <4>. HIDE DEF g, h
      <4>3. more \in Seq({g, h}) /\ gets' = gets \o more
        <5>. DEFINE one == IF s # sel THEN <<g>> ELSE <<>>
                    two == IF Reloads(calls[i].op) THEN <<h>> ELSE <<>>
        <5>1. one \in Seq({g, h}) /\ two \in Seq({g, h})
          OBVIOUS
        <5>2. gets' = gets \o one \o two
          BY <4>1 DEF g, h
        <5>. HIDE DEF one, two
        <5>3. gets \o one \o two = gets \o (one \o two)
          BY <4>2, <5>1
        <5>4. one \o two \in Seq({g, h})
          BY <5>1
        <5>. QED  BY <5>2, <5>3, <5>4 DEF one, two
      <4>. HIDE DEF more
      <4>4. \A j \in DOMAIN gets' : (j \in DOMAIN gets /\ gets'[j] = gets[j]) \/ gets'[j] \in {g, h}
        BY <4>2, <4>3
      <4>5. ASSUME NEW op \in PageOps PROVE Ending(op)' \subseteq Ending(op)
        <5>1. op # None
          BY Flags
        <5>. QED  BY <2>1, <4>2, <4>4, <5>1 DEF Ending
      <4>. QED  BY <4>5 DEF EndShrinks, Lone
    <3>. QED  BY <3>1, <3>2
  <2>3. \A op : DelShrinks(op)
    BY <2>1, ThinnedByRemoval, DelByThinning
  <2>. QED  BY <2>1, <2>2, <2>3, ConfirmsKept
<1>5. ASSUME NEW i \in DOMAIN calls, ServeCall(i)
      PROVE  Confirms'
  <2>1. screen' = screen /\ mount' = mount /\ confirm' = confirm /\ gets' = gets
    BY <1>5 DEF ServeCall, dialogVars
  <2>2. DOMAIN calls' = DOMAIN calls /\ \A j \in DOMAIN calls :
          calls'[j].op = calls[j].op /\ calls'[j].mount = calls[j].mount
    <3>1. calls[i] \in CallRec
      BY CallOf DEF GoodCall
    <3>2. ASSUME NEW at, NEW by,
                 calls' = [calls EXCEPT ![i].phase = "ok", ![i].at = at, ![i].by = by]
          PROVE  DOMAIN calls' = DOMAIN calls /\ \A j \in DOMAIN calls :
                   calls'[j].op = calls[j].op /\ calls'[j].mount = calls[j].mount
      <4>2. /\ DOMAIN calls' = DOMAIN calls /\ \A j \in DOMAIN calls \ {i} : calls'[j] = calls[j]
            /\ calls'[i] = [calls[i] EXCEPT !.phase = "ok", !.at = at, !.by = by]
        BY <3>2
      <4>3. calls'[i].op = calls[i].op /\ calls'[i].mount = calls[i].mount
        BY <3>1, <4>2 DEF CallRec
      <4>. QED  BY <4>2, <4>3
    <3>3. ASSUME NEW p, calls' = [calls EXCEPT ![i].phase = p]
          PROVE  DOMAIN calls' = DOMAIN calls /\ \A j \in DOMAIN calls :
                   calls'[j].op = calls[j].op /\ calls'[j].mount = calls[j].mount
      <4>1. /\ DOMAIN calls' = DOMAIN calls /\ \A j \in DOMAIN calls \ {i} : calls'[j] = calls[j]
            /\ calls'[i] = [calls[i] EXCEPT !.phase = p]
        BY <3>3
      <4>2. calls'[i].op = calls[i].op /\ calls'[i].mount = calls[i].mount
        BY <3>1, <4>1 DEF CallRec
      <4>. QED  BY <4>1, <4>2
    <3>4. \/ calls' = [calls EXCEPT ![i].phase = "ok", ![i].at = server', ![i].by = session]
          \/ calls' = [calls EXCEPT ![i].phase = "failed"]
          \/ calls' = [calls EXCEPT ![i].phase = "reason"]
          \/ calls' = [calls EXCEPT ![i].phase = "refused"]
      BY <1>5 DEF ServeCall
    <3>5. CASE calls' = [calls EXCEPT ![i].phase = "ok", ![i].at = server', ![i].by = session]
      BY <3>2, <3>5
    <3>. QED  BY <3>3, <3>4, <3>5
  <2>3. \A op : DelShrinks(op) /\ EndShrinks(op)
    BY <2>1, <2>2, DelByChange, EndByNoLoad
  <2>. QED  BY <2>1, <2>3, ConfirmsKept
<1>. QED  BY <1>1, <1>2, <1>3, <1>4, <1>5

-----------------------------------------------------------------------------
LEMMA InitInv2 == Init => Inv2
<1>. SUFFICES ASSUME Init PROVE Inv2
  OBVIOUS
<1>1. /\ dialog = None /\ calls = <<>>
      /\ \A i \in DOMAIN gets : gets[i].closes = None
  BY DEF Init, Get
<1>2. ASSUME NEW op \in PageOps PROVE ConfirmOK(op)
  <2>1. op # None
    BY InitInv, Flags
  <2>2. Deleting(op) = {} /\ Ending(op) = {}
    BY <1>1, <2>1 DEF Deleting, Ending
  <2>. QED  BY <2>2 DEF ConfirmOK, Lone
<1>. QED  BY <1>1, <1>2 DEF Inv2, DialogCalls, Previews, Confirms

LEMMA NextInv2 == Inv /\ Inv2 /\ [Next]_vars => Inv2'
<1>. SUFFICES ASSUME Inv, Inv2, [Next]_vars PROVE Inv2'
  OBVIOUS
<1>0. DialogCalls /\ Previews /\ Confirms
  BY DEF Inv2
<1>1. CASE navigate \/ Select \/ Close \/ logout \/ Expire \/ Poll \/ UNCHANGED vars
  BY <1>0, <1>1, OtherDialogs, OtherConfirms, ClearConfirms DEF Inv2
<1>2. CASE CancelReason \/ ChangeInput \/ DefaultDrifts
  BY <1>0, <1>2, CancelledDialog, ChangedInput, OtherConfirms DEF Inv2
<1>3. CASE DryRun \/ Submit \/ SubmitReason
  BY <1>0, <1>3, SendingDialog, SubmitConfirms, SentConfirms DEF Inv2
<1>4. ASSUME NEW op \in Ops, Open(op) \/ Press(op) PROVE Inv2'
  BY <1>0, <1>4, OpenedDialog, OtherDialogs, SentConfirms DEF Inv2
<1>5. ASSUME NEW u \in Users, login(u) PROVE Inv2'
  BY <1>0, <1>5, OtherDialogs, OtherConfirms DEF Inv2
<1>6. ASSUME NEW i \in DOMAIN gets, ServeGet(i) \/ GetAnswered(i) \/ GetFailed(i) \/ GetRefused(i)
      PROVE  Inv2'
  BY <1>0, <1>6, OtherDialogs, OtherConfirms, ReadingConfirms, ClearConfirms DEF Inv2
<1>7. ASSUME NEW i \in DOMAIN calls,
             FormStays(i) \/ Previewed(i) \/ Imported(i) \/ ReasonNeeded(i) \/ CallFailed(i)
      PROVE  Inv2'
  BY <1>0, <1>7, AnsweredDialog, OtherConfirms, AnswerConfirms DEF Inv2
<1>8. ASSUME NEW i \in DOMAIN calls, ServeCall(i) PROVE Inv2'
  BY <1>0, <1>8, ServedDialog, OtherConfirms DEF Inv2
<1>9. ASSUME NEW i \in DOMAIN calls,
             \/ FormSaved(i) \/ FormAnswers(i) \/ FormPicks(i) \/ FormLeaves(i) \/ Confirmed(i)
             \/ Pressed(i) \/ Asked(i) \/ CallForgotten(i) \/ CallRefused(i)
      PROVE  Inv2'
  BY <1>0, <1>9, OtherDialogs, OtherConfirms, AnswerConfirms, ClearConfirms DEF Inv2
<1>10. ASSUME NEW i \in DOMAIN auth, ServeAuth(i) \/ Enter(i) \/ Leave(i) \/ BarShown(i) \/ AuthEnds(i)
       PROVE  Inv2'
  BY <1>0, <1>10, OtherDialogs, OtherConfirms, ClearConfirms DEF Inv2
<1>. QED  BY <1>1, <1>2, <1>3, <1>4, <1>5, <1>6, <1>7, <1>8, <1>9, <1>10 DEF Next, User, Network

LEMMA SpecInv2 == Spec => [](Inv /\ Inv2)
<1>1. Init => Inv /\ Inv2
  BY InitInv, InitInv2
<1>2. (Inv /\ Inv2) /\ [Next]_vars => (Inv /\ Inv2)'
  BY NextInv, NextInv2
<1>. QED  BY <1>1, <1>2, PTL DEF Spec

\* The session, the screen and the open dialog are well formed; no dialog has
\* two requests under way that nobody has called off (busy in the dialogs of
\* the pages, ConfirmDialog and ReasonDialog).
THEOREM SpecTypeOK == Spec => []TypeOK
<1>1. Inv /\ Inv2 => TypeOK
  <2>. SUFFICES ASSUME Inv, Inv2 PROVE TypeOK
    OBVIOUS
  <2>1. /\ user \in Users \union {None, "unknown"} /\ session \in Users \union {None}
        /\ bell \in BOOLEAN /\ failed \in BOOLEAN /\ raced \in BOOLEAN
        /\ sel \in Sels /\ told \in 0..server
    BY DEF Inv, ScreenOK, SessionOK
  <2>2. bell => user \in Users
    BY DEF Inv, SessionOK
  <2>3. ASSUME dialog # None
        PROVE  /\ user \in Users
               /\ Cardinality({i \in Pending(dialog.n) : ~calls[i].cancelled}) <= 1
    <3>. DEFINE S == {i \in Pending(dialog.n) : ~calls[i].cancelled}
    <3>1. \A i, j \in S : i = j
      BY <2>3 DEF Inv2, DialogCalls, OneLive, Live, Own, Pending
    <3>. HIDE DEF S
    <3>2. S = {} \/ \E x : S = {x}
      BY <3>1
    <3>3. Cardinality(S) \in {0, 1}
      BY <3>2, FS_EmptySet, FS_Singleton
    <3>4. Cardinality(S) <= 1
      BY <3>3
    <3>. QED  BY <2>3, <3>4, DialogOf DEF S
  <2>. QED  BY <2>1, <2>2, <2>3 DEF TypeOK
<1>. QED  BY <1>1, SpecInv2, PTL

\* What is imported for good is what the last dry run counted, unless the input
\* was replaced while that dry run was under way (CsvImportDialog, CycleDialog,
\* ReallocateDialog).
THEOREM OnlyPreviewsAreImported == Spec => ImportedWasPreviewed
<1>1. Inv /\ Inv2 /\ [Next]_vars =>
        [\A i \in DOMAIN calls' \ DOMAIN calls :
           (Kind(calls'[i].op) = "import" /\ ~calls'[i].dry)
             => dialog.preview = calls'[i].input \/ dialog.overtaken]_vars
  <2>. SUFFICES ASSUME Inv, Inv2, Next, NEW i \in DOMAIN calls' \ DOMAIN calls,
                       Kind(calls'[i].op) = "import", ~calls'[i].dry
                PROVE  dialog.preview = calls'[i].input \/ dialog.overtaken
    OBVIOUS
  <2>1. ASSUME NEW c, calls' = Append(calls, c) PROVE calls'[i] = c
    <3>1. calls \in Seq(GoodCall)
      BY DEF Inv, RequestsOK
    <3>. QED  BY <2>1, <3>1
  <2>2. CASE \E op \in Ops : Open(op) \/ Press(op)
    <3>1. PICK op \in Ops : Open(op) \/ Press(op)
      BY <2>2
    <3>2. CASE calls' = Append(calls, Call(op, TRUE))
      <4>1. Call(op, TRUE).dry
        BY DEF Call
      <4>. QED  BY <2>1, <3>2, <4>1
    <3>3. CASE Press(op)
      <4>1. Call(op, FALSE).op = op /\ calls'[i] = Call(op, FALSE) /\ Kind(op) = "direct"
        BY <2>1, <3>3 DEF Press, Call
      <4>. QED  BY <4>1
    <3>. QED  BY <3>1, <3>2, <3>3 DEF Open
  <2>3. CASE DryRun
    <3>. DEFINE c == [Call(dialog.op, TRUE) EXCEPT !.n = dialog.n]
    <3>1. calls'[i] = c
      BY <2>1, <2>3 DEF DryRun, Sent
    <3>2. c.dry
      BY DEF Call
    <3>. QED  BY <3>1, <3>2
  <2>4. CASE Submit \/ SubmitReason
    <3>. DEFINE c == [Call(dialog.op, FALSE) EXCEPT !.n = dialog.n]
    <3>1. calls'[i] = c /\ dialog # None
      BY <2>1, <2>4 DEF Submit, SubmitReason, Sent
    <3>2. c.op = dialog.op /\ c.input = dialog.input
      BY <3>1 DEF Call
    <3>3. Kind(dialog.op) = "import"
      BY <3>1, <3>2
    <3>4. ~SubmitReason
      BY <3>1, <3>3, DialogOf, Flags DEF SubmitReason, Inv2, DialogCalls, ReasonOK
    <3>5. dialog.preview # None
      BY <2>4, <3>3, <3>4 DEF Submit
    <3>. HIDE DEF c
    <3>. QED  BY <3>1, <3>2, <3>3, <3>5 DEF Inv2, Previews
  <2>5. DOMAIN calls' \subseteq DOMAIN calls => FALSE
    OBVIOUS
  <2>6. CASE \/ \E j \in DOMAIN calls :
                  \/ FormSaved(j) \/ FormStays(j) \/ FormAnswers(j) \/ FormPicks(j)
                  \/ FormLeaves(j) \/ Confirmed(j) \/ Pressed(j) \/ Asked(j) \/ Previewed(j)
                  \/ Imported(j) \/ ReasonNeeded(j) \/ CallFailed(j) \/ CallForgotten(j) \/ CallRefused(j)
    <3>1. PICK j \in DOMAIN calls : calls' = RemoveAt(calls, j)
      BY <2>6 DEF FormSaved, FormStays, FormAnswers, FormPicks, FormLeaves, Confirmed, Pressed, Asked,
                  Previewed, Imported, ReasonNeeded, CallFailed, CallForgotten, CallRefused, Succeeded, Done
    <3>2. DOMAIN calls' \subseteq DOMAIN calls
      BY <3>1, ThinnedByRemoval, Removed DEF Inv, RequestsOK
    <3>. QED  BY <2>5, <3>2
  <2>7. CASE \/ navigate \/ Select \/ Close \/ CancelReason \/ ChangeInput \/ DefaultDrifts
             \/ logout \/ Expire \/ Poll
             \/ \E u \in Users : login(u)
             \/ \E j \in DOMAIN gets : ServeGet(j) \/ GetAnswered(j) \/ GetFailed(j) \/ GetRefused(j)
             \/ \E j \in DOMAIN auth : ServeAuth(j) \/ Enter(j) \/ Leave(j) \/ BarShown(j) \/ AuthEnds(j)
    <3>1. calls' \in {calls, Cancelled}
      BY <2>7 DEF navigate, Select, Close, CancelReason, ChangeInput, DefaultDrifts, logout, Expire, Poll,
                  login, ServeGet, GetAnswered, GetFailed, GetRefused, ServeAuth, Enter, Leave, BarShown,
                  AuthEnds, Elsewhere
    <3>2. DOMAIN calls' = DOMAIN calls
      BY <3>1 DEF Cancelled
    <3>. QED  BY <2>5, <3>2
  <2>8. ASSUME NEW j \in DOMAIN calls, ServeCall(j) PROVE FALSE
    <3>1. DOMAIN calls' = DOMAIN calls
      BY <2>8 DEF ServeCall
    <3>. QED  BY <2>5, <3>1
  <2>. QED  BY <2>2, <2>3, <2>4, <2>6, <2>7, <2>8 DEF Next, User, Network
<1>. QED  BY <1>1, SpecInv2, PTL DEF Spec, ImportedWasPreviewed

-----------------------------------------------------------------------------
\* The third invariant: as long as no two answers met that no order protects,
\* every reading under way is of what is selected and will be new enough, and
\* so is what is shown when none is under way.
GoodReading(g) == g.mount = mount => g.sel = sel /\ (g.phase = "ok" => g.at >= told)
FreshGets == \A i \in DOMAIN gets : GoodReading(gets[i])
NoneRead == \A i \in DOMAIN gets : gets[i].mount # mount
FreshShown == NoneRead /\ shown # None /\ ~failed => shown.at >= told /\ shown.sel = sel
\* An answer that takes the place of what was read is new enough, too.
Answering(op) == Is(op, "answers") /\ Touches(op)
GoodAnswer(c) == c.mount = mount /\ c.phase = "ok" /\ Answering(c.op) => c.at >= told
FreshAnswers == \A i \in DOMAIN calls : GoodAnswer(calls[i])
Fresh == ~raced => FreshGets /\ FreshShown /\ FreshAnswers

\* Of the operations that change what is read: they read it again, leave the
\* screen, or are all answered with it.
LEMMA Reloading ==
  ASSUME Inv, NEW op \in PageOps, Touches(op)
  PROVE  /\ Is(op, "answers") =>
              /\ Kind(op) = "form" /\ ~Is(op, "picks") /\ ~Is(op, "stays")
              /\ \A other \in PageOps : Touches(other) => Is(other, "answers")
         /\ ~Is(op, "answers") =>
              \/ op = "password"
              \/ Reloads(op) /\ (Kind(op) = "form" => ~Is(op, "stays"))
              \/ Kind(op) \in {"form", "ask"} /\ Is(op, "leaves") /\ ~Is(op, "picks") /\ ~Is(op, "stays")
<1>. DEFINE ops == Page.ops
            touching == {o \in DOMAIN ops : ops[o].writes \intersect Page.queries[screen.watch].tables # {}}
<1>1. screen.page \in DOMAIN routes /\ screen.watch \in Watched(Page)
  BY PageKnown DEF Inv
<1>2. \A o \in touching :
        IF "answers" \in ops[o].flags
        THEN /\ ops[o].kind = "form" /\ {"picks", "stays"} \intersect ops[o].flags = {}
             /\ \A other \in touching : "answers" \in ops[other].flags
        ELSE \/ o = "password"
             \/ screen.watch \in ops[o].reloads /\ (ops[o].kind = "form" => "stays" \notin ops[o].flags)
             \/ /\ ops[o].kind \in {"form", "ask"} /\ "leaves" \in ops[o].flags
                /\ {"picks", "stays"} \intersect ops[o].flags = {}
  BY <1>1, ReloadsAssumption DEF Page
<1>3. \A o \in PageOps : Touches(o) <=> o \in touching
  BY DEF PageOps, Touches, Watch
<1>4. op \in touching
  BY <1>3
<1>. HIDE DEF touching
<1>. QED  BY <1>2, <1>3, <1>4 DEF Is, Kind, Reloads

LEMMA TablesKept ==
  ASSUME screen' = screen
  PROVE  \A op : Touches(op)' = Touches(op) /\ Answering(op)' = Answering(op)
BY DEF Touches, Answering, Is, Page, Watch

\* load: nothing is fresh any more, or the reading that is sent is the only one.
LEMMA LoadFresh ==
  ASSUME Inv, mount' = mount, NEW s, NEW closes, Load(s, closes), ~raced'
  PROVE  ~raced /\ s = sel' /\ FreshGets' /\ FreshShown'
<1>. DEFINE new == [Get(s, mount) EXCEPT !.closes = closes]
            old == IF Watch.guarded THEN [i \in DOMAIN gets |-> [gets[i] EXCEPT !.mount = 0]]
                   ELSE gets
<1>1. gets' = Append(old, new) /\ ~raced /\ s = sel' /\ (MyGets = {} \/ Watch.guarded)
  BY DEF Load
<1>2. gets \in Seq(GoodGet) /\ mount # 0
  BY Counters DEF Inv, RequestsOK
<1>3. DOMAIN old = 1..Len(old) /\ Len(old) \in Nat
  BY <1>2
<1>4. \A i \in DOMAIN old : old[i].mount # mount
  <2>1. CASE Watch.guarded
    <3>1. ASSUME NEW i \in DOMAIN gets PROVE [gets[i] EXCEPT !.mount = 0].mount = 0
      BY GetOf DEF GoodGet, GetRec
    <3>. QED  BY <1>2, <2>1, <3>1
  <2>2. CASE ~Watch.guarded
    BY <1>1, <2>2 DEF MyGets
  <2>. QED  BY <2>1, <2>2
<1>5. new.mount = mount /\ new.sel = s /\ new.phase = "sent"
  BY DEF Get
<1>. HIDE DEF old, new
<1>6. /\ DOMAIN gets' = 1..(Len(old) + 1) /\ gets'[Len(old) + 1] = new
      /\ \A i \in 1..Len(old) : gets'[i] = old[i]
  BY <1>1, <1>3
<1>7. \A i \in DOMAIN gets' : gets'[i].mount = mount => gets'[i] = new
  BY <1>3, <1>4, <1>6
<1>8. ~NoneRead'
  <2>1. Len(old) + 1 \in DOMAIN gets'
    BY <1>3, <1>6
  <2>. QED  BY <1>5, <1>6, <2>1 DEF NoneRead
<1>9. FreshGets'
  BY <1>1, <1>5, <1>7 DEF FreshGets, GoodReading
<1>. QED  BY <1>1, <1>8, <1>9 DEF FreshShown

\* Calls that were answered before, and nothing new.
LEMMA AnswersKept ==
  ASSUME FreshAnswers, screen' = screen, mount' = mount, told' = told,
         \A j \in DOMAIN calls' : calls'[j].phase = "ok" =>
           \/ calls'[j].at >= told
           \/ \E i \in DOMAIN calls :
                /\ calls'[j].mount = calls[i].mount /\ calls'[j].op = calls[i].op
                /\ calls'[j].phase = calls[i].phase /\ calls'[j].at = calls[i].at
  PROVE  FreshAnswers'
<1>1. ASSUME NEW c, NEW op, c.op = op, (c.mount = mount /\ c.phase = "ok" /\ Answering(op)) => c.at >= told
      PROVE  GoodAnswer(c)'
  BY <1>1, TablesKept DEF GoodAnswer
<1>2. ASSUME NEW j \in DOMAIN calls', NEW c, c = calls'[j]
      PROVE  (c.mount = mount /\ c.phase = "ok" /\ Answering(c.op)) => c.at >= told
  BY <1>2 DEF FreshAnswers, GoodAnswer
<1>3. ASSUME NEW j \in DOMAIN calls', NEW c, c = calls'[j]
      PROVE  GoodAnswer(c)'
  BY <1>1, <1>2, <1>3
<1>. QED  BY <1>3 DEF FreshAnswers, GoodAnswer

\* What is on the screen and what is under way for it stay as they are.
LEMMA ReadingsKept ==
  ASSUME FreshGets, FreshShown, mount' = mount, sel' = sel, told' = told, gets' = gets,
         shown' = shown, failed' = failed
  PROVE  FreshGets' /\ FreshShown'
BY DEF FreshGets, GoodReading, FreshShown, NoneRead

\* The calls that Quiet steps leave, call off, or send.
LEMMA OldCalls ==
  ASSUME Inv, \/ calls' \in {calls, Cancelled}
              \/ \E i \in DOMAIN calls : calls' = RemoveAt(calls, i)
              \/ \E c : c.phase = "sent" /\ calls' = Append(calls, c)
  PROVE  \A j \in DOMAIN calls' : calls'[j].phase = "ok" =>
           \E i \in DOMAIN calls :
             /\ calls'[j].mount = calls[i].mount /\ calls'[j].op = calls[i].op
             /\ calls'[j].phase = calls[i].phase /\ calls'[j].at = calls[i].at
<1>1. calls \in Seq(GoodCall) /\ DOMAIN calls = 1..Len(calls) /\ Len(calls) \in Nat
  BY DEF Inv, RequestsOK
<1>2. CASE calls' = calls
  BY <1>2
<1>3. CASE calls' = Cancelled
  <2>1. ASSUME NEW i \in DOMAIN calls
        PROVE  LET c == [calls[i] EXCEPT !.cancelled = @ \/ Mine(calls[i])]
               IN  /\ c.mount = calls[i].mount /\ c.op = calls[i].op
                   /\ c.phase = calls[i].phase /\ c.at = calls[i].at
    BY CallOf DEF GoodCall, CallRec
  <2>. QED  BY <1>3, <2>1 DEF Cancelled
<1>4. CASE \E i \in DOMAIN calls : calls' = RemoveAt(calls, i)
  <2>1. Thinned
    BY <1>4, ThinnedByRemoval
  <2>. QED  BY <2>1 DEF Thinned
<1>5. ASSUME NEW c, c.phase = "sent", calls' = Append(calls, c)
      PROVE  \A j \in DOMAIN calls' : calls'[j].phase = "ok" =>
               \E i \in DOMAIN calls : calls'[j] = calls[i]
  <2>1. /\ DOMAIN calls' = 1..(Len(calls) + 1) /\ calls'[Len(calls) + 1] = c
        /\ \A j \in 1..Len(calls) : calls'[j] = calls[j]
    <3>. DEFINE S == GoodCall \union {c}
    <3>1. calls \in Seq(S) /\ c \in S
      <4>1. GoodCall \subseteq S
        OBVIOUS
      <4>. QED  BY <1>1, <4>1, Widened
    <3>. HIDE DEF S
    <3>2. /\ Append(calls, c) \in Seq(S) /\ Len(Append(calls, c)) = Len(calls) + 1
          /\ \A j \in 1..Len(calls) : Append(calls, c)[j] = calls[j]
          /\ Append(calls, c)[Len(calls) + 1] = c
      BY <3>1, AppendProperties
    <3>3. DOMAIN Append(calls, c) = 1..(Len(calls) + 1)
      BY <3>2
    <3>. QED  BY <1>5, <3>2, <3>3
  <2>2. ASSUME NEW j \in DOMAIN calls', calls'[j].phase = "ok" PROVE j \in 1..Len(calls)
    <3>1. j # Len(calls) + 1
      BY <1>5, <2>1, <2>2
    <3>2. j \in 1..(Len(calls) + 1)
      BY <2>1
    <3>. QED  BY <1>1, <3>1, <3>2
  <2>. QED  BY <1>1, <2>1, <2>2
<1>. QED  BY <1>2, <1>3, <1>4, <1>5

\* A step that leaves the screen as it is, and may read again.
LEMMA QuietFresh ==
  ASSUME Inv, Fresh, Quiet, NoLoad \/ \E s, closes : Load(s, closes),
         \/ calls' \in {calls, Cancelled}
         \/ \E i \in DOMAIN calls : calls' = RemoveAt(calls, i)
         \/ \E c : c.phase = "sent" /\ calls' = Append(calls, c)
  PROVE  Fresh'
<1>. SUFFICES ASSUME ~raced' PROVE FreshGets' /\ FreshShown' /\ FreshAnswers'
  BY DEF Fresh
<1>1. /\ screen' = screen /\ mount' = mount /\ sel' = sel /\ shown' = shown /\ failed' = failed
      /\ told' = told
  BY DEF Quiet
<1>2. ~raced /\ FreshGets' /\ FreshShown'
  <2>1. CASE NoLoad
    BY <1>1, <2>1, ReadingsKept DEF NoLoad, Fresh
  <2>2. CASE \E s, closes : Load(s, closes)
    BY <1>1, <2>2, LoadFresh
  <2>. QED  BY <2>1, <2>2
<1>3. FreshAnswers'
  BY <1>1, <1>2, OldCalls, AnswersKept DEF Fresh
<1>. QED  BY <1>2, <1>3

LEMMA SentByUser ==
  ASSUME NEW op, NEW dry
  PROVE  /\ Call(op, dry).phase = "sent"
         /\ [Call(op, dry) EXCEPT !.n = dialog.n].phase = "sent"
BY DEF Call

\* What is done with dialogs and buttons.
LEMMA UserFresh ==
  ASSUME Inv, Fresh,
         \/ Close \/ CancelReason \/ ChangeInput \/ DefaultDrifts \/ DryRun \/ Submit \/ SubmitReason
         \/ \E op : Open(op) \/ Press(op)
  PROVE  Fresh'
<1>1. Quiet
  BY DEF Close, CancelReason, ChangeInput, DefaultDrifts, DryRun, Submit, SubmitReason, Open, Press
<1>2. NoLoad \/ \E s, closes : Load(s, closes)
  BY DEF Close, CancelReason, ChangeInput, DefaultDrifts, DryRun, Submit, SubmitReason, Open, Press
<1>3. CASE Close \/ CancelReason \/ ChangeInput \/ DefaultDrifts
  <2>1. calls' \in {calls, Cancelled}
    BY <1>3 DEF Close, CancelReason, ChangeInput, DefaultDrifts
  <2>. QED  BY <1>1, <1>2, <2>1, QuietFresh
<1>4. CASE DryRun \/ Submit \/ SubmitReason
  <2>1. \E dry : calls' = Sent(dry)
    BY <1>4 DEF DryRun, Submit, SubmitReason
  <2>2. \E c : c.phase = "sent" /\ calls' = Append(calls, c)
    BY <2>1, SentByUser DEF Sent
  <2>. QED  BY <1>1, <1>2, <2>2, QuietFresh
<1>5. ASSUME NEW op, Open(op) \/ Press(op) PROVE Fresh'
  <2>1. calls' = calls \/ \E dry : calls' = Append(calls, Call(op, dry))
    BY <1>5 DEF Open, Press
  <2>2. calls' = calls \/ \E c : c.phase = "sent" /\ calls' = Append(calls, c)
    BY <2>1, SentByUser
  <2>. QED  BY <1>1, <1>2, <2>2, QuietFresh
<1>. QED  BY <1>3, <1>4, <1>5

\* Steps that touch nothing of the screen.
LEMMA StillFresh ==
  ASSUME Fresh, UNCHANGED <<screen, mount, sel, shown, failed, gets, told, calls, raced>>
  PROVE  Fresh'
BY TablesKept DEF Fresh, FreshGets, GoodReading, FreshShown, NoneRead, FreshAnswers, GoodAnswer

LEMMA ElsewhereFresh ==
  ASSUME Fresh, Elsewhere
  PROVE  Fresh'
BY StillFresh DEF Elsewhere

\* A screen that is mounted anew shows nothing, and has sent its first reading
\* at the most.
LEMMA MountFresh ==
  ASSUME Inv, Clear, NEW S \in SUBSET GoodGet,
         gets' \in Seq(S) \/ gets' = Append(gets, Get(0, mount + 1)),
         calls' \in Seq(GoodCall)
  PROVE  Fresh'
<1>1. mount' = mount + 1 /\ sel' = 0 /\ shown' = None /\ mount \in Nat
  BY Counters DEF Clear
<1>2. ASSUME NEW c \in GoodCall PROVE c.mount # mount'
  BY <1>1 DEF GoodCall, CallRec
<1>3. ASSUME NEW g \in GoodGet PROVE g.mount # mount'
  BY <1>1 DEF GoodGet, GetRec
<1>4. FreshAnswers'
  <2>1. \A j \in DOMAIN calls' : calls'[j].mount # mount'
    BY <1>2
  <2>. QED  BY <2>1 DEF FreshAnswers, GoodAnswer
<1>5. ASSUME NEW j \in DOMAIN gets', gets'[j].mount = mount' PROVE gets'[j].sel = sel' /\ gets'[j].phase = "sent"
  <2>1. CASE gets' \in Seq(S)
    BY <1>3, <1>5, <2>1
  <2>2. CASE gets' = Append(gets, Get(0, mount + 1))
    <3>1. gets \in Seq(GoodGet) /\ DOMAIN gets = 1..Len(gets) /\ Len(gets) \in Nat
      BY DEF Inv, RequestsOK
    <3>2. DOMAIN gets' = 1..(Len(gets) + 1) /\ \A k \in 1..Len(gets) : gets'[k] = gets[k]
      BY <2>2, <3>1
    <3>3. gets'[Len(gets) + 1] = Get(0, mount + 1)
      BY <2>2, <3>1
    <3>4. ~(j \in 1..Len(gets))
      BY <1>3, <1>5, <3>1, <3>2
    <3>5. j = Len(gets) + 1
      BY <3>1, <3>2, <3>4
    <3>. QED  BY <1>1, <3>3, <3>5 DEF Get
  <2>. QED  BY <2>1, <2>2
<1>6. FreshGets'
  BY <1>5 DEF FreshGets, GoodReading
<1>. QED  BY <1>1, <1>4, <1>6 DEF Fresh, FreshShown

LEMMA ClearFresh ==
  ASSUME Inv,
         \/ navigate
         \/ \E i \in DOMAIN gets : GetRefused(i)
         \/ \E i \in DOMAIN calls : FormLeaves(i) \/ CallRefused(i)
         \/ \E i \in DOMAIN auth : Enter(i) \/ Leave(i)
  PROVE  Fresh'
<1>1. Clear
  BY DEF navigate, GetRefused, FormLeaves, CallRefused, Enter, Leave, Mount, Unauthorized
<1>2. gets \in Seq(GoodGet) /\ calls \in Seq(GoodCall)
  BY DEF Inv, RequestsOK
<1>3. calls' \in Seq(GoodCall)
  BY <1>2, Removed DEF navigate, GetRefused, FormLeaves, CallRefused, Enter, Leave, Done
<1>4. gets' \in Seq(GoodGet) \/ gets' = Append(gets, Get(0, mount + 1))
  BY <1>2, Removed DEF navigate, GetRefused, FormLeaves, CallRefused, Enter, Leave, Mount
<1>. QED  BY <1>1, <1>3, <1>4, MountFresh

LEMMA SelectFresh ==
  ASSUME Inv, Fresh, Select
  PROVE  Fresh'
<1>. SUFFICES ASSUME ~raced' PROVE FreshGets' /\ FreshShown' /\ FreshAnswers'
  BY DEF Fresh
<1>1. mount' = mount /\ screen' = screen /\ told' = told /\ calls' = calls /\ Load(1 - sel, None)
  BY DEF Select
<1>2. ~raced /\ FreshGets' /\ FreshShown'
  BY <1>1, LoadFresh
<1>. QED  BY <1>1, <1>2, AnswersKept DEF Fresh

\* A reading is served with what is there, which is no older than what the
\* screen was told of.
LEMMA ServeGetFresh ==
  ASSUME Inv, Fresh, NEW i \in DOMAIN gets, ServeGet(i)
  PROVE  Fresh'
<1>. SUFFICES ASSUME ~raced' PROVE FreshGets' /\ FreshShown' /\ FreshAnswers'
  BY DEF Fresh
<1>1. /\ screen' = screen /\ mount' = mount /\ sel' = sel /\ shown' = shown /\ failed' = failed
      /\ told' = told /\ calls' = calls /\ raced' = raced /\ server >= told /\ gets[i] \in GetRec
  BY Counters, GetOf DEF ServeGet, dialogVars, GoodGet
<1>2. /\ DOMAIN gets' = DOMAIN gets /\ \A j \in DOMAIN gets \ {i} : gets'[j] = gets[j]
      /\ gets'[i].mount = gets[i].mount /\ gets'[i].sel = gets[i].sel
      /\ gets'[i].phase = "ok" => gets'[i].at = server
  <2>1. CASE gets' = [gets EXCEPT ![i].phase = Outcome("ok"), ![i].at = server, ![i].by = session]
    BY <1>1, <2>1 DEF GetRec
  <2>2. CASE gets' = [gets EXCEPT ![i].phase = "failed"]
    BY <1>1, <2>2 DEF GetRec
  <2>. QED  BY <2>1, <2>2 DEF ServeGet
<1>3. FreshGets /\ FreshShown /\ FreshAnswers
  BY <1>1 DEF Fresh
<1>4. ASSUME NEW j \in DOMAIN gets PROVE (gets'[j].mount = mount => gets'[j].sel = sel /\ (gets'[j].phase = "ok" => gets'[j].at >= told))
  BY <1>1, <1>2, <1>3 DEF FreshGets, GoodReading
<1>5. NoneRead' <=> NoneRead
  BY <1>1, <1>2 DEF NoneRead
<1>6. FreshGets' /\ FreshShown'
  BY <1>1, <1>2, <1>3, <1>4, <1>5 DEF FreshGets, GoodReading, FreshShown
<1>. QED  BY <1>1, <1>3, <1>6, AnswersKept

LEMMA ServeCallFresh ==
  ASSUME Inv, Fresh, NEW i \in DOMAIN calls, ServeCall(i)
  PROVE  Fresh'
<1>. SUFFICES ASSUME ~raced' PROVE FreshGets' /\ FreshShown' /\ FreshAnswers'
  BY DEF Fresh
<1>1. /\ screen' = screen /\ mount' = mount /\ sel' = sel /\ shown' = shown /\ failed' = failed
      /\ told' = told /\ gets' = gets /\ raced' = raced
  BY DEF ServeCall
<1>2. server \in Nat /\ told \in Nat /\ server >= told /\ calls[i] \in CallRec
  BY Counters, CallOf DEF GoodCall
<1>3. /\ DOMAIN calls' = DOMAIN calls /\ \A j \in DOMAIN calls \ {i} : calls'[j] = calls[j]
      /\ calls'[i].phase = "ok" => calls'[i].at >= told
  <2>1. ASSUME NEW now, now \in {server, server + 1},
               calls' = [calls EXCEPT ![i].phase = "ok", ![i].at = now, ![i].by = session]
        PROVE  /\ DOMAIN calls' = DOMAIN calls /\ \A j \in DOMAIN calls \ {i} : calls'[j] = calls[j]
               /\ calls'[i].at >= told
    <3>1. calls'[i] = [calls[i] EXCEPT !.phase = "ok", !.at = now, !.by = session]
      BY <2>1
    <3>2. calls'[i].at = now
      BY <1>2, <3>1 DEF CallRec
    <3>3. now >= told
      BY <1>2, <2>1
    <3>. QED  BY <2>1, <3>2, <3>3
  <2>2. ASSUME NEW p \in {"failed", "reason", "refused"}, calls' = [calls EXCEPT ![i].phase = p]
        PROVE  /\ DOMAIN calls' = DOMAIN calls /\ \A j \in DOMAIN calls \ {i} : calls'[j] = calls[j]
               /\ calls'[i].phase # "ok"
    BY <1>2, <2>2 DEF CallRec
  <2>. QED  BY <2>1, <2>2 DEF ServeCall
<1>4. FreshGets' /\ FreshShown'
  BY <1>1, ReadingsKept DEF Fresh
<1>. QED  BY <1>1, <1>3, <1>4, AnswersKept DEF Fresh

\* A reading that is answered is new enough; one that fails leaves an error.
LEMMA GetEndsFresh ==
  ASSUME Inv, Fresh, NEW i \in DOMAIN gets, GetAnswered(i) \/ GetFailed(i)
  PROVE  Fresh'
<1>. SUFFICES ASSUME ~raced' PROVE FreshGets' /\ FreshShown' /\ FreshAnswers'
  BY DEF Fresh
<1>1. /\ screen' = screen /\ mount' = mount /\ sel' = sel /\ told' = told /\ calls' = calls
      /\ raced' = raced /\ gets' = RemoveAt(gets, i)
  BY DEF GetAnswered, GetFailed
<1>2. FreshGets /\ FreshShown /\ FreshAnswers
  BY <1>1 DEF Fresh
<1>3. gets \in Seq(GoodGet)
  BY DEF Inv, RequestsOK
<1>4. PICK f \in [DOMAIN gets' -> DOMAIN gets \ {i}] : \A j \in DOMAIN gets' : gets'[j] = gets[f[j]]
  BY <1>1, <1>3, Left
<1>5. FreshGets'
  <2>1. ASSUME NEW j \in DOMAIN gets', gets'[j].mount = mount
        PROVE  gets'[j].sel = sel /\ (gets'[j].phase = "ok" => gets'[j].at >= told)
    BY <1>2, <1>4, <2>1 DEF FreshGets, GoodReading
  <2>. QED  BY <1>1, <2>1 DEF FreshGets, GoodReading
<1>6. FreshShown'
  <2>1. CASE gets[i].mount = mount /\ GetAnswered(i)
    <3>1. gets[i].phase = "ok" /\ shown' = [at |-> gets[i].at, sel |-> gets[i].sel, by |-> gets[i].by]
      BY <2>1 DEF GetAnswered
    <3>2. gets[i].at >= told /\ gets[i].sel = sel
      BY <1>2, <2>1, <3>1 DEF FreshGets, GoodReading
    <3>. QED  BY <1>1, <3>1, <3>2 DEF FreshShown
  <2>2. CASE gets[i].mount = mount /\ GetFailed(i)
    BY <2>2 DEF GetFailed, FreshShown
  <2>3. CASE gets[i].mount # mount
    <3>1. shown' = shown /\ failed' = failed
      BY <2>3 DEF GetAnswered, GetFailed
    <3>2. ASSUME NEW k \in DOMAIN gets, k # i PROVE \E j \in DOMAIN gets' : gets'[j] = gets[k]
      <4>1. /\ DOMAIN gets = 1..Len(gets) /\ Len(gets) \in Nat
            /\ DOMAIN gets' = 1..(Len(gets) - 1)
            /\ \A j \in 1..(Len(gets) - 1) : gets'[j] = IF j < i THEN gets[j] ELSE gets[j + 1]
        <5>1. gets' \in Seq(GoodGet) /\ Len(gets') = Len(gets) - 1
          BY <1>1, <1>3, Removed
        <5>2. \A j \in 1..(Len(gets) - 1) : gets'[j] = IF j < i THEN gets[j] ELSE gets[j + 1]
          BY <1>1, <1>3, Removed
        <5>. QED  BY <1>3, <5>1, <5>2
      <4>2. CASE k < i
        BY <4>1, <4>2
      <4>3. CASE k > i
        <5>1. k - 1 \in DOMAIN gets' /\ ~(k - 1 < i) /\ (k - 1) + 1 = k
          BY <4>1, <4>3
        <5>. QED  BY <4>1, <5>1
      <4>. QED  BY <3>2, <4>1, <4>2, <4>3
    <3>3. NoneRead' => NoneRead
      BY <1>1, <2>3, <3>2 DEF NoneRead
    <3>. QED  BY <1>1, <1>2, <3>1, <3>3 DEF FreshShown
  <2>. QED  BY <2>1, <2>2, <2>3
<1>. QED  BY <1>1, <1>2, <1>5, <1>6, AnswersKept

\* The screen is told of a change by an answer that does not bring the data.
LEMMA ToldAnswers ==
  ASSUME Inv, FreshAnswers, NEW i \in DOMAIN calls, Tells(calls[i]), calls' = RemoveAt(calls, i),
         screen' = screen, mount' = mount,
         Touches(calls[i].op) => ~Is(calls[i].op, "answers")
  PROVE  FreshAnswers'
<1>1. CASE told' = told
  <2>1. \A j \in DOMAIN calls' : calls'[j].phase = "ok" =>
           \E k \in DOMAIN calls :
             /\ calls'[j].mount = calls[k].mount /\ calls'[j].op = calls[k].op
             /\ calls'[j].phase = calls[k].phase /\ calls'[j].at = calls[k].at
    BY OldCalls
  <2>. QED  BY <1>1, <2>1, AnswersKept
<1>2. CASE Touches(calls[i].op)
  <2>1. calls \in Seq(GoodCall) /\ calls[i].op \in PageOps
    BY CallOf DEF Inv, RequestsOK, GoodCall, CallRec
  <2>2. \A op \in PageOps : ~Answering(op)
    <3>1. ASSUME NEW op \in PageOps, Answering(op) PROVE FALSE
      BY <1>2, <2>1, <3>1, Reloading DEF Answering
    <3>. QED  BY <3>1
  <2>3. \A op \in PageOps : ~Answering(op)'
    BY <2>2, TablesKept
  <2>4. calls' \in Seq(GoodCall)
    BY <2>1, Removed
  <2>5. \A c \in GoodCall : c.op \in PageOps
    BY DEF GoodCall, CallRec
  <2>6. \A c \in GoodCall : GoodAnswer(c)'
    <3>. TAKE c \in GoodCall
    <3>1. c.op \in PageOps
      BY <2>5
    <3>2. \A op \in PageOps : op = c.op => ~Answering(op)'
      BY <2>3
    <3>. QED  BY <3>1, <3>2 DEF GoodAnswer
  <2>. QED  BY <2>4, <2>6 DEF FreshAnswers
<1>. QED  BY <1>1, <1>2 DEF Tells

\* The handlers that read again, if there is something new to read.
LEMMA ToldFresh ==
  ASSUME Inv, Fresh, NEW i \in DOMAIN calls, calls' = RemoveAt(calls, i),
         screen' = screen, mount' = mount, sel' = sel, shown' = shown, failed' = failed,
         told' = told \/ Tells(calls[i]),
         NoLoad \/ \E s, closes : Load(s, closes),
         told' # told => (\E s, closes : Load(s, closes)) /\ ~Is(calls[i].op, "answers")
  PROVE  Fresh'
<1>. SUFFICES ASSUME ~raced' PROVE FreshGets' /\ FreshShown' /\ FreshAnswers'
  BY DEF Fresh
<1>1. ~raced /\ FreshGets' /\ FreshShown'
  <2>1. CASE NoLoad /\ told' = told
    BY <2>1, ReadingsKept DEF NoLoad, Fresh
  <2>2. CASE \E s, closes : Load(s, closes)
    BY <2>2, LoadFresh
  <2>. QED  BY <2>1, <2>2
<1>2. CASE told' = told
  <2>1. \A j \in DOMAIN calls' : calls'[j].phase = "ok" =>
           \E k \in DOMAIN calls :
             /\ calls'[j].mount = calls[k].mount /\ calls'[j].op = calls[k].op
             /\ calls'[j].phase = calls[k].phase /\ calls'[j].at = calls[k].at
    BY OldCalls
  <2>. QED  BY <1>1, <1>2, <2>1, AnswersKept DEF Fresh
<1>3. CASE told' # told
  BY <1>1, <1>3, ToldAnswers DEF Fresh
<1>. QED  BY <1>1, <1>2, <1>3

LEMMA ReloadFresh ==
  ASSUME Inv, Fresh, NEW i \in DOMAIN calls, calls' = RemoveAt(calls, i),
         screen' = screen, mount' = mount, sel' = sel, shown' = shown, failed' = failed,
         Tells(calls[i]),
         IF Reloads(calls[i].op) THEN \E s, closes : Load(s, closes) ELSE NoLoad,
         Touches(calls[i].op) /\ calls[i].op # "password" =>
           Reloads(calls[i].op) /\ ~Is(calls[i].op, "answers")
  PROVE  Fresh'
<1>1. CASE told' = told
  BY <1>1, ToldFresh
<1>2. CASE told' # told
  <2>1. Touches(calls[i].op) /\ calls[i].op # "password"
    BY <1>2 DEF Tells
  <2>2. \E s, closes : Load(s, closes)
    BY <2>1
  <2>. QED  BY <1>2, <2>1, <2>2, ToldFresh
<1>. QED  BY <1>1, <1>2

\* Handlers of forms, buttons and dialogs.
LEMMA AnswersFresh ==
  ASSUME Inv, Fresh, NEW i \in DOMAIN calls,
         \/ FormSaved(i) \/ FormStays(i) \/ Confirmed(i) \/ Pressed(i) \/ Asked(i)
         \/ Previewed(i) \/ Imported(i)
  PROVE  Fresh'
<1>. DEFINE c == calls[i]
<1>1. /\ calls' = RemoveAt(calls, i) /\ screen' = screen /\ mount' = mount /\ sel' = sel
      /\ shown' = shown /\ failed' = failed
  BY DEF FormSaved, FormStays, Confirmed, Pressed, Asked, Previewed, Imported, Succeeded, Done, Stay
<1>2. c.op \in PageOps
  BY CallOf DEF GoodCall, CallRec
<1>3. CASE NoLoad /\ told' = told
  BY <1>1, <1>3, ToldFresh
<1>4. CASE Tells(c) /\ ReloadAfter(c.op, c.sel) /\ (FormSaved(i) \/ Pressed(i) \/ Asked(i) \/ Imported(i))
  <2>1. IF Reloads(c.op) THEN \E s, closes : Load(s, closes) ELSE NoLoad
    BY <1>4 DEF ReloadAfter
  <2>2. Touches(c.op) /\ c.op # "password" => Reloads(c.op) /\ ~Is(c.op, "answers")
    <3>1. CASE FormSaved(i)
      <4>1. Kind(c.op) = "form" /\ ~Is(c.op, "leaves") /\ ~Is(c.op, "answers")
        BY <3>1 DEF FormSaved, Succeeded, Is
      <4>. QED  BY <1>2, <4>1, Reloading
    <3>2. CASE Pressed(i)
      <4>1. Kind(c.op) = "direct"
        BY <3>2 DEF Pressed, Succeeded
      <4>. QED  BY <1>2, <4>1, Reloading
    <3>3. CASE Asked(i)
      <4>1. Kind(c.op) = "ask" /\ ~Is(c.op, "leaves")
        BY <3>3 DEF Asked, Succeeded
      <4>. QED  BY <1>2, <4>1, Reloading
    <3>4. CASE Imported(i)
      <4>1. Kind(c.op) = "import"
        BY <3>4 DEF Imported, Succeeded
      <4>. QED  BY <1>2, <4>1, Reloading
    <3>. QED  BY <1>4, <3>1, <3>2, <3>3, <3>4
  <2>. QED  BY <1>1, <1>4, <2>1, <2>2, ReloadFresh
<1>5. CASE FormStays(i)
  <2>1. Kind(c.op) = "form" /\ Is(c.op, "stays") /\ Tells(c) /\ NoLoad
    BY <1>5 DEF FormStays, Succeeded
  <2>2. Touches(c.op) => c.op = "password"
    BY <1>2, <2>1, Reloading
  <2>3. told' = told
    BY <2>1, <2>2 DEF Tells
  <2>. QED  BY <1>3, <2>1, <2>3
<1>6. CASE Confirmed(i)
  <2>1. Kind(c.op) = "confirm" /\ Tells(c)
        /\ IF Reloads(c.op) THEN \E s, closes : Load(s, closes) ELSE NoLoad
    BY <1>6 DEF Confirmed, Succeeded
  <2>2. Touches(c.op) /\ c.op # "password" => Reloads(c.op) /\ ~Is(c.op, "answers")
    BY <1>2, <2>1, Reloading
  <2>. QED  BY <1>1, <2>1, <2>2, ReloadFresh
<1>7. \/ NoLoad /\ told' = told
      \/ Tells(c) /\ ReloadAfter(c.op, c.sel) /\ (FormSaved(i) \/ Pressed(i) \/ Asked(i) \/ Imported(i))
      \/ FormStays(i) \/ Confirmed(i)
  BY DEF FormSaved, Pressed, Asked, Previewed, Imported
<1>. QED  BY <1>3, <1>4, <1>5, <1>6, <1>7

\* Errors, questions for a reason, and answers that find their screen gone.
LEMMA OtherAnswersFresh ==
  ASSUME Inv, Fresh, NEW i \in DOMAIN calls, ReasonNeeded(i) \/ CallFailed(i) \/ CallForgotten(i)
  PROVE  Fresh'
<1>1. /\ calls' = RemoveAt(calls, i) /\ screen' = screen /\ mount' = mount /\ sel' = sel
      /\ shown' = shown /\ failed' = failed /\ told' = told
  BY DEF ReasonNeeded, CallFailed, CallForgotten, Done, Quiet
<1>2. NoLoad \/ \E s, closes : Load(s, closes)
  BY DEF ReasonNeeded, CallFailed, CallForgotten, ReloadAfter
<1>. QED  BY <1>1, <1>2, ToldFresh

\* The answer takes the place of what was read, and nothing else is under way.
LEMMA FormAnswersFresh ==
  ASSUME Inv, Fresh, NEW i \in DOMAIN calls, FormAnswers(i)
  PROVE  Fresh'
<1>. DEFINE c == calls[i]
<1>1. /\ calls' = RemoveAt(calls, i) /\ screen' = screen /\ mount' = mount /\ sel' = sel
      /\ gets' = gets /\ Tells(c) /\ c.phase = "ok" /\ c.mount = mount /\ Is(c.op, "answers")
  BY DEF FormAnswers, Succeeded, Done
<1>2. CASE ~Touches(c.op)
  <2>1. UNCHANGED <<shown, failed, raced, told>>
    BY <1>2 DEF FormAnswers, Tells
  <2>. QED  BY <1>1, <2>1, ToldFresh DEF NoLoad
<1>3. CASE Touches(c.op)
  <2>. SUFFICES ASSUME ~raced' PROVE FreshGets' /\ FreshShown' /\ FreshAnswers'
    BY DEF Fresh
  <2>1. /\ shown' = [at |-> c.at, sel |-> sel, by |-> c.by] /\ ~raced /\ MyGets = {}
        /\ \A j \in DOMAIN calls \ {i} : calls[j].mount # mount
    BY <1>3 DEF FormAnswers
  <2>2. FreshAnswers /\ c \in CallRec /\ told \in Nat
    BY <2>1, Counters, CallOf DEF Fresh, GoodCall
  <2>3. c.at >= told
    BY <1>1, <1>3, <2>2 DEF FreshAnswers, GoodAnswer, Answering
  <2>4. c.at >= told'
    BY <1>1, <2>2, <2>3 DEF Tells, CallRec
  <2>5. FreshShown'
    BY <1>1, <2>1, <2>4 DEF FreshShown
  <2>6. FreshGets'
    BY <1>1, <2>1 DEF FreshGets, GoodReading, MyGets
  <2>7. calls \in Seq(GoodCall)
    BY DEF Inv, RequestsOK
  <2>8. PICK f \in [DOMAIN calls' -> DOMAIN calls \ {i}] : \A j \in DOMAIN calls' : calls'[j] = calls[f[j]]
    BY <1>1, <2>7, Left
  <2>9. \A j \in DOMAIN calls' : calls'[j].mount # mount
    BY <2>1, <2>8
  <2>10. FreshAnswers'
    BY <1>1, <2>9 DEF FreshAnswers, GoodAnswer
  <2>. QED  BY <2>5, <2>6, <2>10
<1>. QED  BY <1>2, <1>3

\* The screen turns to what was made: unless it reads that, nothing is new.
LEMMA FormPicksFresh ==
  ASSUME Inv, Fresh, NEW i \in DOMAIN calls, FormPicks(i)
  PROVE  Fresh'
<1>. SUFFICES ASSUME ~raced' PROVE FreshGets' /\ FreshShown' /\ FreshAnswers'
  BY DEF Fresh
<1>. DEFINE c == calls[i]
<1>1. /\ calls' = RemoveAt(calls, i) /\ screen' = screen /\ mount' = mount
      /\ shown' = shown /\ failed' = failed /\ Tells(c) /\ Is(c.op, "picks")
  BY DEF FormPicks, Done
<1>2. PICK s : /\ sel' = s
               /\ gets' = gets \o (IF s # sel THEN <<Get(s, mount)>> ELSE <<>>)
                               \o (IF Reloads(c.op) THEN <<Get(c.sel, mount)>> ELSE <<>>)
               /\ raced' = (raced \/ s # c.sel \/ MyGets # {})
  BY DEF FormPicks
<1>3. ~raced /\ s = c.sel /\ MyGets = {}
  BY <1>2
<1>4. gets \in Seq(GoodGet) /\ c.op \in PageOps
  BY CallOf DEF Inv, RequestsOK, GoodCall, CallRec
<1>5. Touches(c.op) /\ c.op # "password" => Reloads(c.op) /\ ~Is(c.op, "answers")
  BY <1>1, <1>4, Reloading
<1>6. Touches(c.op) => ~Is(c.op, "answers")
  BY <1>1, <1>4, Reloading
<1>7. FreshAnswers'
  BY <1>1, <1>3, <1>6, ToldAnswers DEF Fresh
<1>. DEFINE new == Get(s, mount)
<1>8. new.mount = mount /\ new.sel = sel' /\ new.phase = "sent"
  BY <1>2 DEF Get
<1>. HIDE DEF new
<1>9. CASE s = sel /\ ~Reloads(c.op)
  <2>1. gets' = gets
    BY <1>2, <1>4, <1>9
  <2>2. told' = told
    BY <1>1, <1>5, <1>9 DEF Tells
  <2>. QED  BY <1>1, <1>2, <1>3, <1>7, <1>9, <2>1, <2>2, ReadingsKept DEF Fresh
<1>10. CASE s # sel \/ Reloads(c.op)
  <2>1. gets' \in {gets \o <<new>>, gets \o <<new, new>>}
    <3>1. gets' = gets \o (IF s # sel THEN <<new>> ELSE <<>>)
                      \o (IF Reloads(c.op) THEN <<new>> ELSE <<>>)
      BY <1>2, <1>3 DEF new
    <3>2. CASE s # sel /\ Reloads(c.op)
      <4>1. gets' = gets \o <<new>> \o <<new>>
        BY <3>1, <3>2
      <4>. QED  BY <1>4, <4>1
    <3>3. CASE s # sel /\ ~Reloads(c.op)
      <4>1. gets' = gets \o <<new>> \o <<>>
        BY <3>1, <3>3
      <4>. QED  BY <1>4, <4>1
    <3>4. CASE s = sel
      <4>1. gets' = gets \o <<>> \o <<new>>
        BY <1>10, <3>1, <3>4
      <4>. QED  BY <1>4, <4>1
    <3>. QED  BY <3>2, <3>3, <3>4
  <2>. DEFINE S == GoodGet \union {new}
  <2>2. gets \in Seq(S) /\ new \in S
    <3>1. GoodGet \subseteq S
      OBVIOUS
    <3>. QED  BY <1>4, <3>1, Widened
  <2>. HIDE DEF S
  <2>3. /\ Len(gets) + 1 \in DOMAIN gets' /\ gets'[Len(gets) + 1] = new
        /\ \A j \in DOMAIN gets' : gets'[j] = new \/ (j \in DOMAIN gets /\ gets'[j] = gets[j])
    BY <2>1, <2>2
  <2>4. \A j \in DOMAIN gets' : gets'[j].mount = mount => gets'[j] = new
    BY <1>3, <2>3 DEF MyGets
  <2>5. FreshGets'
    BY <1>1, <1>8, <2>4 DEF FreshGets, GoodReading
  <2>6. ~NoneRead'
    BY <1>1, <1>8, <2>3 DEF NoneRead
  <2>. QED  BY <1>7, <2>5, <2>6 DEF FreshShown
<1>. QED  BY <1>9, <1>10

LEMMA InitFresh == Init => Fresh
<1>. SUFFICES ASSUME Init PROVE Fresh
  OBVIOUS
<1>1. shown = None /\ sel = 0 /\ calls = <<>> /\ \A i \in DOMAIN gets : gets[i] = Get(0, 1)
  BY DEF Init
<1>. QED  BY <1>1 DEF Fresh, FreshGets, GoodReading, FreshShown, FreshAnswers, Get

LEMMA NextFresh == Inv /\ Fresh /\ [Next]_vars => Fresh'
<1>. SUFFICES ASSUME Inv, Fresh, [Next]_vars PROVE Fresh'
  OBVIOUS
<1>1. CASE navigate \/ Select
  BY <1>1, ClearFresh, SelectFresh
<1>2. CASE \/ Close \/ CancelReason \/ ChangeInput \/ DefaultDrifts \/ DryRun \/ Submit \/ SubmitReason
           \/ \E op \in Ops : Open(op) \/ Press(op)
  BY <1>2, UserFresh
<1>3. CASE logout \/ Expire \/ Poll \/ \E u \in Users : login(u)
  BY <1>3, ElsewhereFresh DEF logout, Expire, Poll, login
<1>4. CASE \E i \in DOMAIN gets : ServeGet(i) \/ GetAnswered(i) \/ GetFailed(i) \/ GetRefused(i)
  BY <1>4, ServeGetFresh, GetEndsFresh, ClearFresh
<1>5. ASSUME NEW i \in DOMAIN calls,
             \/ ServeCall(i) \/ FormSaved(i) \/ FormStays(i) \/ FormAnswers(i) \/ FormPicks(i)
             \/ FormLeaves(i) \/ Confirmed(i) \/ Pressed(i) \/ Asked(i) \/ Previewed(i)
             \/ Imported(i) \/ ReasonNeeded(i) \/ CallFailed(i) \/ CallForgotten(i) \/ CallRefused(i)
      PROVE  Fresh'
  BY <1>5, ServeCallFresh, AnswersFresh, OtherAnswersFresh, FormAnswersFresh, FormPicksFresh, ClearFresh
<1>6. ASSUME NEW i \in DOMAIN auth, ServeAuth(i) \/ Enter(i) \/ Leave(i) \/ BarShown(i) \/ AuthEnds(i)
      PROVE  Fresh'
  <2>1. CASE Enter(i) \/ Leave(i)
    BY <2>1, ClearFresh
  <2>2. CASE ServeAuth(i) \/ BarShown(i) \/ AuthEnds(i)
    BY <2>2, ElsewhereFresh DEF ServeAuth, BarShown, AuthEnds
  <2>. QED  BY <1>6, <2>1, <2>2
<1>7. CASE UNCHANGED vars
  BY <1>7, StillFresh DEF vars
<1>. QED  BY <1>1, <1>2, <1>3, <1>4, <1>5, <1>6, <1>7 DEF Next, User, Network

\* A screen at rest shows what is selected on it, and nothing older than the
\* last change it was told of, on every screen and whatever overlapped, if no
\* reading was under way when another was sent (SettledScreenIsFresh of
\* Browser; the reloads of the pages and useApi).
THEOREM SettledIsFresh == Spec => []SettledScreenIsFresh
<1>1. Init => Inv /\ Fresh
  BY InitInv, InitFresh
<1>2. (Inv /\ Fresh) /\ [Next]_vars => (Inv /\ Fresh)'
  BY NextInv, NextFresh
<1>3. Inv /\ Fresh => SettledScreenIsFresh
  BY DEF Fresh, FreshShown, NoneRead, MyGets, SettledScreenIsFresh
<1>. QED  BY <1>1, <1>2, <1>3, PTL DEF Spec
=============================================================================
