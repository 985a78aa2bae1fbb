----------------------------- MODULE YearSlots ------------------------------
(***************************************************************************)
(* What the life cycle of the forecast versions promises to everything     *)
(* that asks which numbers may be entered (entry of values, notifications, *)
(* the home page): in each fiscal year there is one place for the version  *)
(* that is being entered.  A call of the API touches the place of one year *)
(* at most; who takes it is not locked and puts out who held it; and it    *)
(* becomes free only because the version in it is locked.  A version never *)
(* moves to another year.                                                  *)
(*                                                                         *)
(* Scenarios implements this; there a version has an alias, a boundary     *)
(* month and actuals as well, and seven calls change the place.            *)
(***************************************************************************)
EXTENDS Integers

CONSTANTS Version, Year, None

VARIABLES
  year,     \* the fiscal year of a version, None before it is made
  entered,  \* the versions that are being entered
  locked    \* the versions whose numbers are fixed

vars == <<year, entered, locked>>
Of(y) == {s \in Version : year[s] = y}

Init == year = [s \in Version |-> None] /\ entered = {} /\ locked = {}

Make(s, y) ==
  /\ year[s] = None /\ year' = [year EXCEPT ![s] = y]
  /\ UNCHANGED <<entered, locked>>

\* A version, which may be new, takes the place of its year; a version that it
\* continues may be locked with that.
Enter(s, y) ==
  /\ year[s] \in {None, y} /\ s \notin locked
  /\ year' = [year EXCEPT ![s] = y]
  /\ entered' = {s} \union (entered \ Of(y))
  /\ \E fixed \in {{}} \union {{t} : t \in Of(y) \ {s}} : locked' = locked \union fixed

Lock(s) ==
  /\ year[s] # None /\ locked' = locked \union {s} /\ entered' = entered \ {s}
  /\ UNCHANGED year

Unlock(s) ==
  /\ locked' = locked \ {s} /\ UNCHANGED <<year, entered>>

Next == \E s \in Version : Lock(s) \/ Unlock(s) \/ \E y \in Year : Make(s, y) \/ Enter(s, y)
Spec == Init /\ [][Next]_vars
=============================================================================
