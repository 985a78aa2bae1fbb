---------------------------- MODULE MCDashboard ----------------------------
(* An instance of Dashboard for TLC.  Every row has an amount of its own, a *)
(* power of two in the newest version, so that a sum tells what is in it.   *)
EXTENDS Dashboard, TLC

CONSTANTS me, somebody, root, left, deep, right, single, ua, ub, uc, ud, a1, a2, a3, a4, a5

MCSegments == (root :> None) @@ (single :> None) @@ (left :> root) @@ (deep :> left)
              @@ (right :> root)
Unit(segment, type, owner, archived) ==
  [segment |-> segment, type |-> type, owner |-> owner, archived |-> archived]
MCUnits == (ua :> Unit(deep, "service", me, FALSE)) @@ (ub :> Unit(right, "service", somebody, FALSE))
           @@ (uc :> Unit(single, "corporate", me, FALSE)) @@ (ud :> Unit(right, "service", me, TRUE))
Activity(unit, owner, type, level) == [unit |-> unit, owner |-> owner, type |-> type, level |-> level]
MCActivities == (a1 :> Activity(ua, me, "project", "A")) @@ (a2 :> Activity(ua, somebody, "recurring", "B"))
                @@ (a3 :> Activity(ub, me, "project", "B")) @@ (a4 :> Activity(uc, somebody, "recurring", "A"))
                @@ (a5 :> Activity(ud, somebody, "project", "A"))

\* The plan of a year, a forecast, the next forecast, and the plan of the next year.
Version(year, role, active, previous) ==
  [year |-> year, role |-> role, active |-> active, previous |-> previous]
MCVersions == <<Version(1, "initial", FALSE, None), Version(1, "no", FALSE, None),
                Version(1, "latest", TRUE, 2), Version(2, "initial", FALSE, None)>>

Items == <<a1, a2, a3, a4, a5, None>>
MCCauses ==
  [p \in (1..4) \X {a1, a2, a3, a4, a5} |->
     CASE p[2] = a1 -> {"timing"} [] p[2] = a3 -> {"timing", "new"}
       [] p[2] = a4 /\ p[1] = 3 -> {"timing"} [] OTHER -> {}]
\* a2 does not change from the forecast to the next one.
MCAmounts ==
  [p \in (1..4) \X {a1, a2, a3, a4, a5, None} |->
     LET bit == 2^((CHOOSE i \in 1..6 : Items[i] = p[2]) - 1)
     IN  CASE p[1] = 3 -> bit [] p[1] = 2 -> IF p[2] = a2 THEN bit ELSE 3 * bit
           [] p[1] = 1 -> 5 * bit [] OTHER -> 7 * bit]
=============================================================================
