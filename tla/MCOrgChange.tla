----------------------------- MODULE MCOrgChange ----------------------------
(* Instances of OrgChange for TLC. *)
EXTENDS OrgChange

CONSTANTS p1, x1, u1, u2

\* Two plans that undo each other's conditions: the first one moves the activity
\* and merges the unit it came from, the second one merges the other way round.
MoveAndMerge == <<[kind |-> "move_activity", activity |-> x1, target |-> u2],
                  [kind |-> "merge_unit", unit |-> u1, target |-> u2]>>
MergeBack == <<[kind |-> "merge_unit", unit |-> u2, target |-> u1]>>
MCItems == {MoveAndMerge, MergeBack}
Contents(p) == IF p = p1 THEN MoveAndMerge ELSE MergeBack
FixedContents ==
  \A r \in Request : worker'[r].pc = "save" => worker'[r].items = Contents(worker'[r].plan)
=============================================================================
