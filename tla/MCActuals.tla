------------------------------ MODULE MCActuals -----------------------------
(* Instances of Actuals for TLC. *)
EXTENDS Actuals, TLC

CONSTANTS m1, y1, y2

\* The first month is of the first year, another month of the second.
MCYearOf == [m \in Month |-> IF m = m1 THEN y1 ELSE y2]

\* No year is closed: for the run about overlapping calls.
YearsOpen == closed' = {}

CallSymmetry == Permutations(Call)
=============================================================================
