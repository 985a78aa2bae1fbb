------------------------------ MODULE MCNotify ------------------------------
(* Instances of Notify for TLC. *)
EXTENDS Notify

CONSTANT MaxBefore  \* bound: what has been sent when a request begins

\* Requests begin, and versions are saved, before more than MaxBefore messages
\* have been sent.
Sent == {k \in Key : runs[k] # NoRun \/ \E u \in User : notices[k][u] > 0}
Begins == scenario' # scenario \/ \E r \in Request : worker[r].pc = "idle" /\ worker'[r].pc # "idle"
FewRequests == Begins => Cardinality(Sent) <= MaxBefore

\* A deadline that has been entered stays.
DeadlineStays ==
  \A s \in Scenario : scenario[s].deadline \in {NoDeadline, scenario'[s].deadline}
=============================================================================
