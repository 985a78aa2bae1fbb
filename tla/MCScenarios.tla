----------------------------- MODULE MCScenarios ----------------------------
(* Instances of Scenarios for TLC. *)
EXTENDS Scenarios, TLC

\* The scenarios are interchangeable: no definition orders them.
ScenarioSymmetry == Permutations(Scenario)

\* The alias "revised" is not used: for the instances in which an alias means
\* nothing, or no switch reads this one.
WithoutRevised == \A s \in Scenario : version'[s].role # "revised"

\* Bounds the instance of several years, which is about switching versions and
\* about how the active ones are told apart.  No actuals come in, only the
\* monthly switch sets a previous forecast, the second year is the only one
\* with more than one version, and the only one that is closed.
SwitchingOnly ==
  /\ changing' = changing
  /\ WithoutRevised
  /\ \A s \in Scenario :
       IF Exists(s) THEN version'[s].previous = version[s].previous
       ELSE version'[s].previous # NoScenario => version'[s].active
  /\ \A s, t \in Scenario :
       Exists(s)' /\ version'[s].year # 2 /\ version'[t].year = version'[s].year => t = s
  /\ closed' \subseteq {2}
=============================================================================
