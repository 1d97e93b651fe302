------------------------------- MODULE MCRouting -------------------------------
(***************************************************************************)
(* An instance of Routing for TLC: a hosted endpoint that also sees, and a *)
(* local provider that echoes and is ranked dearer; the agent loop and a   *)
(* runtime that plans and acts.                                            *)
(***************************************************************************)
EXTENDS Routing

Able(local, tier, capabilities, models) ==
  [local |-> local, tier |-> tier, capabilities |-> capabilities, models |-> models]

Descriptors ==
  << Able(FALSE, "budget", {"coding", "tools", "vision"}, <<1>>),
     Able(TRUE, "standard", {"coding", "tools"}, <<2>>) >>

Catalogs == <<<<1, 3>>>>

AcceptedBy == <<{"coding", "tools"}, {"coding", "tools", "vision"}>>

\* A request that excludes the local provider, one that allows the hosted one only and asks
\* for a model that has to be discovered, one that is refused, the pinned arm of a
\* comparison, and one that prefers the hosted provider and fails over to the local one.
Asks ==
  << { ApiMission({"coding", "tools", "gpt-4"},
                  [NoLabels EXCEPT !.preferRuntime = 2, !.excludeProvider = {2}], NoFields),
       ApiMission({"vision"}, [NoLabels EXCEPT !.preferLocal = "false",
                                               !.excludeRuntime = {1}],
                  [NoFields EXCEPT !.model = 3, !.providers = {1}]) },
     { ApiMission({"gpt-4"}, NoLabels, NoFields), CompareArm(1, None), Research(1, None) } >>
================================================================================
