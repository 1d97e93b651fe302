---------------------------- MODULE MCHostServices ----------------------------
(***************************************************************************)
(* An instance of HostServices for TLC.                                    *)
(***************************************************************************)
EXTENDS HostServices, TLC

Item(id, dependsOn) == [id |-> id, dependsOn |-> dependsOn]

\* A plan whose list is not in the order of its dependencies, and one that uses an id
\* twice, has a step that depends on its own id and one that names an id no step has.
StepLists ==
  { <<Item("b", {}), Item("a", {"b", "c"}), Item("c", {"b"})>>,
    <<Item("a", {"a"}), Item("a", {}), Item("b", {"x"})>> }
================================================================================
