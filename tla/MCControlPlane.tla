--------------------------- MODULE MCControlPlane ---------------------------
(* Configurations for ControlPlane: a zone, an app of it that exits through *)
(* an agent unless it has the odd value, and the agent; a lone agent.       *)
EXTENDS ControlPlane, TLC

\* Requests are interchangeable.
HandlerSymmetry == Permutations(Handler)

\* An object refers to R, whatever its value.
Always(R) == [v \in Val |-> R]

MCKindOf == [site |-> "zone", blog |-> "app", edge |-> "agent"]

MCRefs ==
    [site |-> Always({}), edge |-> Always({}),
     blog |-> [v \in Val |-> IF v \in Unbuildable THEN {"site"} ELSE {"site", "edge"}]]

MCKindOfPair == [nas |-> "target", edge |-> "agent"]

\* The target is deployed to through the agent unless it has the odd value.
MCRefsPair ==
    [edge |-> Always({}), nas |-> [v \in Val |-> IF v \in Unbuildable THEN {} ELSE {"edge"}]]

\* The server is first started on a file with an agent.
StartInit == Init /\ file = Only("agent", file) /\ file # Empty

StartSpec == StartInit /\ [][Next]_vars /\ Fairness

\* Agents answer under their configured names.
MCReported == [a \in Agent |-> a]
=============================================================================
