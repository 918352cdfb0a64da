--------------------------- MODULE MCAgentRegistry --------------------------
(* Configurations for AgentRegistry: agents alone.                          *)
EXTENDS AgentRegistry

MCKindOf == [o \in Object |-> "agent"]

MCRefs == [o \in Object |-> [v \in Val |-> {}]]
=============================================================================
