----------------------------- MODULE MCAgentTree -----------------------------
(* A session with a teammate.                                              *)
EXTENDS AgentTree

CONSTANTS lead, mate

MCParentOf == [x \in Ids |-> IF x = mate THEN lead ELSE Nobody]
=============================================================================
