---------------------------- MODULE MCAgentDriver ----------------------------
(* Small instances of AgentDriver: the actors are model values.            *)
EXTENDS AgentDriver

CONSTANTS r1, r2, s1, x1, m1, w1, c1, c2
=============================================================================
