----------------------------- MODULE MCTurnLoop -----------------------------
(* A small instance of TurnLoop.                                           *)
EXTENDS TurnLoop

\* The clean failure of the append of an end event is left out: a session is
\* refused after one (see the README).
EarlyEvents == {"turn/start", "step/start", "assistant", "call", "result"}
=============================================================================
