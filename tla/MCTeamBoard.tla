---------------------------- MODULE MCTeamBoard -----------------------------
(* Model checking TeamBoard: a lead and one teammate, two tasks, two       *)
(* messages, one visitor.                                                  *)
EXTENDS TeamBoard

MCTaskIds == 1..2
MCMsgIds == 1..2
=============================================================================
