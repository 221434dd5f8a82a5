---------------------------- MODULE MCJobRegistry ----------------------------
(* A small instance of JobRegistry.                                        *)
EXTENDS JobRegistry

CONSTANTS j1, j2, j3, o1, k1, c1, d1, d2

\* Two jobs of one owner and an unowned one.
MCOwnerOf == [j \in JobIds |-> IF j = j3 THEN Unowned ELSE o1]
=============================================================================
