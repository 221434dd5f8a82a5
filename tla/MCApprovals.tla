----------------------------- MODULE MCApprovals -----------------------------
(* Small instances of Approvals.                                           *)
EXTENDS Approvals

CONSTANTS a1, a2, u1, u2, s1, c1, c2

\* Everybody belongs to one session.
MCOwner == [p \in Askers \cup Answerers |-> s1]

\* Who takes part: two answers race with the sweep of the session and Close for
\* one request; two askers compete for one slot while an answer is rolled back;
\* two calls of Close meet. The others have nothing to do.
Casts == {{a1, u1, u2, s1, c1}, {a1, a2, u1}, {a1, c1, c2}}

CastInit ==
    /\ Empty
    /\ \E cast \in Casts : pc = [p \in Procs |-> IF p \in cast THEN "begin" ELSE "returned"]

CastSpec == CastInit /\ [][Next]_vars /\ Fairness
=============================================================================
