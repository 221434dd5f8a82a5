----------------------------- MODULE PendingWork -----------------------------
(***************************************************************************)
(* What the durable inbox of an Agent promises about one message: it is    *)
(* submitted once, and from then on it is either handed to one turn or     *)
(* dropped, never both and never twice, whatever crashes in between.       *)
(***************************************************************************)
EXTENDS Naturals

CONSTANT
    \* the number of message identifiers the inbox may issue
    MaxId

VARIABLE
    \* fate[n] is what has become of the message with identifier n
    fate

Ids == 1 .. MaxId

Init == fate = [n \in Ids |-> "unsent"]

\* Identifiers are issued in order; an identifier whose submission failed is
\* skipped until a restart hands it out again.
Submit(n) ==
    /\ fate[n] = "unsent"
    /\ \A m \in Ids : m > n => fate[m] = "unsent"
    /\ fate' = [fate EXCEPT ![n] = "pending"]

\* One turn boundary takes a set of pending messages out of the inbox. The
\* turn then receives them or, when the process dies first, nobody does.
Take(S, outcome) ==
    /\ S # {} /\ \A n \in S : fate[n] = "pending"
    /\ fate' = [n \in Ids |-> IF n \in S THEN outcome ELSE fate[n]]

Next ==
    \/ \E n \in Ids : Submit(n)
    \/ \E S \in SUBSET {n \in Ids : fate[n] = "pending"}, outcome \in {"delivered", "dropped"} : Take(S, outcome)

Spec == Init /\ [][Next]_fate
=============================================================================
