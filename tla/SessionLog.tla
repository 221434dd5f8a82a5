----------------------------- MODULE SessionLog -----------------------------
(***************************************************************************)
(* The durable event log of a session as the stores and the session        *)
(* package read it: the lifecycle grammar that a session has to satisfy to *)
(* be opened (session.ValidateLifecycle) and the events that a load adds   *)
(* to close a turn that a crash left open (session.InterruptedTurnClosers).*)
(*                                                                         *)
(* Only the events of the turn lifecycle are kept. An event is a record:   *)
(* its type, the turn and step it names, n (the number of calls of an      *)
(* assistant message, the index of a call otherwise) and its code (the     *)
(* status of an end event, the outcome of a tool result).                  *)
(***************************************************************************)
EXTENDS Naturals, Sequences, FiniteSets, FiniteSetsExt

Event(type, t, s, n, code) == [type |-> type, turn |-> t, step |-> s, n |-> n, code |-> code]

Anchors == {"turn/start", "turn/end", "step/start", "step/end"}

\* A record that a crash cut off in the middle (the last line of a JSONL
\* transcript without its newline).
Torn == Event("torn", 0, 0, 0, "")

\* The complete records of a transcript: a torn last one is truncated.
Complete(log) ==
    IF Len(log) > 0 /\ log[Len(log)] = Torn THEN SubSeq(log, 1, Len(log) - 1) ELSE log

\* The indices of log up to i of an event of one of the types, and the last.
Before(log, i, types) == {j \in 1 .. i : log[j].type \in types}
LastBefore(log, i, types) == Max({0} \cup Before(log, i, types))

\* The kind of the last anchor among the first i events.
AnchorAt(log, i) ==
    LET j == LastBefore(log, i, Anchors) IN IF j = 0 THEN "none" ELSE log[j].type

\* What the log leaves open: nothing, a turn between two steps, or a step.
OpenAt(log, i) ==
    LET anchor == AnchorAt(log, i)
    IN  CASE anchor \in {"none", "turn/end"} -> "none"
          [] anchor \in {"turn/start", "step/end"} -> "turn"
          [] anchor = "step/start" -> "step"

Open(log) == OpenAt(log, Len(log))

\* The brackets of ValidateLifecycle: turns do not overlap and a turn closes
\* its step before it opens another one or ends.
Nested(log) ==
    \A i \in DOMAIN log :
        CASE log[i].type = "turn/start" -> OpenAt(log, i - 1) = "none"
          [] log[i].type \in {"turn/end", "step/start"} -> OpenAt(log, i - 1) = "turn"
          [] log[i].type = "step/end" -> OpenAt(log, i - 1) = "step"
          [] OTHER -> TRUE

\* The turns that a log has started, the steps that its last turn has closed
\* among its first i events, and the event that opened the step around i.
TurnStarts(log, i) == Cardinality(Before(log, i, {"turn/start"}))
StepEnds(log, i) ==
    Cardinality({j \in Before(log, i, {"step/end"}) : j > LastBefore(log, i, {"turn/start"})})
OpenerOf(log, i) == LastBefore(log, i, {"step/start"})

\* validateCanonicalLifecycle: turns and steps are numbered without a gap,
\* what happens in a step names it, and a result answers a recorded call or
\* says that the call was not started.
Numbered(log) ==
    \A i \in DOMAIN log :
        LET e == log[i]
        IN  /\ e.type = "turn/start" => e.turn = TurnStarts(log, i)
            /\ e.type = "step/start" => e.step = StepEnds(log, i) + 1
            /\ e.type \in {"assistant", "call", "result", "step/end"} =>
                   /\ OpenAt(log, i - 1) = "step"
                   /\ e.turn = log[OpenerOf(log, i)].turn /\ e.step = log[OpenerOf(log, i)].step
            /\ e.type = "result" /\ e.code # "not-started" =>
                   \E j \in OpenerOf(log, i) .. i : log[j].type = "call" /\ log[j].n = e.n

ValidateLifecycle(log) == Nested(log) /\ Open(log) = "none" /\ Numbered(log)

\* The calls of the open step that have no result.
Unanswered(log) ==
    LET from == LastBefore(log, Len(log), {"step/start"})
        asked == Max({0} \cup {log[j].n : j \in {k \in from .. Len(log) : k > 0 /\ log[k].type = "assistant"}})
        Answered(n) == \E j \in from .. Len(log) : j > 0 /\ log[j].type = "result" /\ log[j].n = n
    IN  {n \in 1 .. asked : Open(log) = "step" /\ ~Answered(n)}

\* The k-th number of a set.
Nth(S, k) == CHOOSE n \in S : Cardinality({m \in S : m <= n}) = k

\* InterruptedTurnClosers: answer the calls that have no result, in model order, then close
\* the step and the turn. A call that was recorded as started may have run.
InterruptedTurnClosers(log) ==
    LET from == LastBefore(log, Len(log), {"step/start"})
        t == log[LastBefore(log, Len(log), {"turn/start"})].turn
        s == log[from].step
        Started(n) == \E j \in from .. Len(log) : log[j].type = "call" /\ log[j].n = n
        open == Unanswered(log)
        answers == [k \in 1 .. Cardinality(open) |->
                       Event("result", t, s, Nth(open, k), IF Started(Nth(open, k)) THEN "unknown" ELSE "not-started")]
    IN  IF ~Nested(log) \/ Open(log) = "none"
        THEN <<>>
        ELSE answers \o (IF Open(log) = "step" THEN <<Event("step/end", t, s, 0, "interrupted")>> ELSE <<>>)
                     \o <<Event("turn/end", t, 0, 0, "interrupted")>>
=============================================================================
