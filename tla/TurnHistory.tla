---------------------------- MODULE TurnHistory ----------------------------
(***************************************************************************)
(* What the log of a session promises its readers about turns: they come   *)
(* one after the other, an open turn only gains steps, it ends once with   *)
(* one status, and what has ended never changes, whatever crashes, failed  *)
(* appends, cancellations and recoveries happen in between.                *)
(***************************************************************************)
EXTENDS Naturals, Sequences

CONSTANT Statuses   \* the statuses a turn can end with

VARIABLE turns      \* the turns so far: status ("open" or final), closed steps

TurnOpen == turns # <<>> /\ turns[Len(turns)].status = "open"

Init == turns = <<>>

Begin ==
    /\ ~TurnOpen
    /\ turns' = Append(turns, [status |-> "open", steps |-> 0])

Step ==
    /\ TurnOpen
    /\ turns' = [turns EXCEPT ![Len(turns)].steps = @ + 1]

\* A turn ends; a recovery closes its open step with it.
Finish(status, open) ==
    /\ TurnOpen
    /\ turns' = [turns EXCEPT ![Len(turns)] = [status |-> status, steps |-> @.steps + open]]

Next == Begin \/ Step \/ \E status \in Statuses, open \in {0, 1} : Finish(status, open)

Spec == Init /\ [][Next]_turns
=============================================================================
