----------------------------- MODULE Schedules ------------------------------
(***************************************************************************)
(* The durable reminders of one session (internal/schedule/durable.go and  *)
(* cmd/sta/schedules.go): schedule_create and schedule_delete, the ticker  *)
(* that queues a due reminder in the agent's inbox, and the pre-step hook  *)
(* of a turn that shows one to the model. Both delivery paths run under    *)
(* the session's schedule lock, in several durable steps; an append may    *)
(* fail and the process may die between any two of them. The projection is *)
(* rebuilt from the log on restart.                                        *)
(*                                                                         *)
(* A reminder is named by its occurrence <<id, at>>. Only the schedule     *)
(* events, the inbox insertions and the shown messages of the session log  *)
(* are kept.                                                               *)
(***************************************************************************)
EXTENDS Naturals, Sequences, FiniteSets, FiniteSetsExt, SequencesExt

CONSTANTS
    Interval,    \* EverySeconds of a repeating reminder
    MaxTime,     \* bound: the clock
    MaxId,       \* bound: the schedules created
    LastCreate,  \* bound: the latest time of a creation
    MaxTroubles  \* bound: failing appends, stops and crashes

ASSUME ScheduleAssumption ==
    /\ {Interval, MaxTime, MaxId, LastCreate, MaxTroubles} \subseteq Nat /\ Interval > 0

VARIABLES
    changes,    \* schedule/change events
    fires,      \* schedule/fire events: the occurrences, in log order
    inbox,      \* inbox insertions: the set of occurrences of each key
    shown,      \* occurrences in context messages that a turn has logged
    active,     \* DurableScheduler.active: the live schedules
    nextID,     \* DurableScheduler.nextID
    phase,      \* "open", "stopping" or "closed"
    now,
    pc,         \* how far the ticker's pass and the turn's pre-step are
    due,        \* DurableDue.Records of the pass that holds the lock
    left,       \* those of them its present loop has not reached
    accepted,   \* DurableDue.AcceptedAt
    message,    \* the reminder the pre-step has returned to its turn
    handled,    \* history: who dispatched which occurrence
    troubles

logVars == <<changes, fires, inbox, shown>>
passVars == <<pc, due, left, accepted, message>>
vars == <<logVars, active, nextID, phase, now, passVars, handled, troubles>>

Deliverers == {"ticker", "turn"}
Ids == 1 .. MaxId

Init ==
    /\ changes = <<>> /\ fires = <<>> /\ inbox = <<>> /\ shown = {}
    /\ active = <<>> /\ nextID = 0 /\ phase = "open" /\ now = 0
    /\ pc = [d \in Deliverers |-> "rest"] /\ due = <<>> /\ left = <<>> /\ accepted = 0
    /\ message = <<>> /\ handled = {} /\ troubles = 0

----------------------------------------------------------------------------
(* The projection: applyLocked and Restore.                                *)

Change(op, id, kind, at, acceptedAt) ==
    [op |-> op, id |-> id, kind |-> kind, at |-> at, accepted |-> acceptedAt]

Without(f, x) == [y \in DOMAIN f \ {x} |-> f[y]]
With(f, x, v) == [y \in DOMAIN f \cup {x} |-> IF y = x THEN v ELSE f[y]]

\* The first target after acceptedAt that is aligned with the anchor.
\* Faulty: stops at the last target.
NextTargetNoStep(at, acceptedAt) == at + ((acceptedAt - at) \div Interval) * Interval
NextTarget(at, acceptedAt) == at + ((acceptedAt - at) \div Interval + 1) * Interval

\* May the change follow the projection p? Restore fails otherwise.
Acceptable(p, c) ==
    CASE c.op = "create" -> c.id \notin p.seen
      [] c.op = "delete" -> c.id \in DOMAIN p.active
      [] c.op = "dispatch" -> c.id \in DOMAIN p.active
                              /\ (p.active[c.id].kind = "every" => c.accepted >= p.active[c.id].at)

Applied(f, c) ==
    CASE c.op = "create" -> With(f, c.id, [kind |-> c.kind, at |-> c.at])
      [] c.op = "delete" -> Without(f, c.id)
      [] c.op = "dispatch" ->
            IF f[c.id].kind = "once" THEN Without(f, c.id)
            ELSE [f EXCEPT ![c.id].at = NextTarget(@, c.accepted)]

\* Restore folds the changes strictly.
Restored ==
    LET fold[k \in 0 .. Len(changes)] ==
          IF k = 0 THEN [ok |-> TRUE, active |-> <<>>, seen |-> {}]
          ELSE LET p == fold[k - 1]  c == changes[k]
               IN  IF p.ok /\ Acceptable(p, c)
                   THEN [ok |-> TRUE, active |-> Applied(p.active, c), seen |-> p.seen \cup {c.id}]
                   ELSE [p EXCEPT !.ok = FALSE]
    IN  fold[Len(changes)]

----------------------------------------------------------------------------
(* Appends, the lock of the session and the mutex of the scheduler.        *)

AppendFails == troubles < MaxTroubles /\ troubles' = troubles + 1 /\ UNCHANGED logVars

\* The pre-step gives the lock back before its turn logs the message.
LockFree == \A d \in Deliverers : pc[d] \in {"rest", "show"}
\* Dispatch holds the scheduler's own mutex for all records of the batch.
MutexFree == \A d \in Deliverers : pc[d] # "dispatching"
\* A closed scheduler refuses everything; the ticker's context ends earlier.
Refuses(d) == phase = "closed" \/ (phase = "stopping" /\ d = "ticker")

Goto(d, l) == pc' = [pc EXCEPT ![d] = l]
GiveUp(d) == Goto(d, "rest") /\ due' = <<>> /\ left' = <<>> /\ accepted' = 0 /\ UNCHANGED message

----------------------------------------------------------------------------
(* The tools schedule_create and schedule_delete. They run in a turn of the *)
(* session, so never during its pre-step, but the ticker runs beside them. *)

ToolMayRun == phase # "closed" /\ pc["turn"] = "rest" /\ MutexFree

Create(kind) ==
    LET at == now + (IF kind = "every" THEN Interval ELSE 1)
        c == Change("create", nextID + 1, kind, at, 0)
    IN  /\ ToolMayRun /\ nextID < MaxId /\ now <= LastCreate
        /\ \/ /\ changes' = Append(changes, c) /\ active' = Applied(active, c)
              /\ UNCHANGED <<fires, inbox, shown, troubles>>
           \/ AppendFails /\ UNCHANGED active
        /\ nextID' = nextID + 1
        /\ UNCHANGED <<phase, now, passVars, handled>>

Delete(id) ==
    LET c == Change("delete", id, "", 0, 0)
    IN  /\ ToolMayRun /\ id \in DOMAIN active
        /\ \/ /\ changes' = Append(changes, c) /\ active' = Applied(active, c)
              /\ UNCHANGED <<fires, inbox, shown, troubles>>
           \/ AppendFails /\ UNCHANGED active
        /\ UNCHANGED <<nextID, phase, now, passVars, handled>>

----------------------------------------------------------------------------
(* Delivery: Due, the reminder, schedule/fire, Dispatch.                   *)

\* What is due, by target and then by age: the earliest one-shot alone, or
\* every repeating schedule together.
Overdue(kind) == {id \in DOMAIN active : active[id].kind = kind /\ active[id].at <= now}
Earlier(a, b) == active[a].at < active[b].at \/ (active[a].at = active[b].at /\ a < b)
Ordered(ids) ==
    CHOOSE s \in [1 .. Cardinality(ids) -> ids] : \A j, k \in DOMAIN s : j < k => Earlier(s[j], s[k])
Due ==
    LET ids == IF Overdue("once") # {} THEN SubSeq(Ordered(Overdue("once")), 1, 1) ELSE Ordered(Overdue("every"))
    IN  [k \in 1 .. Len(ids) |-> <<ids[k], active[ids[k]].at>>]

\* Take the lock and look. The ticker goes on with the reminder in the
\* inbox, a turn with the fire events.
Look(d) ==
    /\ phase # "closed" /\ ~Refuses(d)
    /\ pc[d] = "rest" /\ LockFree /\ MutexFree /\ Due # <<>>
    /\ due' = Due /\ left' = Due /\ accepted' = now
    /\ Goto(d, IF d = "ticker" THEN "enqueue" ELSE "fire")
    /\ UNCHANGED <<logVars, active, nextID, phase, now, message, handled, troubles>>

\* The dedupe key names the whole batch. A key that was ever inserted, claimed
\* or not, is not inserted again.
\* Faulty: no look at the inbox.
KeyNeverSeen == FALSE
KeySeen == ToSet(due) \in ToSet(inbox)
\* Faulty: goes on when the insertion fails.
EnqueueFailureIgnored ==
    /\ pc["ticker"] = "enqueue" /\ Goto("ticker", "fire")
    /\ \/ KeySeen /\ UNCHANGED <<logVars, troubles>>
       \/ ~KeySeen /\ inbox' = Append(inbox, ToSet(due)) /\ UNCHANGED <<changes, fires, shown, troubles>>
       \/ ~KeySeen /\ AppendFails
    /\ UNCHANGED <<active, nextID, phase, now, handled, due, left, accepted, message>>
\* Faulty: leaves a queued reminder undispatched.
EnqueueStopsWhenSeen ==
    /\ pc["ticker"] = "enqueue"
    /\ \/ KeySeen /\ GiveUp("ticker") /\ UNCHANGED <<logVars, troubles>>
       \/ /\ ~KeySeen /\ inbox' = Append(inbox, ToSet(due)) /\ Goto("ticker", "fire")
          /\ UNCHANGED <<changes, fires, shown, troubles, due, left, accepted, message>>
    /\ UNCHANGED <<active, nextID, phase, now, handled>>
Enqueue ==
    /\ pc["ticker"] = "enqueue"
    /\ \/ KeySeen /\ Goto("ticker", "fire") /\ UNCHANGED <<logVars, troubles, due, left, accepted, message>>
       \/ /\ ~KeySeen /\ inbox' = Append(inbox, ToSet(due)) /\ Goto("ticker", "fire")
          /\ UNCHANGED <<changes, fires, shown, troubles, due, left, accepted, message>>
       \/ ~KeySeen /\ AppendFails /\ GiveUp("ticker")
    /\ UNCHANGED <<active, nextID, phase, now, handled>>

\* appendDurableScheduleFire: one event for each record that has none yet.
FireRecorded(o) == o \in ToSet(fires)
Fire(d) ==
    /\ pc[d] = "fire"
    /\ \/ /\ left = <<>> /\ Goto(d, "dispatch") /\ left' = due
          /\ UNCHANGED <<logVars, troubles, due, accepted, message>>
       \/ /\ left # <<>> /\ FireRecorded(left[1]) /\ left' = Tail(left)
          /\ UNCHANGED <<logVars, troubles, pc, due, accepted, message>>
       \/ /\ left # <<>> /\ ~FireRecorded(left[1])
          /\ fires' = Append(fires, left[1]) /\ left' = Tail(left)
          /\ UNCHANGED <<changes, inbox, shown, troubles, pc, due, accepted, message>>
       \/ left # <<>> /\ ~FireRecorded(left[1]) /\ AppendFails /\ GiveUp(d)
    /\ UNCHANGED <<active, nextID, phase, now, handled>>

\* Dispatch, one record after the other. A record that was deleted or moved
\* since Due ends it, and what was dispatched before stays dispatched.
Current(o) == o[1] \in DOMAIN active /\ active[o[1]].at = o[2]
Dispatch(d) ==
    /\ pc[d] \in {"dispatch", "dispatching"}
    /\ LET refused == pc[d] = "dispatch" /\ Refuses(d)
       IN  \/ refused /\ GiveUp(d) /\ UNCHANGED <<logVars, active, handled, troubles>>
           \/ /\ ~refused /\ left = <<>> /\ due' = <<>> /\ accepted' = 0
              /\ Goto(d, IF d = "ticker" THEN "rest" ELSE "show")
              /\ message' = IF d = "ticker" THEN message ELSE due
              /\ UNCHANGED <<logVars, active, handled, troubles, left>>
           \/ /\ ~refused /\ left # <<>> /\ Current(left[1])
              /\ LET c == Change("dispatch", left[1][1], "", 0, accepted)
                 IN  \/ /\ changes' = Append(changes, c) /\ active' = Applied(active, c)
                        /\ handled' = handled \cup {<<d, left[1]>>}
                        /\ left' = Tail(left) /\ Goto(d, "dispatching")
                        /\ UNCHANGED <<fires, inbox, shown, due, accepted, message, troubles>>
                     \/ AppendFails /\ GiveUp(d) /\ UNCHANGED <<active, handled>>
           \/ /\ ~refused /\ left # <<>> /\ ~Current(left[1])
              /\ GiveUp(d) /\ UNCHANGED <<logVars, active, handled, troubles>>
    /\ UNCHANGED <<nextID, phase, now>>

\* The turn logs the reminder as a context message of its step, or fails.
Show ==
    /\ pc["turn"] = "show" /\ Goto("turn", "rest") /\ message' = <<>>
    /\ \/ shown' = shown \cup ToSet(message) /\ UNCHANGED <<changes, fires, inbox, troubles>>
       \/ AppendFails
    /\ UNCHANGED <<active, nextID, phase, now, due, left, accepted, handled>>

----------------------------------------------------------------------------
(* Time, shutdown, crash and restart.                                      *)

Clock ==
    /\ now < MaxTime /\ now' = now + 1
    /\ UNCHANGED <<logVars, active, nextID, phase, passVars, handled, troubles>>

\* closeGoalSchedulers cancels the ticker, waits for it and closes.
Stop ==
    /\ phase = "open" /\ troubles < MaxTroubles /\ troubles' = troubles + 1
    /\ phase' = "stopping" /\ UNCHANGED <<logVars, active, nextID, now, passVars, handled>>
CloseSchedulers ==
    /\ phase = "stopping" /\ pc["ticker"] = "rest" /\ MutexFree /\ phase' = "closed"
    /\ UNCHANGED <<logVars, active, nextID, now, passVars, handled, troubles>>

\* The process starts again, after a close or after a crash at any moment:
\* restoreGoalScheduler rebuilds the scheduler, or leaves the session without
\* one when Restore refuses the log.
\* Faulty: counts on from the live schedules.
LastActiveId == IF Restored.active = <<>> THEN 0 ELSE Max(DOMAIN Restored.active)
LastId == IF Restored.seen = {} THEN 0 ELSE Max(Restored.seen)
Rebuild ==
    /\ Restored.ok /\ phase' = "open" /\ active' = Restored.active /\ nextID' = LastId
    /\ pc' = [d \in Deliverers |-> "rest"] /\ due' = <<>> /\ left' = <<>>
    /\ accepted' = 0 /\ message' = <<>> /\ UNCHANGED <<logVars, now, handled>>
Restart == phase = "closed" /\ (\A d \in Deliverers : pc[d] = "rest") /\ Rebuild /\ UNCHANGED troubles
Crash == troubles < MaxTroubles /\ troubles' = troubles + 1 /\ Rebuild

Pass == Enqueue \/ (\E d \in Deliverers : Fire(d) \/ Dispatch(d)) \/ Show

Next ==
    \/ \E kind \in {"once", "every"} : Create(kind)
    \/ \E id \in Ids : Delete(id)
    \/ \E d \in Deliverers : Look(d)
    \/ Pass \/ Clock \/ Stop \/ CloseSchedulers \/ Crash \/ Restart

Spec == Init /\ [][Next]_vars

\* The ticker comes round again, a pass once begun goes on and a shutdown ends.
\* Nothing is assumed of tools, turns, crashes and restarts.
FairSpec == Spec /\ WF_vars(Look("ticker") \/ Pass \/ CloseSchedulers)

----------------------------------------------------------------------------
(* Properties.                                                             *)

Targets == 1 .. MaxTime + Interval
Occurrences == Ids \X Targets

\* Types: a live target is never more than one interval ahead of the clock
\* (applyLocked).
TypeOK ==
    /\ changes \in Seq([op : {"create", "delete", "dispatch"}, id : Ids, kind : {"once", "every", ""},
                        at : 0 .. MaxTime + Interval, accepted : 0 .. MaxTime])
    /\ fires \in Seq(Occurrences) /\ inbox \in Seq(SUBSET Occurrences) /\ shown \subseteq Occurrences
    /\ DOMAIN active \subseteq Ids /\ nextID \in 0 .. MaxId
    /\ \A id \in DOMAIN active :
         active[id].kind \in {"once", "every"} /\ active[id].at \in 1 .. now + Interval
    /\ phase \in {"open", "stopping", "closed"} /\ now \in 0 .. MaxTime
    /\ pc \in [Deliverers -> {"rest", "enqueue", "fire", "dispatch", "dispatching", "show"}]
    /\ {due, left, message} \subseteq Seq(Occurrences) /\ accepted \in 0 .. MaxTime
    /\ handled \subseteq Deliverers \X Occurrences /\ troubles \in 0 .. MaxTroubles

\* Restore accepts the log at every moment, and the projection it would build
\* is the live one: a crash loses no schedule, revives none and moves none
\* (Create, Delete and Dispatch append before they apply).
ReplayAccepts == Restored.ok /\ Restored.active = active

\* Through retries, crashes and the two delivery paths an occurrence is recorded
\* as fired once (scheduleFireAlreadyRecorded), and a one-shot reminder is queued
\* once (durableScheduleReminderDelivered), even when the first message was
\* claimed before the fire was recorded.
Creation(id) == CHOOSE k \in DOMAIN changes : changes[k].op = "create" /\ changes[k].id = id
KindOf(id) == changes[Creation(id)].kind
NotRepeated ==
    /\ IsInjective(fires)
    /\ \A j, k \in DOMAIN inbox : \A o \in inbox[j] \cap inbox[k] : KindOf(o[1]) = "once" => j = k

\* A repeating schedule moves to a target after the accepted time, at most one
\* interval later and aligned with its first target: no drift, no burst of
\* missed occurrences (applyLocked).
EveryAdvances ==
    [][\A id \in DOMAIN active \cap DOMAIN active' :
         LET was == active[id].at  is == active'[id].at
         IN  is # was => /\ is > accepted /\ is <= accepted + Interval
                         /\ (is - was) % Interval = 0 /\ was <= accepted]_vars

\* A running process catches up: whatever is overdue is dispatched or deleted
\* in the end, in spite of failing appends, of restarts and of deletions that
\* break up a batch (startGoalScheduler comes round while something is due).
\* That the session's Agent cannot be had counts as a failing append, so it can
\* be had in the end.
CatchesUp ==
    \A id \in Ids : (phase = "open" /\ id \in Overdue("once") \cup Overdue("every"))
                     ~> (phase # "open" \/ id \notin Overdue("once") \cup Overdue("every"))

\* What was dispatched was fired, and what the ticker dispatched is in the
\* durable inbox: no failure and no crash between its steps loses the reminder
\* (runScheduledReminder).
QueuedBeforeDispatch ==
    \A h \in handled :
        /\ h[2] \in ToSet(fires)
        /\ h[1] = "ticker" => \E k \in DOMAIN inbox : h[2] \in inbox[k]

----------------------------------------------------------------------------
(* Claims of comments that the code does not keep; TLC refutes both.       *)

\* "The caller must successfully run the follow-up before Dispatch" (Due): what
\* a turn's pre-step dispatched is logged, or on its way to the turn's step.
RemindersSurvive ==
    \A h \in handled : h[1] = "turn" => h[2] \in shown \cup ToSet(message) \cup ToSet(due)

\* "the next scheduler pass reuses the key and cannot enqueue a duplicate"
\* (runScheduledReminder): no occurrence is in two insertions.
QueuedOnce == \A j, k \in DOMAIN inbox : inbox[j] \cap inbox[k] # {} => j = k
=============================================================================
