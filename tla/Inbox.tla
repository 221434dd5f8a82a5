-------------------------------- MODULE Inbox --------------------------------
(***************************************************************************)
(* The durable inbox of one Agent (internal/agent/inbox.go) with the       *)
(* driver loop that consumes it (internal/agent/agent.go, run).            *)
(*                                                                         *)
(* The live queues are volatile. Every change of them is first committed   *)
(* as a splice event to a journal; a restarted process rebuilds the queues *)
(* by applying the committed events in order. The journal itself is kept   *)
(* here as the value of that replay, durable: committing an event replaces *)
(* durable by apply(durable, event), the fold NewDurableInbox computes.    *)
(***************************************************************************)
EXTENDS Naturals, Sequences, FiniteSets, SequencesExt

CONSTANTS
    Submissions,  \* the <<kind, dedupe key>> pairs callers submit
    NoKey,        \* the empty dedupe key
    MaxId,        \* bound: identifiers issued before callers stop submitting
    MaxCrashes,   \* bound: process crashes
    MaxFaults,    \* bound: journal commits that fail, before the first commit
                  \* of an operation has succeeded
    MaxTorn       \* bound: commits that fail after an earlier commit of the
                  \* same operation has succeeded

Kinds == {"next-step", "next-turn", "steering", "quiet-injection"}

ASSUME SubmissionsAssumption == \A s \in Submissions : s[1] \in Kinds

ASSUME BoundsAssumption == {MaxId, MaxCrashes, MaxFaults, MaxTorn} \subseteq Nat

VARIABLES
    inbox,      \* the live queues and the last identifier issued
    durable,    \* what a restart would rebuild from the committed events
    closed,     \* Inbox.closed
    wake,       \* a token is in the wake channel (its capacity is one)
    driver,     \* where the driver loop is
    inHand,     \* the turn input the driver has claimed and not yet started
    delivered,  \* history: identifiers a turn has received
    issued,     \* history: identifiers ever committed
    crashes, faults, torn   \* how many of each have happened

vars == <<inbox, durable, closed, wake, driver, inHand, delivered, issued,
          crashes, faults, torn>>

budget == <<crashes, faults, torn>>

Message == [id : 1 .. MaxId, kind : Kinds,
            key : {s[2] : s \in Submissions}]

EmptyInbox == [nextStep |-> << >>, nextTurn |-> << >>, quiet |-> << >>,
               nextID |-> 0, ok |-> TRUE]

\* "claiming" is the top of the loop, "waiting" inside Inbox.Wait, "claimed"
\* between the claim and the start of the runner, "running" inside it.
DriverStates == {"claiming", "waiting", "claimed", "running", "exited", "down"}

-----------------------------------------------------------------------------
(* The events and their replay.                                            *)

inboxTarget(kind) == IF kind = "next-turn" THEN "next-turn" ELSE "next-step"

\* The two durable targets; next-step and quiet messages share one.
queue(box, target) ==
    IF target = "next-turn" THEN box.nextTurn ELSE box.nextStep \o box.quiet

\* Faulty: forgets that quiet messages share the next-step target.
InsertBeforeQuiet(box, m) ==
    [target |-> inboxTarget(m.kind), removed |-> 0, inserted |-> <<m>>,
     start |-> IF m.kind = "next-turn" THEN Len(box.nextTurn) ELSE Len(box.nextStep)]

Insert(box, m) ==
    [target |-> inboxTarget(m.kind), start |-> Len(queue(box, inboxTarget(m.kind))),
     removed |-> 0, inserted |-> <<m>>]

RemoveFrom(target, start, count) ==
    [target |-> target, start |-> start, removed |-> count, inserted |-> << >>]

QuietKinds == {"quiet-injection"}

\* The messages of a line that have one of the kinds, in order.
OfKinds(line, kinds) ==
    LET kept[n \in 0 .. Len(line)] ==
          IF n = 0 THEN << >>
          ELSE IF line[n].kind \in kinds THEN Append(kept[n - 1], line[n]) ELSE kept[n - 1]
    IN  kept[Len(line)]

Pending(box) == box.nextStep \o box.nextTurn \o box.quiet

IdsOf(messages) == {messages[n].id : n \in DOMAIN messages}

Splice(line, e) ==
    SubSeq(line, 1, e.start) \o e.inserted
        \o SubSeq(line, e.start + e.removed + 1, Len(line))

\* The queues after a splice that passed the checks.
Spliced(box, e) ==
    LET all == Splice(queue(box, e.target), e)
    IN [box EXCEPT
          !.nextTurn = IF e.target = "next-turn" THEN all ELSE @,
          !.nextStep = IF e.target = "next-turn" THEN @ ELSE OfKinds(all, Kinds \ QuietKinds),
          !.quiet = IF e.target = "next-turn" THEN @ ELSE OfKinds(all, QuietKinds)]

\* Faulty: counts on from the messages that are still pending.
CountFromPending(box, e) == Max(IdsOf(Pending(Spliced(box, e))) \cup {0})

\* The identifier to count on from.
LastId(box, e) == Max(IdsOf(e.inserted) \cup {box.nextID})

\* Inbox.apply: bounds check, splice, split the shared target by kind, refuse
\* an identifier that is already pending, and raise nextID to the identifiers
\* seen. An error is final: the replay, and with it the restart, fails. (No
\* event both removes and inserts, so only inserted identifiers can be new.)
apply(box, e) ==
    IF \/ ~box.ok
       \/ e.start + e.removed > Len(queue(box, e.target))
       \/ IdsOf(e.inserted) \cap IdsOf(Pending(box)) # {}
    THEN [box EXCEPT !.ok = FALSE]
    ELSE [Spliced(box, e) EXCEPT !.nextID = LastId(box, e)]

HasWork(box) == box.nextStep # << >> \/ box.nextTurn # << >>

-----------------------------------------------------------------------------
(* An operation is a sequence of commits followed by the change of the     *)
(* live queues. done says how many commits succeed: all of them, or a      *)
(* prefix, after which the operation returns the error (a fault) or the    *)
(* process is gone (a crash).                                              *)

\* No operation commits more than two events.
Committed(events, done) ==
    CASE done = 0 -> durable
      [] done = 1 -> apply(durable, events[1])
      [] done = 2 -> apply(apply(durable, events[1]), events[2])

Crash ==
    /\ crashes < MaxCrashes /\ crashes' = crashes + 1
    /\ driver' = "down" /\ inbox' = EmptyInbox /\ inHand' = << >>
    /\ closed' = FALSE /\ wake' = FALSE
    /\ UNCHANGED <<delivered, faults, torn>>

\* The commit after the first done ones fails and the caller gets the error.
\* It leaves nothing durable: a store that commits and reports an error all the
\* same, after which the log and the inbox differ, is not modelled here.
CommitFault(done) ==
    /\ IF done = 0 THEN faults < MaxFaults ELSE torn < MaxTorn
    /\ faults' = IF done = 0 THEN faults + 1 ELSE faults
    /\ torn' = IF done = 0 THEN torn ELSE torn + 1
    /\ UNCHANGED <<crashes, delivered, closed, wake, inHand>>

Up == driver # "down"

-----------------------------------------------------------------------------
(* Callers.                                                                *)

\* Faulty: only a new turn signals.
WakesForTurn(kind) == kind = "next-turn"

\* Send, Steer and Followup signal the driver, Inject does not.
Wakes(kind) == kind # "quiet-injection"

\* putContent. Submitting a key that is still pending returns the pending
\* message and changes nothing. nextID moves before the commit, so a failed
\* commit leaves a hole.
Put(kind, key) ==
    LET m == [id |-> inbox.nextID + 1, kind |-> kind, key |-> key]
        advanced == [inbox EXCEPT !.nextID = m.id]
        appended == CASE kind \in {"next-step", "steering"} ->
                           [advanced EXCEPT !.nextStep = Append(@, m)]
                      [] kind = "next-turn" -> [advanced EXCEPT !.nextTurn = Append(@, m)]
                      [] OTHER -> [advanced EXCEPT !.quiet = Append(@, m)]
    IN /\ Up /\ ~closed /\ inbox.nextID < MaxId
       /\ key # NoKey => \A n \in DOMAIN Pending(inbox) : Pending(inbox)[n].key # key
       /\ \/ /\ durable' = Committed(<<Insert(inbox, m)>>, 1)
             /\ issued' = issued \cup {m.id}
             /\ inbox' = appended
             /\ wake' = (wake \/ Wakes(kind))
             /\ UNCHANGED <<closed, driver, inHand, delivered, budget>>
          \/ /\ CommitFault(0)
             /\ inbox' = advanced
             /\ UNCHANGED <<durable, driver, issued>>

\* The commits of ClearWithError.
ClearEvents ==
    (IF queue(inbox, "next-step") = << >> THEN << >>
     ELSE <<RemoveFrom("next-step", 0, Len(queue(inbox, "next-step")))>>)
    \o
    (IF inbox.nextTurn = << >> THEN << >>
     ELSE <<RemoveFrom("next-turn", 0, Len(inbox.nextTurn))>>)

\* ClearWithError: the live queues change only after both commits.
Clear(done) ==
    /\ Up /\ Pending(inbox) # << >>
    /\ done <= Len(ClearEvents)
    /\ durable' = Committed(ClearEvents, done)
    /\ UNCHANGED issued
    /\ \/ /\ done = Len(ClearEvents)
          /\ inbox' = [EmptyInbox EXCEPT !.nextID = inbox.nextID]
          /\ UNCHANGED <<closed, wake, driver, inHand, delivered, budget>>
       \/ /\ done < Len(ClearEvents)
          /\ \/ Crash
             \/ CommitFault(done) /\ UNCHANGED <<inbox, driver>>

\* RemoveWithError: the n-th message of one of the live queues.
RemoveMessage(field, n) ==
    LET target == IF field = "nextTurn" THEN "next-turn" ELSE "next-step"
        start  == IF field = "quiet" THEN Len(inbox.nextStep) + n - 1 ELSE n - 1
    IN /\ Up /\ n \in DOMAIN inbox[field]
       /\ UNCHANGED issued
       /\ \/ /\ durable' = Committed(<<RemoveFrom(target, start, 1)>>, 1)
             /\ inbox' = [inbox EXCEPT ![field] = RemoveAt(@, n)]
             /\ UNCHANGED <<closed, wake, driver, inHand, delivered, budget>>
          \/ /\ CommitFault(0)
             /\ UNCHANGED <<inbox, durable, driver>>

\* Inbox.Close: no more submissions; a blocked driver is woken.
Close ==
    /\ Up /\ ~closed
    /\ closed' = TRUE /\ wake' = TRUE
    /\ UNCHANGED <<inbox, durable, driver, inHand, delivered, issued, budget>>

-----------------------------------------------------------------------------
(* The driver loop.                                                        *)

ClaimEvents ==
    (IF queue(inbox, "next-step") = << >> THEN << >>
     ELSE <<RemoveFrom("next-step", 0, Len(queue(inbox, "next-step")))>>)
    \o
    (IF inbox.nextTurn = << >> THEN << >> ELSE <<RemoveFrom("next-turn", 0, 1)>>)

NextFollowup == IF inbox.nextTurn = << >> THEN << >> ELSE <<Head(inbox.nextTurn)>>

\* ClaimWithError: all next-step messages, one next-turn message, then the
\* quiet ones. The driver exits when a commit fails.
Claim(done) ==
    /\ driver = "claiming" /\ HasWork(inbox)
    /\ done <= Len(ClaimEvents)
    /\ durable' = Committed(ClaimEvents, done)
    /\ UNCHANGED issued
    /\ \/ /\ done = Len(ClaimEvents)
          /\ driver' = "claimed"
          /\ inHand' = inbox.nextStep \o NextFollowup \o inbox.quiet
          /\ inbox' = [inbox EXCEPT !.nextStep = << >>, !.quiet = << >>,
                                    !.nextTurn = SubSeq(@, 2, Len(@))]
          /\ UNCHANGED <<closed, wake, delivered, budget>>
       \/ /\ done < Len(ClaimEvents)
          /\ \/ Crash
             \/ CommitFault(done) /\ driver' = "exited" /\ UNCHANGED inbox

\* Nothing to claim: block in Wait.
ClaimNothing ==
    /\ driver = "claiming" /\ ~HasWork(inbox)
    /\ driver' = "waiting"
    /\ UNCHANGED <<inbox, durable, closed, wake, inHand, delivered, issued, budget>>

\* Wait returns with the token, or because Close cancelled the driver.
Wait ==
    /\ driver = "waiting"
    /\ \/ wake /\ wake' = FALSE /\ driver' = "claiming"
       \/ closed /\ driver' = "exited" /\ UNCHANGED wake
    /\ UNCHANGED <<inbox, durable, closed, inHand, delivered, issued, budget>>

\* The runner starts with the claimed input unless the Agent closed since.
StartTurn ==
    /\ driver = "claimed"
    /\ inHand' = << >>
    /\ IF closed
       THEN driver' = "exited" /\ UNCHANGED delivered
       ELSE driver' = "running" /\ delivered' = delivered \cup IdsOf(inHand)
    /\ UNCHANGED <<inbox, durable, closed, wake, issued, budget>>

\* ClaimStepWithError, called by the runner between the steps of a turn.
ClaimStep ==
    LET line == queue(inbox, "next-step")
    IN /\ driver = "running" /\ line # << >>
       /\ UNCHANGED issued
       /\ \/ /\ durable' = Committed(<<RemoveFrom("next-step", 0, Len(line))>>, 1)
             /\ inbox' = [inbox EXCEPT !.nextStep = << >>, !.quiet = << >>]
             /\ delivered' = delivered \cup IdsOf(line)
             /\ UNCHANGED <<closed, wake, driver, inHand, budget>>
          \/ /\ CommitFault(0)
             /\ UNCHANGED <<inbox, durable, driver>>

EndTurn ==
    /\ driver = "running"
    /\ driver' = IF closed THEN "exited" ELSE "claiming"
    /\ UNCHANGED <<inbox, durable, closed, wake, inHand, delivered, issued, budget>>

-----------------------------------------------------------------------------
(* Process failure and recovery.                                           *)

CrashIdle ==
    /\ Up
    /\ Crash
    /\ UNCHANGED <<durable, issued>>

\* NewDurableInbox succeeds only if every committed event applies.
Restart ==
    /\ driver = "down" /\ durable.ok
    /\ inbox' = durable
    /\ driver' = "claiming"
    /\ UNCHANGED <<durable, closed, wake, inHand, delivered, issued, budget>>

\* A closed Agent whose driver has exited is discarded, and the next request
\* for the session builds a new one from the committed events (sessionAgent).
Reopen ==
    /\ driver = "exited" /\ closed /\ durable.ok
    /\ inbox' = durable
    /\ closed' = FALSE /\ wake' = FALSE /\ driver' = "claiming"
    /\ UNCHANGED <<durable, inHand, delivered, issued, budget>>

Init ==
    /\ inbox = EmptyInbox /\ durable = EmptyInbox
    /\ closed = FALSE /\ wake = FALSE
    /\ driver = "claiming" /\ inHand = << >>
    /\ delivered = {} /\ issued = {}
    /\ crashes = 0 /\ faults = 0 /\ torn = 0

ClaimTurn == \E done \in 0 .. 2 : Claim(done)

DriverStep == ClaimNothing \/ Wait \/ StartTurn \/ EndTurn

Next ==
    \/ \E s \in Submissions : Put(s[1], s[2])
    \/ \E done \in 0 .. 2 : Clear(done)
    \/ \E field \in {"nextStep", "nextTurn", "quiet"}, n \in 1 .. MaxId : RemoveMessage(field, n)
    \/ Close
    \/ ClaimTurn
    \/ ClaimStep
    \/ DriverStep
    \/ CrashIdle
    \/ Restart
    \/ Reopen

Spec == Init /\ [][Next]_vars

\* The Go scheduler runs the driver goroutine whenever it can run, runners
\* return, and a supervisor restarts a crashed process. Callers owe nothing.
FairSpec == Spec /\ WF_vars(ClaimTurn) /\ WF_vars(DriverStep) /\ WF_vars(Restart)

-----------------------------------------------------------------------------
(* Properties.                                                             *)

Box == [nextStep : Seq(Message), nextTurn : Seq(Message), quiet : Seq(Message),
        nextID : 0 .. MaxId, ok : BOOLEAN]

\* Every variable keeps its type; the bounds are respected.
TypeOK ==
    /\ inbox \in Box /\ durable \in Box
    /\ closed \in BOOLEAN /\ wake \in BOOLEAN
    /\ driver \in DriverStates /\ inHand \in Seq(Message)
    /\ delivered \subseteq 1 .. MaxId /\ issued \subseteq 1 .. MaxId
    /\ crashes \in 0 .. MaxCrashes /\ faults \in 0 .. MaxFaults /\ torn \in 0 .. MaxTorn

\* A crash never leaves a journal that the next process cannot replay. TLC
\* refutes it when MaxTorn is not 0.
RestartPossible == durable.ok

\* InboxEvent's contract: the committed events can be replayed, and that
\* reconstructs exactly the pending work of the live inbox, in every state of a
\* running process.
ReplayReconstructs ==
    /\ RestartPossible
    /\ Up => \A field \in {"nextStep", "nextTurn", "quiet"} : inbox[field] = durable[field]

\* Waking work that is pending is eventually taken by a turn or discarded,
\* unless the inbox is closed or the driver has given up.
PendingIsTaken ==
    \A n \in 1 .. MaxId :
        n \in IdsOf(inbox.nextStep \o inbox.nextTurn)
            ~> \/ n \notin IdsOf(Pending(durable))
               \/ closed \/ driver = "exited"

\* Each message is submitted once and then delivered to at most one turn or
\* dropped, never both: Inbox implements PendingWork.
fate == [n \in 1 .. MaxId |->
            IF n \in IdsOf(Pending(durable)) \cup IdsOf(inHand)
            THEN IF n \in delivered THEN "twice" ELSE "pending"
            ELSE IF n \in delivered THEN "delivered"
            ELSE IF n \in issued THEN "dropped" ELSE "unsent"]

Promise == INSTANCE PendingWork WITH fate <- fate, MaxId <- MaxId

ImplementsPendingWork == Promise!Spec
=============================================================================
