------------------------------ MODULE TeamBoard ------------------------------
(***************************************************************************)
(* The team board of one lead session: tasks, mail and roster              *)
(* (internal/team) and its composition with the session logs               *)
(* (cmd/sta/team.go). The board lives in memory; each change is one event  *)
(* of the lead's log, and a board that is absent is rebuilt by replay.     *)
(* The tools that change tasks or send mail run one at a time (mutationMu) *)
(* and roll back to a snapshot when their append fails. Redelivery of      *)
(* mail, the provisioning of a teammate and the end of the process         *)
(* interleave with them.                                                   *)
(*                                                                         *)
(* The log is kept as the latest facts it holds, and a flag that falls     *)
(* with the first event that replay refuses.                               *)
(***************************************************************************)
EXTENDS Integers, FiniteSets

CONSTANTS
    Lead, Mates, Nobody,
    Visitors,      \* calls that only read, each of which redelivers mail first
    MaxTasks,      \* maxTasks: tasks that are not deleted
    MaxPending,    \* maxPendingMessages: undelivered messages of one target
    TaskIds,       \* bound: the task ids 1..n that are ever reserved
    MsgIds,        \* bound: the message ids 1..n that are ever reserved
    MaxCalls,      \* bound: tool calls that change the board
    MaxFaults,     \* bound: appends, starts and calls that fail
    MaxCrashes     \* bound: ends of the process

ASSUME TeamAssumption ==
    /\ {Lead, Nobody} \cap Mates = {} /\ Lead # Nobody
    /\ TaskIds \subseteq Nat \ {0} /\ MsgIds \subseteq Nat \ {0}
    /\ IsFiniteSet(TaskIds) /\ IsFiniteSet(MsgIds)
    /\ "tool" \notin Visitors
    /\ {MaxTasks, MaxPending, MaxCalls, MaxFaults, MaxCrashes} \subseteq Nat

Team == Mates \cup {Lead}
Callers == Visitors \cup {"tool"}

VARIABLES
    live,       \* Board: [tasks, stamped, msgs, rows]; stamped are the tasks with DeletedAt
    handles,    \* Roster.handles
    agents,     \* the Agent Registry: teammates with an Agent
    board,      \* teamBoards: "absent", "binding" under teamMu, "open"
    unbound,    \* teammates that rebindTeamMembers has yet to see
    log,        \* the lead's log: [tasks, msgs, rows, ok], ok while replay accepts it
    sessions,   \* teammates with a child session
    reserved,   \* ReserveID: the highest task and message ids ever claimed
    target,     \* the target of each message, as the callers' copies have it
    receipts,   \* how often a message was put in the target's inbox
    call,       \* the tool that holds mutationMu
    proc,       \* the dispatches that a caller waits for
    flight,     \* teamDispatchInFlight
    tail,       \* teamDispatchTails
    spawn,      \* provisionTeammate
    calls, faults, crashes,
    damaged     \* history: the board or its log lost a committed fact

memory == <<live, handles, agents, board, unbound>>
disk == <<log, sessions, reserved, receipts, target>>
mail == <<proc, flight, tail>>
bounds == <<calls, faults, crashes>>
vars == <<memory, disk, call, mail, spawn, bounds, damaged>>

NoTask == [status |-> "absent", owner |-> Nobody, blockers |-> {}, revision |-> 0]
NoMail == [to |-> Nobody, state |-> "absent"]
NoCall == [at |-> "idle"]
NoFlight == [at |-> "none", after |-> 0]
NoProc == [at |-> "idle", msg |-> 0, list |-> {}]
NoTasks == [t \in TaskIds |-> NoTask]
NoMsgs == [m \in MsgIds |-> NoMail]
NoRows == [a \in Mates |-> "none"]
NoFlights == [m \in MsgIds |-> NoFlight]
Idle == [p \in Callers |-> NoProc]
NewBoard == [tasks |-> NoTasks, stamped |-> {}, msgs |-> NoMsgs, rows |-> NoRows]

Init ==
    /\ live = NewBoard /\ handles = {} /\ agents = {} /\ board = "absent" /\ unbound = {}
    /\ log = [tasks |-> NoTasks, msgs |-> NoMsgs, rows |-> NoRows, ok |-> TRUE]
    /\ sessions = {} /\ reserved = [task |-> 0, msg |-> 0]
    /\ receipts = [m \in MsgIds |-> 0] /\ target = [m \in MsgIds |-> Nobody]
    /\ call = NoCall /\ proc = Idle /\ flight = NoFlights /\ tail = [a \in Team |-> 0]
    /\ spawn = NoCall /\ calls = 0 /\ faults = 0 /\ crashes = 0 /\ damaged = FALSE

Fault == faults < MaxFaults /\ faults' = faults + 1 /\ UNCHANGED <<calls, crashes>>
Called == calls < MaxCalls /\ calls' = calls + 1 /\ UNCHANGED <<faults, crashes>>

----------------------------------------------------------------------------
(* Rules that the live board, Restore and replay share.                    *)

Present(tasks) == {t \in TaskIds : tasks[t].status # "absent"}
\* Tasks that are not deleted.
Standing(tasks) == {t \in TaskIds : tasks[t].status \notin {"absent", "deleted"}}

\* reachesLocked, the seen set as the tasks that n steps of BlockedBy reach
Reach(tasks, from) ==
    LET step[n \in 0..Cardinality(TaskIds)] ==
          IF n = 0 THEN {from} ELSE step[n - 1] \cup UNION {tasks[t].blockers : t \in step[n - 1]}
    IN step[Cardinality(TaskIds)]

\* validateEdgesLocked; a blocker named twice is refused as well, a set has none
Edges(tasks, t, blockers) ==
    blockers \subseteq Standing(tasks) /\ \A b \in blockers : t \notin Reach(tasks, b)

PendingTo(msgs, a) == {m \in MsgIds : msgs[m].to = a /\ msgs[m].state = "pending"}

\* ApplyEvent, one operator per event type: what the log says after the event,
\* and whether replay still accepts it.
ApplyTask(l, t, task) ==
    [l EXCEPT !.tasks[t] = task,
              !.ok = @ /\ task.revision = l.tasks[t].revision + 1 /\ Edges(l.tasks, t, task.blockers)]
ApplyQueued(l, m, a) ==
    [l EXCEPT !.msgs[m] = [to |-> a, state |-> IF @.state = "absent" THEN "pending" ELSE @.state],
              !.ok = @ /\ l.msgs[m].state = "absent" /\ Cardinality(PendingTo(l.msgs, a)) < MaxPending]
ApplyDelivered(l, m) ==
    [l EXCEPT !.msgs[m].state = "delivered", !.ok = @ /\ l.msgs[m].state = "pending"]
ApplyMember(l, a, phase) ==
    [l EXCEPT !.rows[a] = phase,
              !.ok = @ /\ \/ l.rows[a] = "none" /\ phase = "provisioning"
                          \/ l.rows[a] = "provisioning" /\ phase # "provisioning"]

\* Board.Restore accepts the snapshot. It wants the deletion time, which no
\* event carries, and standing blockers of deleted tasks too.
Restorable(s) ==
    /\ \A t \in Present(s.tasks) : s.tasks[t].status = "deleted" => t \in s.stamped
    /\ \A t \in Present(s.tasks) : Edges(s.tasks, t, s.tasks[t].blockers)

\* "_ = b.Restore(before)" puts rows, tasks and mail back and drops all handles
Rollback(s) ==
    IF Restorable(s) THEN live' = s /\ handles' = {} ELSE UNCHANGED <<live, handles>>

\* Roster.Authorize
Authorized(a) == IF a = Lead THEN TRUE ELSE a \in Mates /\ live.rows[a] = "active"

----------------------------------------------------------------------------
(* The task tools, between the lock of mutationMu and its release.         *)

Start(t, task) ==
    /\ live' = [live EXCEPT !.tasks[t] = task,
                            !.stamped = IF task.status = "deleted" THEN @ \cup {t} ELSE @]
    /\ call' = [at |-> "task", id |-> t, task |-> task, before |-> live]

NewTask(a, blockers) ==
    [status |-> "pending", owner |-> Nobody, blockers |-> blockers, revision |-> 1]

TaskCreate(a, blockers) ==
    LET t == reserved.task + 1 IN
    /\ board = "open" /\ call = NoCall /\ Called /\ Authorized(a)
    /\ Cardinality(Standing(live.tasks)) < MaxTasks /\ Edges(live.tasks, t, blockers)
    /\ t \in TaskIds /\ reserved' = [reserved EXCEPT !.task = t]
    /\ Start(t, NewTask(a, blockers))
    /\ UNCHANGED <<handles, agents, board, unbound, log, sessions, receipts, target, mail, spawn, damaged>>

\* viewLocked
Ready(t) ==
    /\ live.tasks[t].status = "pending"
    /\ \A b \in live.tasks[t].blockers : live.tasks[b].status = "completed"

\* Faulty: a task that others wait for may go.
DeletableAlways(t) == TRUE
Deletable(t) == \A u \in Standing(live.tasks) \ {t} : t \notin live.tasks[u].blockers

\* The actions of UpdateTask by a: what the task may become. "edit" and
\* "set_dependencies" leave status and owner alone.
Outcomes(a, t) ==
    LET task == live.tasks[t]
        Is(status, owner) == [task EXCEPT !.status = status, !.owner = owner]
        When(test, result) == IF test THEN result ELSE {}
    IN  {task}
        \cup When(Ready(t) /\ task.owner = Nobody, {Is("in_progress", a)})           \* claim
        \cup When(task.status = "in_progress",
                  {Is("completed", task.owner), Is("pending", Nobody)})   \* complete, release
        \cup When(task.status = "completed", {Is("pending", Nobody)})                \* reopen
        \cup When(a = Lead /\ task.status \in {"pending", "in_progress"},            \* reassign
                  {Is("pending", Nobody)}
                  \cup When(Ready(t), {Is("in_progress", o) : o \in {b \in Team : Authorized(b)}}))
        \cup When(Deletable(t), {Is("deleted", task.owner)})                         \* delete

\* blocked_by, when the call has it, replaces the blockers whatever the action.
TaskUpdate(a, t, blockers) ==
    LET task == live.tasks[t] IN
    /\ board = "open" /\ call = NoCall /\ Called /\ Authorized(a)
    /\ t \in Standing(live.tasks)
    /\ a = Lead \/ task.owner \in {Nobody, a}
    /\ blockers = task.blockers \/ Edges(live.tasks, t, blockers)
    /\ \E to \in Outcomes(a, t) :
         Start(t, [to EXCEPT !.blockers = blockers, !.revision = @ + 1])
    /\ UNCHANGED <<handles, agents, board, unbound, disk, mail, spawn, damaged>>

\* saveEvent and the end of the call
SaveTask ==
    /\ call.at = "task" /\ log' = ApplyTask(log, call.id, call.task)
    /\ call' = NoCall
    /\ UNCHANGED <<memory, sessions, reserved, receipts, target, mail, spawn, bounds, damaged>>

\* Faulty: the error is returned and the change stays on the board.
SaveTaskKeeps ==
    /\ call.at = "task" /\ Fault /\ call' = NoCall
    /\ UNCHANGED <<memory, disk, mail, spawn, damaged>>

\* What the rollback undoes besides the call itself: a row that changed.
Erased(s) == ~Restorable(s) \/ s.rows # live.rows

SaveTaskFails ==
    /\ call.at = "task" /\ Fault /\ Rollback(call.before) /\ call' = NoCall
    /\ damaged' = (damaged \/ Erased(call.before))
    /\ UNCHANGED <<agents, board, unbound, disk, mail, spawn>>

----------------------------------------------------------------------------
(* team_message: queue, save, dispatch.                                    *)

Message(a, b) ==
    LET m == reserved.msg + 1 IN
    /\ board = "open" /\ call = NoCall /\ Called /\ a # b /\ Authorized(a) /\ Authorized(b)
    /\ Cardinality(PendingTo(live.msgs, b)) < MaxPending
    /\ m \in MsgIds /\ reserved' = [reserved EXCEPT !.msg = m]
    /\ target' = [target EXCEPT ![m] = b]
    /\ live' = [live EXCEPT !.msgs[m] = [to |-> b, state |-> "pending"]]
    /\ call' = [at |-> "mail", id |-> m, to |-> b, before |-> live]
    /\ UNCHANGED <<handles, agents, board, unbound, log, sessions, receipts, mail, spawn, damaged>>

SaveMail ==
    /\ call.at = "mail" /\ log' = ApplyQueued(log, call.id, call.to)
    /\ call' = [at |-> "dispatch"]
    /\ proc' = [proc EXCEPT !["tool"] = [at |-> "list", msg |-> 0, list |-> {call.id}]]
    /\ UNCHANGED <<memory, sessions, reserved, receipts, target, flight, tail, spawn, bounds, damaged>>

SaveMailFails ==
    /\ call.at = "mail" /\ Fault /\ Rollback(call.before) /\ call' = NoCall
    /\ damaged' = (damaged \/ Erased(call.before))
    /\ UNCHANGED <<agents, board, unbound, disk, mail, spawn>>

\* redeliverPendingTeamMessages, for one member: the list is read once
Visit(v, a) ==
    /\ board = "open" /\ proc[v] = NoProc /\ PendingTo(live.msgs, a) # {}
    /\ proc' = [proc EXCEPT ![v] = [at |-> "list", msg |-> 0, list |-> PendingTo(live.msgs, a)]]
    /\ UNCHANGED <<memory, disk, call, flight, tail, spawn, bounds, damaged>>

\* A caller is done with one message and goes on with its list.
Proceed(q) == IF q.list = {} THEN NoProc ELSE [q EXCEPT !.at = "list", !.msg = 0]
ToolEnds == call' = IF call.at = "dispatch" /\ proc'["tool"] = NoProc THEN NoCall ELSE call

\* runOrderedTeamDispatch: join the dispatch of the same message, or queue
\* behind the last one for the same target.
Dispatch(p, m) ==
    /\ proc[p].at = "list" /\ m \in proc[p].list
    /\ proc' = [proc EXCEPT ![p] = [at |-> "wait", msg |-> m, list |-> @.list \ {m}]]
    /\ IF flight[m] # NoFlight
       THEN UNCHANGED <<flight, tail>>
       ELSE /\ flight' = [flight EXCEPT ![m] = [at |-> "fence", after |-> tail[target[m]]]]
            /\ tail' = [tail EXCEPT ![target[m]] = m]
    /\ UNCHANGED <<memory, disk, call, spawn, bounds, damaged>>

\* Faulty: the tail of a finished dispatch stays.
ReleasedNever(m) == tail
Released(m) == [tail EXCEPT ![target[m]] = IF @ = m THEN 0 ELSE @]

\* finishTeamDispatch, and what its callers do with the answer
Finish(m, delivered) ==
    /\ flight' = [n \in MsgIds |->
         CASE n = m -> NoFlight
           [] n # m /\ flight[n].after = m -> [flight[n] EXCEPT !.after = 0]
           [] OTHER -> flight[n]]
    /\ tail' = Released(m)
    /\ proc' = [p \in Callers |->
         IF proc[p].at = "wait" /\ proc[p].msg = m
         THEN IF delivered THEN [proc[p] EXCEPT !.at = "ack"] ELSE Proceed(proc[p])
         ELSE proc[p]]
    /\ ToolEnds

\* The caller's context ends while its dispatch waits behind another.
Cancelled(m) ==
    /\ flight[m].at = "fence" /\ flight[m].after # 0 /\ Fault /\ Finish(m, FALSE)
    /\ UNCHANGED <<memory, disk, spawn, damaged>>

\* dispatchTeamMessageNow: the target's handle
Lookup(m) ==
    /\ flight[m].at = "fence" /\ flight[m].after = 0
    /\ IF target[m] \in handles \cup {Lead}
       THEN flight' = [flight EXCEPT ![m].at = "receipt"] /\ UNCHANGED <<call, proc, tail>>
       ELSE Finish(m, FALSE)
    /\ UNCHANGED <<memory, disk, spawn, bounds, damaged>>

\* Faulty: looks for the message among the lead's delivery facts.
ReceiptByDelivery(m) ==
    /\ flight[m].at = "receipt"
    /\ flight' = [flight EXCEPT ![m].at = IF log.msgs[m].state = "delivered" THEN "record" ELSE "enqueue"]
    /\ UNCHANGED <<memory, disk, call, proc, tail, spawn, bounds, damaged>>

\* teamMessageReceiptRecorded: the target's log, claimed insertions included
Receipt(m) ==
    /\ flight[m].at = "receipt"
    /\ flight' = [flight EXCEPT ![m].at = IF receipts[m] > 0 THEN "record" ELSE "enqueue"]
    /\ UNCHANGED <<memory, disk, call, proc, tail, spawn, bounds, damaged>>

Enqueue(m) ==
    /\ flight[m].at = "enqueue"
    /\ \/ /\ target[m] \in agents \cup {Lead} /\ receipts' = [receipts EXCEPT ![m] = @ + 1]
          /\ flight' = [flight EXCEPT ![m].at = "record"] /\ UNCHANGED <<call, proc, tail, bounds>>
       \/ target[m] \notin agents \cup {Lead} /\ Finish(m, FALSE) /\ UNCHANGED <<receipts, bounds>>
       \/ Fault /\ Finish(m, FALSE) /\ UNCHANGED receipts
    /\ UNCHANGED <<memory, log, sessions, reserved, target, spawn, damaged>>

Recorded(m) == log.msgs[m].state = "delivered"

\* recordTeamDelivery. A visit may have taken the message from the board before
\* its queue event was saved; replay refuses a delivery of an unknown message.
Record(m) ==
    /\ flight[m].at = "record"
    /\ \/ /\ log' = IF Recorded(m) THEN log ELSE ApplyDelivered(log, m)
          /\ damaged' = (damaged \/ log.msgs[m].state = "absent")
          /\ Finish(m, TRUE) /\ UNCHANGED bounds
       \/ ~Recorded(m) /\ Fault /\ Finish(m, FALSE) /\ UNCHANGED <<log, damaged>>
    /\ UNCHANGED <<memory, sessions, reserved, receipts, target, spawn>>

\* Each caller that was told "delivered": the event once more unless it is
\* there, then AckMessage, which a message no longer on the board fails.
Ack(p) ==
    LET m == proc[p].msg IN
    /\ proc[p].at = "ack"
    /\ log' = IF Recorded(m) THEN log ELSE ApplyDelivered(log, m)
    /\ live' = IF live.msgs[m].state = "absent" THEN live
               ELSE [live EXCEPT !.msgs[m].state = "delivered"]
    /\ proc' = [proc EXCEPT ![p] = IF live.msgs[m].state = "absent" THEN NoProc ELSE Proceed(@)]
    /\ ToolEnds
    /\ UNCHANGED <<handles, agents, board, unbound, sessions, reserved, receipts, target, flight, tail,
                   spawn, bounds, damaged>>

----------------------------------------------------------------------------
(* provisionTeammate. It does not take mutationMu.                         *)

\* The transaction creates the session with the provisioning event, or
\* neither. An identity with a durable row is never given out again.
Provision(a) ==
    /\ board = "open" /\ spawn = NoCall
    /\ live.rows[a] = "none" /\ log.rows[a] = "none"
    /\ log' = ApplyMember(log, a, "provisioning") /\ sessions' = sessions \cup {a}
    /\ spawn' = [at |-> "spawn", who |-> a, before |-> live]
    /\ UNCHANGED <<memory, reserved, receipts, target, call, mail, bounds, damaged>>

\* Roster.Spawn publishes the row, then creates and starts the Agent.
Publish ==
    /\ spawn.at = "spawn" /\ live' = [live EXCEPT !.rows[spawn.who] = "provisioning"]
    /\ spawn' = [spawn EXCEPT !.at = "start"]
    /\ UNCHANGED <<handles, agents, board, unbound, disk, call, mail, bounds, damaged>>

Started ==
    /\ spawn.at = "start" /\ spawn.who \notin agents
    /\ live' = [live EXCEPT !.rows[spawn.who] = "active"]
    /\ handles' = handles \cup {spawn.who} /\ agents' = agents \cup {spawn.who}
    /\ spawn' = [spawn EXCEPT !.at = "active"]
    /\ UNCHANGED <<board, unbound, disk, call, mail, bounds, damaged>>

StartFails ==
    /\ spawn.at = "start" /\ Fault
    /\ live' = [live EXCEPT !.rows[spawn.who] = "failed"]
    /\ spawn' = [spawn EXCEPT !.at = "failed"]
    /\ UNCHANGED <<handles, agents, board, unbound, disk, call, mail, damaged>>

\* TransitionTeamMember: the child session is there and the phase may change.
\* Where its append fails, it has not reached the log.
Transition(a, phase) ==
    /\ a \in sessions /\ log.rows[a] \in {"provisioning", "active"}
    /\ phase = "active" => log.rows[a] = "provisioning"
    /\ log' = ApplyMember(log, a, phase)

SaveActive ==
    /\ spawn.at = "active" /\ Transition(spawn.who, "active") /\ spawn' = NoCall
    /\ UNCHANGED <<memory, sessions, reserved, receipts, target, call, mail, bounds, damaged>>

\* Rolls the whole board back to the start of the provisioning, closes the
\* Agent and deletes the session; the provisioning event stays.
SaveActiveFails ==
    /\ spawn.at = "active" /\ Fault /\ Rollback(spawn.before)
    /\ agents' = agents \ {spawn.who} /\ sessions' = sessions \ {spawn.who}
    /\ spawn' = NoCall /\ damaged' = TRUE
    /\ UNCHANGED <<board, unbound, log, reserved, receipts, target, call, mail>>

SaveFailed ==
    /\ spawn.at = "failed" /\ sessions' = sessions \ {spawn.who} /\ spawn' = NoCall
    /\ \/ Transition(spawn.who, "failed") /\ UNCHANGED <<bounds, damaged>>
       \/ Fault /\ damaged' = TRUE /\ UNCHANGED log
    /\ UNCHANGED <<memory, reserved, receipts, target, call, mail>>

----------------------------------------------------------------------------
(* teamBoard and rebindTeamMembers, under teamMu.                          *)

\* Failed rows stay as they are.
ToBind == {a \in Mates : log.rows[a] \in {"provisioning", "active"}}

\* A log that replay refuses leaves the board absent for good.
Open ==
    /\ board = "absent" /\ log.ok /\ board' = "binding"
    /\ live' = [tasks |-> log.tasks, stamped |-> {}, msgs |-> log.msgs, rows |-> log.rows]
    /\ handles' = {} /\ unbound' = ToBind
    /\ UNCHANGED <<agents, disk, call, mail, spawn, bounds, damaged>>

Row(a, phase) == live' = [live EXCEPT !.rows[a] = phase]

\* The teammate has a session and gets an Agent; a provisioning row becomes
\* active in the log.
Bind(a) ==
    /\ board = "binding" /\ a \in unbound /\ a \in sessions /\ a \notin agents
    /\ IF live.rows[a] = "provisioning" THEN Transition(a, "active") ELSE UNCHANGED log
    /\ Row(a, "active") /\ handles' = handles \cup {a} /\ agents' = agents \cup {a}
    /\ unbound' = unbound \ {a}
    /\ UNCHANGED <<board, sessions, reserved, receipts, target, call, mail, spawn, bounds, damaged>>

\* Create or Start fails: the row becomes failed, and its event is appended.
\* From "active" that is an event which the next replay refuses.
BindFails(a) ==
    /\ board = "binding" /\ a \in unbound /\ a \in sessions
    /\ \/ a \in agents /\ UNCHANGED bounds
       \/ Fault
    /\ Transition(a, "failed") /\ Row(a, "failed") /\ unbound' = unbound \ {a}
    /\ damaged' = (damaged \/ live.rows[a] = "active")
    /\ UNCHANGED <<handles, agents, board, sessions, reserved, receipts, target, call, mail, spawn>>

\* The member event cannot be appended: no session, or a failing append. The
\* board is not published; an Agent that was created stays in the Registry.
Unbindable(a) ==
    /\ board = "binding" /\ a \in unbound
    /\ \/ a \notin sessions /\ UNCHANGED <<agents, bounds>>
       \/ a \in sessions /\ live.rows[a] = "provisioning" /\ Fault /\ agents' = agents \cup {a}
       \/ a \in sessions \cap agents /\ Fault /\ UNCHANGED agents
    /\ board' = "absent" /\ live' = NewBoard /\ handles' = {} /\ unbound' = {}
    /\ UNCHANGED <<disk, call, mail, spawn, damaged>>

Opened ==
    /\ board = "binding" /\ unbound = {} /\ board' = "open"
    /\ UNCHANGED <<live, handles, agents, unbound, disk, call, mail, spawn, bounds, damaged>>

Crash ==
    /\ crashes < MaxCrashes /\ crashes' = crashes + 1
    /\ live' = NewBoard /\ handles' = {} /\ agents' = {} /\ board' = "absent" /\ unbound' = {}
    /\ call' = NoCall /\ proc' = Idle /\ flight' = NoFlights /\ tail' = [a \in Team |-> 0]
    /\ spawn' = NoCall
    /\ UNCHANGED <<disk, calls, faults, damaged>>

----------------------------------------------------------------------------
ToolStep == SaveTask \/ SaveMail
SpawnStep == Publish \/ Started \/ SaveActive \/ SaveFailed
OpenStep == Open \/ Opened \/ \E a \in Mates : Bind(a)
MailStep == \/ \E p \in Callers : Ack(p) \/ \E m \in MsgIds : Dispatch(p, m)
            \/ \E m \in MsgIds : Lookup(m) \/ Receipt(m) \/ Enqueue(m) \/ Record(m)

Next ==
    \/ \E a \in Team, blockers \in SUBSET TaskIds :
         TaskCreate(a, blockers) \/ \E t \in TaskIds : TaskUpdate(a, t, blockers)
    \/ \E a, b \in Team : Message(a, b)
    \/ ToolStep \/ SaveTaskFails \/ SaveMailFails
    \/ \E v \in Visitors, a \in Team : Visit(v, a)
    \/ MailStep
    \/ \E m \in MsgIds : Cancelled(m)
    \/ \E a \in Mates : Provision(a)
    \/ SpawnStep \/ StartFails \/ SaveActiveFails
    \/ OpenStep
    \/ \E a \in Mates : BindFails(a) \/ Unbindable(a)
    \/ Crash

Spec == Init /\ [][Next]_vars

\* Running calls go on, a session with a team is opened again, and its team is
\* visited again: each visit goes over every member.
Fairness ==
    /\ WF_vars(ToolStep) /\ WF_vars(SpawnStep) /\ WF_vars(OpenStep) /\ WF_vars(MailStep)
    /\ WF_vars(\E a \in Mates : BindFails(a))
    /\ \A a \in Team : SF_vars(\E v \in Visitors : Visit(v, a))

FairSpec == Spec /\ Fairness

----------------------------------------------------------------------------
\* An owner is set exactly while a task is worked on or done (UpdateTask).
Tasks == {task \in [status : {"absent", "pending", "in_progress", "completed", "deleted"},
                    owner : Team \cup {Nobody}, blockers : SUBSET TaskIds, revision : Nat] :
            /\ task.status = "pending" => task.owner = Nobody
            /\ task.status \in {"in_progress", "completed"} => task.owner # Nobody}
Mail == [to : Team \cup {Nobody}, state : {"absent", "pending", "delivered"}]
Phases == {"none", "provisioning", "active", "failed"}
Boards == [tasks : [TaskIds -> Tasks], stamped : SUBSET TaskIds,
           msgs : [MsgIds -> Mail], rows : [Mates -> Phases]]
Logs == [tasks : [TaskIds -> Tasks], msgs : [MsgIds -> Mail], rows : [Mates -> Phases], ok : BOOLEAN]
Calls == {NoCall} \cup [at : {"task"}, id : TaskIds, task : Tasks, before : Boards]
         \cup [at : {"mail"}, id : MsgIds, to : Team, before : Boards] \cup [at : {"dispatch"}]
Spawns == {NoCall} \cup [at : {"spawn", "start", "active", "failed"}, who : Mates, before : Boards]
Flights == [at : {"none", "fence", "receipt", "enqueue", "record"}, after : MsgIds \cup {0}]
Procs == [at : {"idle", "list", "wait", "ack"}, msg : MsgIds \cup {0}, list : SUBSET MsgIds]

\* The state has its type, and a board that is not published has no calls.
TypeOK ==
    /\ live \in Boards /\ log \in Logs
    /\ handles \subseteq Mates /\ agents \subseteq Mates /\ unbound \subseteq Mates /\ sessions \subseteq Mates
    /\ board \in {"absent", "binding", "open"} /\ receipts \in [MsgIds -> Nat]
    /\ reserved \in [task : Nat, msg : Nat] /\ target \in [MsgIds -> Team \cup {Nobody}]
    /\ call \in Calls /\ spawn \in Spawns
    /\ proc \in [Callers -> Procs] /\ flight \in [MsgIds -> Flights] /\ tail \in [Team -> MsgIds \cup {0}]
    /\ calls \in 0..MaxCalls /\ faults \in 0..MaxFaults /\ crashes \in 0..MaxCrashes /\ damaged \in BOOLEAN
    /\ \A p \in Callers : proc[p].at \in {"wait", "ack"} => proc[p].msg \in MsgIds
    /\ board # "open" => call = NoCall /\ spawn = NoCall /\ proc = Idle /\ flight = NoFlights

\* validateEdgesLocked: no chain of updates, rollbacks and replays makes tasks
\* wait for each other in a circle, and no standing task waits for one that is gone.
NoDeadBlockers ==
    ~damaged => \A t \in Standing(live.tasks) : Edges(live.tasks, t, live.tasks[t].blockers)

\* dispatchTeamMessageNow: however often a message is sent again, after a failed
\* append, a crash or by two callers at once, its target receives it once, and
\* it counts as delivered on the board only when the log says so, and there only
\* when it was received.
ReceivedOnce ==
    \A m \in MsgIds :
        /\ receipts[m] <= 1
        /\ live.msgs[m].state = "delivered" => log.msgs[m].state = "delivered"
        /\ log.msgs[m].state = "delivered" => receipts[m] = 1

\* The board is what replay of its log would give, but for the call that runs
\* and acknowledgements that are still to come, and replay accepts the log.
\* Rollbacks that lose more than their own call (hazards of Restore and of
\* provisionTeammate) are left out by damaged.
BoardFollowsLog ==
    LET busy(c, kind, id) == c.at = kind /\ c.id = id
        known(msgs) == {m \in MsgIds : msgs[m].state # "absent"}
    IN ~damaged =>
        /\ log.ok
        /\ board = "open" =>
             /\ \A t \in TaskIds : busy(call, "task", t) \/ live.tasks[t] = log.tasks[t]
             /\ known(live.msgs) \ (IF call.at = "mail" THEN {call.id} ELSE {}) = known(log.msgs)
             /\ \A a \in Mates : (spawn # NoCall /\ spawn.who = a) \/ live.rows[a] = log.rows[a]

Reachable(m) ==
    board = "open" /\ ~damaged /\ (log.msgs[m].to = Lead \/ log.msgs[m].to \in handles \cap agents)

\* dispatchTeamMessage says "The queue event is appended before this seam is
\* called": no message is received before its queue event is in the log.
QueuedFirst == \A m \in MsgIds : receipts[m] > 0 => log.msgs[m].state # "absent"

\* After a crash the board comes back, and mail does not get stuck: no message
\* stays queued for ever while its target can be reached.
MailArrives ==
    /\ []<>(board = "open" \/ damaged)
    /\ \A m \in MsgIds : ~<>[](log.msgs[m].state = "pending" /\ Reachable(m))
=============================================================================
