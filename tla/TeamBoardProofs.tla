--------------------------- MODULE TeamBoardProofs ---------------------------
(***************************************************************************)
(* Proofs about TeamBoard, for any team, any number of tasks, messages and *)
(* visitors and any bounds.                                                *)
(***************************************************************************)
EXTENDS TeamBoard, FiniteSetTheorems, WellFoundedInduction, TLAPS

\* The callers' copies of the messages agree with the board about the targets,
\* and the identifiers have been reserved.
Addressed(msgs, to, last) ==
    \A m \in MsgIds : msgs[m].state # "absent" => msgs[m].to = to[m] /\ to[m] \in Team /\ m <= last

\* The snapshots that a rollback may put back.
Snapshots ==
    (IF call.at \in {"task", "mail"} THEN {call.before} ELSE {})
    \cup (IF spawn # NoCall THEN {spawn.before} ELSE {})

AddressInv ==
    /\ Addressed(live.msgs, target, reserved.msg)
    /\ log.ok => Addressed(log.msgs, target, reserved.msg)
    /\ \A b \in Snapshots : Addressed(b.msgs, target, reserved.msg)
    /\ call.at = "mail" => call.to = target[call.id] /\ call.id <= reserved.msg
    /\ \A p \in Callers : \A m \in proc[p].list : target[m] \in Team

Delivered(msgs) == {m \in MsgIds : msgs[m].state = "delivered"}

\* What a dispatch in flight and its callers know about the receipt.
ReceiptInv ==
    /\ \A m \in MsgIds :
         /\ receipts[m] <= 1
         /\ flight[m].at = "enqueue" => receipts[m] = 0
         /\ flight[m].at = "record" => receipts[m] = 1
         /\ m \in Delivered(log.msgs) => receipts[m] = 1
    /\ \A p \in Callers : proc[p].at = "ack" => proc[p].msg \in Delivered(log.msgs)

\* A board, and every snapshot of it, only knows deliveries that are in the log.
DeliveredInv ==
    /\ Delivered(live.msgs) \subseteq Delivered(log.msgs)
    /\ \A b \in Snapshots : Delivered(b.msgs) \subseteq Delivered(log.msgs)

Known(msgs) == {m \in MsgIds : msgs[m].state # "absent"}

\* No standing task waits for itself or for a task that is gone.
Sound(tasks) == \A t \in Standing(tasks) : Edges(tasks, t, tasks[t].blockers)

\* The log while nothing is damaged: replay accepts it, its tasks are sound,
\* and it knows what the board knows, but for the call that runs.
TaskInv ==
    /\ log.ok /\ Sound(log.tasks)
    /\ \A t \in TaskIds : IF log.tasks[t].status = "absent" THEN log.tasks[t].revision = 0 ELSE t <= reserved.task
    /\ board = "absent" => live.tasks = NoTasks
    /\ board # "absent" /\ call.at # "task" => live.tasks = log.tasks
    /\ call.at = "task" =>
         /\ call.before.tasks = log.tasks
         /\ live.tasks = [log.tasks EXCEPT ![call.id] = call.task]
         /\ call.task.revision = log.tasks[call.id].revision + 1
         /\ Edges(log.tasks, call.id, call.task.blockers)
         /\ Sound(live.tasks) /\ call.id <= reserved.task /\ call.task.status # "absent"
    /\ call.at = "mail" => call.before.tasks = log.tasks

MsgInv ==
    /\ board # "absent" /\ call.at # "mail" => Known(live.msgs) = Known(log.msgs)
    /\ call.at \in {"task", "mail"} => Known(call.before.msgs) = Known(log.msgs)
    /\ call.at = "mail" =>
         /\ Known(live.msgs) = Known(log.msgs) \cup {call.id} /\ call.id \notin Known(log.msgs)
         /\ Cardinality(PendingTo(call.before.msgs, call.to)) < MaxPending

RowInv ==
    /\ board # "absent" => \A a \in Mates : (spawn # NoCall /\ spawn.who = a) \/ live.rows[a] = log.rows[a]
    /\ spawn # NoCall => log.rows[spawn.who] = "provisioning"
    /\ spawn.at \in {"active", "failed"} => live.rows[spawn.who] = spawn.at
    /\ board # "binding" => unbound = {}
    /\ \A a \in unbound : live.rows[a] \in {"provisioning", "active"}

BoardInv == TaskInv /\ MsgInv /\ RowInv

MailInv == AddressInv /\ ReceiptInv /\ DeliveredInv

\* The inductive invariant.
IInv == TypeOK /\ MailInv /\ (~damaged => BoardInv)
-----------------------------------------------------------------------------
(* Induction, with the claim as the set of numbers it holds for.           *)

LEMMA UpTo ==
    ASSUME NEW B \in Nat, NEW T, 0 \in T, \A k \in 0 .. B - 1 : k \in T => k + 1 \in T
    PROVE  \A k \in 0 .. B : k \in T
<1> DEFINE R == OpToRel(<, Nat)
           Bad == {k \in 0 .. B : k \notin T}
<1> SUFFICES ASSUME Bad # {} PROVE FALSE
    OBVIOUS
<1>0. Bad \subseteq Nat
    OBVIOUS
<1>1. IsWellFoundedOn(R, Nat)
    BY NatLessThanWellFounded
<1>2. \A x, y \in Nat : <<y, x>> \in R <=> y < x
    BY DEF OpToRel
<1>3. PICK x \in Bad : \A y \in Bad : ~ (<<y, x>> \in R)
    <2> HIDE DEF R, Bad
    <2> QED
        BY <1>0, <1>1, WFMin
<1>4. x \in 0 .. B /\ x \notin T /\ x # 0
    OBVIOUS
<1>5. x - 1 \in 0 .. B - 1 /\ x - 1 < x /\ (x - 1) + 1 = x
    BY <1>4
<1>6. x - 1 \notin Bad
    <2>1. x - 1 \in Nat /\ x \in Nat
        BY <1>4, <1>5
    <2> HIDE DEF R, Bad
    <2> QED
        BY <1>2, <1>3, <1>5, <2>1
<1>7. x - 1 \in T
    BY <1>5, <1>6
<1> QED
    BY <1>4, <1>5, <1>7

-----------------------------------------------------------------------------
(* Reach: the tasks that a task waits for, directly or not.                *)

\* One more step along BlockedBy.
Widen(tasks, S) == S \cup UNION {tasks[t].blockers : t \in S}

\* g takes n steps.
Widens(g, tasks, from, n) == g = [k \in 0 .. n |-> IF k = 0 THEN {from} ELSE Widen(tasks, g[k - 1])]

LEMMA WidensExists ==
    ASSUME NEW tasks, NEW from, NEW B \in Nat
    PROVE  \E g : Widens(g, tasks, from, B)
<1> DEFINE T == {n \in Nat : \E g : Widens(g, tasks, from, n)}
<1>1. 0 \in T
    <2>1. Widens([k \in 0 .. 0 |-> {from}], tasks, from, 0)
        BY DEF Widens
    <2> QED
        BY <2>1
<1>2. ASSUME NEW n \in 0 .. B - 1, n \in T PROVE n + 1 \in T
    <2>1. PICK g : Widens(g, tasks, from, n)
        BY <1>2
    <2> DEFINE h == [k \in 0 .. n + 1 |-> IF k <= n THEN g[k] ELSE Widen(tasks, g[n])]
    <2>2. n \in Nat /\ n + 1 \in Nat /\ (n + 1) - 1 = n
        OBVIOUS
    <2>3. \A k \in 0 .. n : h[k] = g[k]
        BY <2>2
    <2>4. h[n + 1] = Widen(tasks, h[n])
        BY <2>2, <2>3
    <2>5. \A k \in 0 .. n : g[k] = IF k = 0 THEN {from} ELSE Widen(tasks, g[k - 1])
        BY <2>1, <2>2 DEF Widens
    <2>6. \A k \in 0 .. n + 1 : h[k] = IF k = 0 THEN {from} ELSE Widen(tasks, h[k - 1])
        <3> HIDE DEF h
        <3>1. ASSUME NEW k \in 0 .. n PROVE h[k] = IF k = 0 THEN {from} ELSE Widen(tasks, h[k - 1])
            <4>1. CASE k = 0
                BY <2>3, <2>5, <4>1
            <4>2. CASE k # 0
                <5>1. k - 1 \in 0 .. n
                    BY <4>2
                <5> QED
                    BY <2>3, <2>5, <4>2, <5>1, Zenon
            <4> QED
                BY <4>1, <4>2
        <3> QED
            BY <2>2, <2>4, <3>1
    <2>7. Widens(h, tasks, from, n + 1)
        BY <2>6 DEF Widens
    <2> QED
        BY <2>2, <2>7
<1> HIDE DEF T
<1>3. B \in T
    BY <1>1, <1>2, UpTo
<1> QED
    BY <1>3 DEF T

\* Reach is the last of these steps.
LEMMA ReachWidens ==
    ASSUME NEW tasks, NEW from
    PROVE  \E g : /\ Widens(g, tasks, from, Cardinality(TaskIds))
                  /\ Reach(tasks, from) = g[Cardinality(TaskIds)]
<1>0. Cardinality(TaskIds) \in Nat
    BY TeamAssumption, FS_CardinalityType
<1>1. \E g : Widens(g, tasks, from, Cardinality(TaskIds))
    BY <1>0, WidensExists
<1> DEFINE step[n \in 0 .. Cardinality(TaskIds)] ==
              IF n = 0 THEN {from} ELSE Widen(tasks, step[n - 1])
<1>2. Widens(step, tasks, from, Cardinality(TaskIds))
    BY <1>1, Zenon DEF Widens
<1>3. Reach(tasks, from) = step[Cardinality(TaskIds)]
    BY DEF Reach, Widen
<1> QED
    BY <1>2, <1>3, Zenon

\* A set that BlockedBy does not leave.
Closed(tasks, S) == \A t \in S : tasks[t].blockers \subseteq S

\* Reach is within every closed set that has its start.
LEMMA ReachLeast ==
    ASSUME NEW tasks, NEW from, NEW S, from \in S, Closed(tasks, S)
    PROVE  Reach(tasks, from) \subseteq S
<1> DEFINE N == Cardinality(TaskIds)
<1>0. N \in Nat
    BY TeamAssumption, FS_CardinalityType
<1>1. PICK g : Widens(g, tasks, from, N) /\ Reach(tasks, from) = g[N]
    BY ReachWidens
<1> HIDE DEF N
<1> DEFINE T == {k \in 0 .. N : g[k] \subseteq S}
<1>2. 0 \in T
    BY <1>0, <1>1 DEF Widens
<1>3. ASSUME NEW k \in 0 .. N - 1, k \in T PROVE k + 1 \in T
    <2>1. k + 1 \in 0 .. N /\ (k + 1) - 1 = k /\ k + 1 # 0
        BY <1>0
    <2>2. g[k + 1] = Widen(tasks, g[k])
        BY <1>1, <2>1 DEF Widens
    <2>3. Widen(tasks, g[k]) \subseteq S
        BY <1>3 DEF Widen, Closed
    <2> QED
        BY <2>1, <2>2, <2>3
<1> HIDE DEF T
<1>4. N \in T
    BY <1>0, <1>2, <1>3, UpTo
<1> QED
    BY <1>1, <1>4 DEF T

\* Reach has its start and is closed: as many steps as there are tasks are
\* enough, because each step but the last finds a new one.
LEMMA ReachClosed ==
    ASSUME NEW tasks, \A t \in TaskIds : tasks[t].blockers \subseteq TaskIds, NEW from \in TaskIds
    PROVE  from \in Reach(tasks, from) /\ Closed(tasks, Reach(tasks, from)) /\ Reach(tasks, from) \subseteq TaskIds
<1> DEFINE N == Cardinality(TaskIds)
<1>0. N \in Nat /\ IsFiniteSet(TaskIds)
    BY TeamAssumption, FS_CardinalityType
<1>1. PICK g : Widens(g, tasks, from, N) /\ Reach(tasks, from) = g[N]
    BY ReachWidens
<1> HIDE DEF N
<1> DEFINE Enough(S) == S \in SUBSET TaskIds /\ from \in S
           T == {k \in 0 .. N : Enough(g[k]) /\ (Closed(tasks, g[k]) \/ Cardinality(g[k]) > k)}
<1>2. 0 \in T
    <2>1. g[0] = {from}
        BY <1>0, <1>1 DEF Widens
    <2>2. Cardinality({from}) = 1
        BY FS_Singleton
    <2>3. Enough(g[0]) /\ Cardinality(g[0]) > 0
        BY <2>1, <2>2
    <2> HIDE DEF Enough
    <2> QED
        BY <1>0, <2>3
<1>3. ASSUME NEW k \in 0 .. N - 1, k \in T PROVE k + 1 \in T
    <2>1. k + 1 \in 0 .. N /\ (k + 1) - 1 = k /\ k + 1 # 0 /\ k \in Nat
        BY <1>0
    <2>2. g[k + 1] = Widen(tasks, g[k])
        BY <1>1, <2>1 DEF Widens
    <2>3. Enough(g[k]) /\ (Closed(tasks, g[k]) \/ Cardinality(g[k]) > k)
        BY <1>3
    <2>4. Enough(g[k + 1]) /\ g[k] \subseteq g[k + 1]
        BY <2>2, <2>3 DEF Widen
    <2>5. CASE Closed(tasks, g[k])
        <3>1. g[k + 1] = g[k]
            BY <2>2, <2>5 DEF Widen, Closed
        <3> HIDE DEF Enough
        <3> QED
            BY <2>1, <2>3, <2>5, <3>1
    <2>6. CASE ~ Closed(tasks, g[k])
        <3>1. PICK t \in g[k] : ~ (tasks[t].blockers \subseteq g[k])
            BY <2>6 DEF Closed
        <3>2. g[k] # g[k + 1]
            BY <2>2, <3>1 DEF Widen
        <3>3. IsFiniteSet(g[k + 1]) /\ IsFiniteSet(g[k])
            BY <1>0, <2>3, <2>4, FS_Subset
        <3>4. Cardinality(g[k]) \in Nat /\ Cardinality(g[k + 1]) \in Nat
            BY <3>3, FS_CardinalityType
        <3>5. Cardinality(g[k]) < Cardinality(g[k + 1])
            <4>1. /\ Cardinality(g[k]) <= Cardinality(g[k + 1])
                  /\ Cardinality(g[k + 1]) = Cardinality(g[k]) => g[k + 1] = g[k]
                BY <2>4, <3>3, FS_Subset
            <4> QED
                BY <3>2, <3>4, <4>1
        <3>6. Cardinality(g[k + 1]) > k + 1
            BY <2>1, <2>3, <2>6, <3>4, <3>5
        <3> HIDE DEF Enough
        <3> QED
            BY <2>1, <2>4, <3>6
    <2> QED
        BY <2>5, <2>6
<1> HIDE DEF T
<1>4. N \in T
    BY <1>0, <1>2, <1>3, UpTo
<1>5. Enough(g[N]) /\ (Closed(tasks, g[N]) \/ Cardinality(g[N]) > N)
    BY <1>4 DEF T
<1>6. Cardinality(g[N]) <= N /\ Cardinality(g[N]) \in Nat
    <2>1. IsFiniteSet(g[N]) /\ Cardinality(g[N]) <= N
        BY <1>0, <1>5, FS_Subset DEF N
    <2> QED
        BY <2>1, FS_CardinalityType
<1>7. Closed(tasks, g[N])
    BY <1>0, <1>5, <1>6
<1> QED
    BY <1>1, <1>5, <1>7

-----------------------------------------------------------------------------
(* Dependencies stay sound.                                                *)

\* An update gives a task blockers that validateEdgesLocked accepts, and does
\* not delete a task that a standing one waits for.
LEMMA SoundUpdate ==
    ASSUME NEW tasks \in [TaskIds -> Tasks], Sound(tasks), NEW t \in TaskIds, NEW task \in Tasks,
           task.status # "absent", Edges(tasks, t, task.blockers),
           task.status = "deleted" => \A u \in Standing(tasks) \ {t} : t \notin tasks[u].blockers
    PROVE  Sound([tasks EXCEPT ![t] = task])
<1> DEFINE new == [tasks EXCEPT ![t] = task]
<1>1. /\ \A u \in TaskIds : tasks[u].blockers \subseteq TaskIds
      /\ task.blockers \subseteq TaskIds
    BY DEF Tasks
<1>2. /\ new[t] = task /\ \A u \in TaskIds \ {t} : new[u] = tasks[u]
    OBVIOUS
<1> HIDE DEF new
<1>3. \A u \in TaskIds : new[u].blockers \subseteq TaskIds
    BY <1>1, <1>2
<1>4. /\ \A u \in TaskIds : u \in Reach(tasks, u) /\ Closed(tasks, Reach(tasks, u))
      /\ \A u \in TaskIds : Reach(tasks, u) \subseteq TaskIds
    BY <1>1, ReachClosed
<1>5. \A c \in task.blockers : t \notin Reach(tasks, c) /\ c # t /\ c \in Standing(tasks)
    BY <1>1, <1>4 DEF Edges
<1>6. \A u \in TaskIds \ {t} : u \in Standing(new) <=> u \in Standing(tasks)
    BY <1>2 DEF Standing
<1> SUFFICES ASSUME NEW u \in Standing(new) PROVE Edges(new, u, new[u].blockers)
    BY DEF Sound, new
<1>7. u \in TaskIds
    BY DEF Standing
<1>8. CASE u = t
    <2>1. new[u].blockers = task.blockers
        BY <1>2, <1>8
    <2>2. task.blockers \subseteq Standing(new)
        BY <1>1, <1>5, <1>6
    <2>3. ASSUME NEW b \in task.blockers PROVE t \notin Reach(new, b)
        <3>1. Closed(new, Reach(tasks, b)) /\ b \in Reach(tasks, b) /\ t \notin Reach(tasks, b)
            BY <1>1, <1>2, <1>4, <1>5 DEF Closed
        <3> QED
            BY <3>1, ReachLeast
    <2> QED
        BY <1>8, <2>1, <2>2, <2>3 DEF Edges
<1>9. CASE u # t
    <2>1. new[u] = tasks[u] /\ u \in Standing(tasks)
        BY <1>2, <1>6, <1>7, <1>9
    <2>2. Edges(tasks, u, tasks[u].blockers)
        BY <2>1 DEF Sound
    <2>3. tasks[u].blockers \subseteq Standing(new)
        <3>1. tasks[u].blockers \subseteq Standing(tasks)
            BY <2>2 DEF Edges
        <3>2. CASE t \in tasks[u].blockers
            <4>1. task.status # "deleted"
                BY <1>9, <2>1, <3>2
            <4>2. t \in Standing(new)
                BY <1>2, <4>1 DEF Standing
            <4> QED
                BY <1>6, <3>1, <4>2 DEF Standing
        <3>3. CASE t \notin tasks[u].blockers
            BY <1>6, <3>1, <3>3 DEF Standing
        <3> QED
            BY <3>2, <3>3
    <2>4. ASSUME NEW b \in tasks[u].blockers PROVE u \notin Reach(new, b)
        <3>1. b \in TaskIds /\ u \notin Reach(tasks, b)
            BY <1>1, <1>7, <2>2 DEF Edges
        <3>2. CASE t \notin Reach(tasks, b)
            <4>1. Closed(new, Reach(tasks, b)) /\ b \in Reach(tasks, b)
                BY <1>2, <1>4, <3>1, <3>2 DEF Closed
            <4> QED
                BY <3>1, <4>1, ReachLeast
        <3>3. CASE t \in Reach(tasks, b)
            <4> DEFINE C == Reach(tasks, b) \cup UNION {Reach(tasks, c) : c \in task.blockers}
            <4>1. Closed(new, C)
                <5> SUFFICES ASSUME NEW x \in C PROVE new[x].blockers \subseteq C
                    BY DEF Closed
                <5>1. CASE x = t
                    <6>1. \A c \in task.blockers : c \in Reach(tasks, c)
                        BY <1>1, <1>4
                    <6> QED
                        BY <1>2, <5>1, <6>1
                <5>2. CASE x # t
                    <6>1. \E z \in {b} \cup task.blockers : x \in Reach(tasks, z)
                        OBVIOUS
                    <6>2. PICK z \in {b} \cup task.blockers : x \in Reach(tasks, z)
                        BY <6>1
                    <6>3. z \in TaskIds /\ Reach(tasks, z) \subseteq C
                        BY <1>1, <3>1, <6>2
                    <6>4. tasks[x].blockers \subseteq Reach(tasks, z) /\ x \in TaskIds
                        BY <1>4, <6>2, <6>3 DEF Closed
                    <6> QED
                        BY <1>2, <5>2, <6>3, <6>4
                <5> QED
                    BY <5>1, <5>2
            <4>2. b \in C
                BY <1>4, <3>1
            <4>3. ASSUME NEW c \in task.blockers, u \in Reach(tasks, c) PROVE FALSE
                <5>1. c \in TaskIds /\ Closed(tasks, Reach(tasks, c))
                    BY <1>1, <1>4
                <5>2. b \in Reach(tasks, c)
                    BY <4>3, <5>1 DEF Closed
                <5>3. Reach(tasks, b) \subseteq Reach(tasks, c)
                    BY <5>1, <5>2, ReachLeast
                <5> QED
                    BY <1>5, <3>3, <5>3
            <4>4. u \notin C
                BY <3>1, <4>3
            <4> HIDE DEF C
            <4> QED
                BY <4>1, <4>2, <4>4, ReachLeast
        <3> QED
            BY <3>2, <3>3
    <2> QED
        BY <2>1, <2>3, <2>4 DEF Edges
<1> QED
    BY <1>8, <1>9

-----------------------------------------------------------------------------
(* The types of what the actions build.                                    *)

LEMMA Constants ==
    /\ NoTask \in Tasks /\ NoMail \in Mail /\ NewBoard \in Boards
    /\ NoCall \in Calls /\ NoCall \in Spawns /\ NoFlight \in Flights /\ NoProc \in Procs
    /\ NoFlights \in [MsgIds -> Flights] /\ Idle \in [Callers -> Procs]
<1>1. NoTask \in Tasks
    BY DEF NoTask, Tasks
<1>2. NoMail \in Mail
    BY DEF NoMail, Mail
<1>3. NewBoard \in Boards
    BY <1>1, <1>2 DEF NewBoard, Boards, NoTasks, NoMsgs, NoRows, Phases
<1>4. NoCall \in Calls /\ NoCall \in Spawns
    BY DEF Calls, Spawns
<1>5. NoFlight \in Flights
    BY DEF NoFlight, Flights
<1>6. NoProc \in Procs
    BY DEF NoProc, Procs
<1> QED
    BY <1>1, <1>2, <1>3, <1>4, <1>5, <1>6 DEF NoFlights, Idle

\* The parts of a board.
LEMMA BoardParts ==
    ASSUME NEW b \in Boards
    PROVE  /\ b.tasks \in [TaskIds -> Tasks] /\ b.msgs \in [MsgIds -> Mail]
           /\ b.rows \in [Mates -> Phases] /\ b.stamped \subseteq TaskIds
           /\ b = [tasks |-> b.tasks, stamped |-> b.stamped, msgs |-> b.msgs, rows |-> b.rows]
BY DEF Boards

LEMMA LogParts ==
    ASSUME NEW l \in Logs
    PROVE  /\ l.tasks \in [TaskIds -> Tasks] /\ l.msgs \in [MsgIds -> Mail]
           /\ l.rows \in [Mates -> Phases] /\ l.ok \in BOOLEAN
BY DEF Logs

LEMMA MailParts ==
    ASSUME NEW m \in Mail
    PROVE  m.to \in Team \cup {Nobody} /\ m.state \in {"absent", "pending", "delivered"}
BY DEF Mail

WithTask(b, t, task) ==
    [b EXCEPT !.tasks[t] = task, !.stamped = IF task.status = "deleted" THEN @ \cup {t} ELSE @]

WithMail(b, m, y) == [b EXCEPT !.msgs[m] = y]
WithAck(b, m) == [b EXCEPT !.msgs[m].state = "delivered"]
WithRow(b, a, phase) == [b EXCEPT !.rows[a] = phase]

\* A task of the board changes.
LEMMA BoardWithTask ==
    ASSUME NEW b \in Boards, NEW t \in TaskIds, NEW task \in Tasks, NEW x,
           x = WithTask(b, t, task)
    PROVE  /\ x \in Boards /\ x.msgs = b.msgs /\ x.rows = b.rows
           /\ x.tasks = [b.tasks EXCEPT ![t] = task]
<1>1. /\ x.msgs = b.msgs /\ x.rows = b.rows /\ x.tasks = [b.tasks EXCEPT ![t] = task]
      /\ x.stamped = IF task.status = "deleted" THEN b.stamped \cup {t} ELSE b.stamped
      /\ x = [tasks |-> x.tasks, stamped |-> x.stamped, msgs |-> x.msgs, rows |-> x.rows]
    BY DEF Boards, WithTask
<1>2. x.tasks \in [TaskIds -> Tasks] /\ x.stamped \subseteq TaskIds
    BY <1>1, BoardParts
<1> QED
    BY <1>1, <1>2, BoardParts DEF Boards

LEMMA BoardWithMail ==
    ASSUME NEW b \in Boards, NEW m \in MsgIds, NEW y \in Mail, NEW x, x = WithMail(b, m, y)
    PROVE  /\ x \in Boards /\ x.tasks = b.tasks /\ x.rows = b.rows
           /\ x.msgs = [b.msgs EXCEPT ![m] = y]
<1>1. /\ x.tasks = b.tasks /\ x.rows = b.rows /\ x.stamped = b.stamped /\ x.msgs = [b.msgs EXCEPT ![m] = y]
      /\ x = [tasks |-> x.tasks, stamped |-> x.stamped, msgs |-> x.msgs, rows |-> x.rows]
    BY DEF Boards, WithMail
<1>2. x.msgs \in [MsgIds -> Mail]
    BY <1>1, BoardParts
<1> QED
    BY <1>1, <1>2, BoardParts DEF Boards

LEMMA BoardWithAck ==
    ASSUME NEW b \in Boards, NEW m \in MsgIds, NEW x, x = WithAck(b, m)
    PROVE  /\ x \in Boards /\ x.tasks = b.tasks /\ x.rows = b.rows
           /\ x.msgs = [b.msgs EXCEPT ![m] = [to |-> b.msgs[m].to, state |-> "delivered"]]
<1> DEFINE y == [to |-> b.msgs[m].to, state |-> "delivered"]
<1>1. b.msgs[m] \in Mail
    BY BoardParts
<1>2. y \in Mail /\ [b.msgs[m] EXCEPT !.state = "delivered"] = y
    BY <1>1 DEF Mail
<1>3. x = [b EXCEPT !.msgs[m] = [b.msgs[m] EXCEPT !.state = "delivered"]]
    BY DEF Boards, WithAck
<1> HIDE DEF y
<1>4. x = WithMail(b, m, y)
    BY <1>2, <1>3 DEF WithMail
<1> QED
    BY <1>2, <1>4, BoardWithMail DEF y

LEMMA BoardWithRow ==
    ASSUME NEW b \in Boards, NEW a \in Mates, NEW phase \in Phases, NEW x, x = WithRow(b, a, phase)
    PROVE  /\ x \in Boards /\ x.tasks = b.tasks /\ x.msgs = b.msgs
           /\ x.rows = [b.rows EXCEPT ![a] = phase]
<1>1. /\ x.tasks = b.tasks /\ x.msgs = b.msgs /\ x.stamped = b.stamped /\ x.rows = [b.rows EXCEPT ![a] = phase]
      /\ x = [tasks |-> x.tasks, stamped |-> x.stamped, msgs |-> x.msgs, rows |-> x.rows]
    BY DEF Boards, WithRow
<1>2. x.rows \in [Mates -> Phases]
    BY <1>1, BoardParts
<1> QED
    BY <1>1, <1>2, BoardParts DEF Boards

LEMMA BoardFromLog ==
    ASSUME NEW l \in Logs, NEW x, x = [tasks |-> l.tasks, stamped |-> {}, msgs |-> l.msgs, rows |-> l.rows]
    PROVE  x \in Boards /\ x.tasks = l.tasks /\ x.msgs = l.msgs /\ x.rows = l.rows
BY LogParts DEF Boards

\* The events.
LEMMA ApplyTaskIs ==
    ASSUME NEW l \in Logs, NEW t \in TaskIds, NEW task \in Tasks, NEW x, x = ApplyTask(l, t, task)
    PROVE  /\ x \in Logs /\ x.msgs = l.msgs /\ x.rows = l.rows /\ x.tasks = [l.tasks EXCEPT ![t] = task]
           /\ x.ok <=> l.ok /\ task.revision = l.tasks[t].revision + 1 /\ Edges(l.tasks, t, task.blockers)
<1> DEFINE ok == l.ok /\ task.revision = l.tasks[t].revision + 1 /\ Edges(l.tasks, t, task.blockers)
<1>1. x = [l EXCEPT !.tasks[t] = task, !.ok = ok]
    BY Zenon DEF ApplyTask
<1>2. ok \in BOOLEAN
    OBVIOUS
<1> HIDE DEF ok
<1>3. /\ x.msgs = l.msgs /\ x.rows = l.rows /\ x.tasks = [l.tasks EXCEPT ![t] = task] /\ x.ok = ok
      /\ x = [tasks |-> x.tasks, msgs |-> x.msgs, rows |-> x.rows, ok |-> x.ok]
    BY <1>1 DEF Logs
<1>4. x.tasks \in [TaskIds -> Tasks]
    BY <1>3, LogParts
<1>5. x \in Logs
    BY <1>2, <1>3, <1>4, LogParts DEF Logs
<1> QED
    BY <1>3, <1>5 DEF ok

LEMMA ApplyQueuedIs ==
    ASSUME NEW l \in Logs, NEW m \in MsgIds, NEW a \in Team, NEW x, x = ApplyQueued(l, m, a)
    PROVE  /\ x \in Logs /\ x.tasks = l.tasks /\ x.rows = l.rows
           /\ x.msgs = [l.msgs EXCEPT ![m] = [to |-> a, state |-> IF l.msgs[m].state = "absent" THEN "pending"
                                                                   ELSE l.msgs[m].state]]
           /\ x.ok <=> /\ l.ok /\ l.msgs[m].state = "absent"
                       /\ Cardinality(PendingTo(l.msgs, a)) < MaxPending
<1> DEFINE ok == l.ok /\ l.msgs[m].state = "absent" /\ Cardinality(PendingTo(l.msgs, a)) < MaxPending
           y == [to |-> a, state |-> IF l.msgs[m].state = "absent" THEN "pending" ELSE l.msgs[m].state]
<1>1. x = [l EXCEPT !.msgs[m] = y, !.ok = ok]
    BY DEF ApplyQueued, Logs
<1>2. ok \in BOOLEAN
    OBVIOUS
<1>3. y \in Mail
    BY LogParts DEF Mail
<1> HIDE DEF ok, y
<1>4. /\ x.tasks = l.tasks /\ x.rows = l.rows /\ x.msgs = [l.msgs EXCEPT ![m] = y] /\ x.ok = ok
      /\ x = [tasks |-> x.tasks, msgs |-> x.msgs, rows |-> x.rows, ok |-> x.ok]
    BY <1>1 DEF Logs
<1>5. x.msgs \in [MsgIds -> Mail]
    BY <1>3, <1>4, LogParts
<1>6. x \in Logs
    BY <1>2, <1>4, <1>5, LogParts DEF Logs
<1> QED
    BY <1>4, <1>6 DEF ok, y

LEMMA ApplyDeliveredIs ==
    ASSUME NEW l \in Logs, NEW m \in MsgIds, NEW x, x = ApplyDelivered(l, m)
    PROVE  /\ x \in Logs /\ x.tasks = l.tasks /\ x.rows = l.rows
           /\ x.msgs = [l.msgs EXCEPT ![m] = [to |-> l.msgs[m].to, state |-> "delivered"]]
           /\ x.ok <=> l.ok /\ l.msgs[m].state = "pending"
<1> DEFINE ok == l.ok /\ l.msgs[m].state = "pending"
           y == [to |-> l.msgs[m].to, state |-> "delivered"]
<1>1. l.msgs[m] \in Mail
    BY LogParts
<1>2. y \in Mail /\ [l.msgs[m] EXCEPT !.state = "delivered"] = y
    BY <1>1 DEF Mail
<1>3. x = [l EXCEPT !.msgs[m] = [l.msgs[m] EXCEPT !.state = "delivered"], !.ok = ok]
    BY DEF ApplyDelivered, Logs
<1>4. ok \in BOOLEAN
    OBVIOUS
<1> HIDE DEF ok, y
<1>5. /\ x.tasks = l.tasks /\ x.rows = l.rows /\ x.msgs = [l.msgs EXCEPT ![m] = y] /\ x.ok = ok
      /\ x = [tasks |-> x.tasks, msgs |-> x.msgs, rows |-> x.rows, ok |-> x.ok]
    BY <1>2, <1>3 DEF Logs
<1>6. x.msgs \in [MsgIds -> Mail]
    BY <1>2, <1>5, LogParts
<1>7. x \in Logs
    BY <1>4, <1>5, <1>6, LogParts DEF Logs
<1> QED
    BY <1>5, <1>7 DEF ok, y

LEMMA ApplyMemberIs ==
    ASSUME NEW l \in Logs, NEW a \in Mates, NEW phase \in Phases, NEW x, x = ApplyMember(l, a, phase)
    PROVE  /\ x \in Logs /\ x.tasks = l.tasks /\ x.msgs = l.msgs /\ x.rows = [l.rows EXCEPT ![a] = phase]
           /\ x.ok <=> /\ l.ok
                       /\ \/ l.rows[a] = "none" /\ phase = "provisioning"
                          \/ l.rows[a] = "provisioning" /\ phase # "provisioning"
<1> DEFINE ok == l.ok /\ \/ l.rows[a] = "none" /\ phase = "provisioning"
                         \/ l.rows[a] = "provisioning" /\ phase # "provisioning"
<1>1. x = [l EXCEPT !.rows[a] = phase, !.ok = ok]
    BY Zenon DEF ApplyMember
<1>2. ok \in BOOLEAN
    OBVIOUS
<1> HIDE DEF ok
<1>3. /\ x.tasks = l.tasks /\ x.msgs = l.msgs /\ x.rows = [l.rows EXCEPT ![a] = phase] /\ x.ok = ok
      /\ x = [tasks |-> x.tasks, msgs |-> x.msgs, rows |-> x.rows, ok |-> x.ok]
    BY <1>1 DEF Logs
<1>4. x.rows \in [Mates -> Phases]
    BY <1>3, LogParts
<1>5. x \in Logs
    BY <1>2, <1>3, <1>4, LogParts DEF Logs
<1> QED
    BY <1>3, <1>5 DEF ok

\* What runs.
LEMMA CallIs ==
    ASSUME TypeOK
    PROVE  /\ call.at \in {"idle", "task", "mail", "dispatch"} /\ (call.at = "idle" => call = NoCall)
           /\ call.at = "task" => call.id \in TaskIds /\ call.task \in Tasks /\ call.before \in Boards
           /\ call.at = "mail" => call.id \in MsgIds /\ call.to \in Team /\ call.before \in Boards
BY DEF TypeOK, Calls, NoCall

LEMMA SpawnIs ==
    ASSUME TypeOK
    PROVE  /\ spawn.at \in {"idle", "spawn", "start", "active", "failed"}
           /\ spawn.at = "idle" <=> spawn = NoCall
           /\ spawn # NoCall => /\ spawn.who \in Mates /\ spawn.before \in Boards
                                /\ spawn \in [at : {"spawn", "start", "active", "failed"}, who : Mates, before : Boards]
BY DEF TypeOK, Spawns, NoCall

-----------------------------------------------------------------------------
(* Type correctness.                                                       *)

\* Every outcome of UpdateTask is a task, and no outcome is absent.
LEMMA OutcomesAre ==
    ASSUME TypeOK, NEW a \in Team, NEW t \in Standing(live.tasks), NEW to \in Outcomes(a, t)
    PROVE  /\ to \in Tasks /\ to.status # "absent" /\ to.revision = live.tasks[t].revision
           /\ to.status = "deleted" => Deletable(t)
<1> DEFINE task == live.tasks[t]
           Is(status, owner) == [task EXCEPT !.status = status, !.owner = owner]
<1>1. task \in Tasks /\ task.status \notin {"absent", "deleted"}
    BY BoardParts DEF TypeOK, Standing
<1>2. \/ to = task
      \/ \E o \in Team : to = Is("in_progress", o)
      \/ task.status = "in_progress" /\ to = Is("completed", task.owner)
      \/ to = Is("pending", Nobody)
      \/ Deletable(t) /\ to = Is("deleted", task.owner)
    BY DEF Outcomes
<1>3. CASE to = task
    BY <1>1, <1>3 DEF Tasks
<1>4. CASE \E o \in Team : to = Is("in_progress", o)
    BY <1>1, <1>4, TeamAssumption DEF Tasks, Team
<1>5. CASE task.status = "in_progress" /\ to = Is("completed", task.owner)
    BY <1>1, <1>5 DEF Tasks
<1>6. CASE to = Is("pending", Nobody)
    BY <1>1, <1>6 DEF Tasks
<1>7. CASE Deletable(t) /\ to = Is("deleted", task.owner)
    BY <1>1, <1>7 DEF Tasks
<1> QED
    BY <1>2, <1>3, <1>4, <1>5, <1>6, <1>7

\* A call of the task tools puts a task on the board.
LEMMA StartIs ==
    ASSUME TypeOK, NEW t \in TaskIds, NEW task \in Tasks, Start(t, task)
    PROVE  /\ live' \in Boards /\ live'.msgs = live.msgs /\ live'.rows = live.rows
           /\ live'.tasks = [live.tasks EXCEPT ![t] = task]
           /\ call' \in Calls /\ call'.at = "task" /\ call'.id = t /\ call'.task = task /\ call'.before = live
<1>1. live \in Boards
    BY DEF TypeOK
<1>2. live' \in Boards /\ live'.msgs = live.msgs /\ live'.rows = live.rows
      /\ live'.tasks = [live.tasks EXCEPT ![t] = task]
    <2>1. live' = WithTask(live, t, task)
        BY DEF Start, WithTask
    <2> QED
        BY <1>1, <2>1, BoardWithTask
<1>3. call' = [at |-> "task", id |-> t, task |-> task, before |-> live]
    BY DEF Start
<1> QED
    BY <1>1, <1>2, <1>3 DEF Calls

LEMMA CreateIs ==
    ASSUME TypeOK, NEW a \in Team, NEW blockers \in SUBSET TaskIds, TaskCreate(a, blockers)
    PROVE  /\ reserved.task + 1 \in TaskIds /\ NewTask(a, blockers) \in Tasks
           /\ Start(reserved.task + 1, NewTask(a, blockers))
           /\ reserved' = [task |-> reserved.task + 1, msg |-> reserved.msg]
<1>1. NewTask(a, blockers) \in Tasks
    BY DEF NewTask, Tasks
<1>2. reserved' = [task |-> reserved.task + 1, msg |-> reserved.msg]
    BY DEF TaskCreate, TypeOK
<1> QED
    BY <1>1, <1>2 DEF TaskCreate

LEMMA UpdateIs ==
    ASSUME TypeOK, NEW a \in Team, NEW blockers \in SUBSET TaskIds, NEW t \in TaskIds, TaskUpdate(a, t, blockers)
    PROVE  \E task \in Tasks :
             /\ Start(t, task) /\ task.status # "absent" /\ task.blockers = blockers
             /\ task.revision = live.tasks[t].revision + 1
             /\ task.status = "deleted" => Deletable(t)
<1>1. t \in Standing(live.tasks)
    BY DEF TaskUpdate
<1>2. PICK to \in Outcomes(a, t) : Start(t, [to EXCEPT !.blockers = blockers, !.revision = @ + 1])
    BY DEF TaskUpdate
<1>3. /\ to \in Tasks /\ to.status # "absent" /\ to.revision = live.tasks[t].revision
      /\ to.status = "deleted" => Deletable(t)
    BY <1>1, OutcomesAre
<1> DEFINE task == [to EXCEPT !.blockers = blockers, !.revision = @ + 1]
<1>4. /\ task \in Tasks /\ task.status = to.status /\ task.blockers = blockers
      /\ task.revision = to.revision + 1
    <2> DEFINE y == [status |-> to.status, owner |-> to.owner, blockers |-> blockers, revision |-> to.revision + 1]
    <2>1. /\ to.revision \in Nat /\ to.owner \in Team \cup {Nobody}
          /\ to.status \in {"absent", "pending", "in_progress", "completed", "deleted"}
          /\ to.status = "pending" => to.owner = Nobody
          /\ to.status \in {"in_progress", "completed"} => to.owner # Nobody
        BY <1>3 DEF Tasks
    <2>2. task = y
        <3>1. to \in [status : {"absent", "pending", "in_progress", "completed", "deleted"},
                       owner : Team \cup {Nobody}, blockers : SUBSET TaskIds, revision : Nat]
            BY <1>3 DEF Tasks
        <3>2. /\ DOMAIN task = {"status", "owner", "blockers", "revision"}
              /\ task.status = to.status /\ task.owner = to.owner /\ task.blockers = blockers
              /\ task.revision = to.revision + 1
              /\ task = [f \in DOMAIN task |-> task[f]]
            BY <3>1
        <3> HIDE DEF task
        <3> QED
            BY <3>2
    <2>3. y \in Tasks
        BY <2>1 DEF Tasks
    <2> QED
        BY <2>2, <2>3
<1> HIDE DEF task
<1>5. Start(t, task)
    BY <1>2 DEF task
<1> QED
    BY <1>3, <1>4, <1>5

LEMMA RollbackIs ==
    ASSUME TypeOK, NEW s \in Boards, Rollback(s)
    PROVE  /\ live' \in {live, s} /\ live' \in Boards /\ handles' \subseteq Mates
           /\ Restorable(s) => live' = s
BY DEF TypeOK, Rollback

LEMMA CalledType == ASSUME TypeOK, Called PROVE calls' \in 0 .. MaxCalls
BY TeamAssumption DEF Called, TypeOK

LEMMA FaultType == ASSUME TypeOK, Fault PROVE faults' \in 0 .. MaxFaults
BY TeamAssumption DEF Fault, TypeOK

LEMMA TaskTypes ==
    ASSUME TypeOK,
           \/ \E a \in Team, blockers \in SUBSET TaskIds :
                TaskCreate(a, blockers) \/ \E t \in TaskIds : TaskUpdate(a, t, blockers)
           \/ SaveTask \/ SaveTaskFails
    PROVE  TypeOK'
<1> USE DEF memory, disk, mail, bounds
<1>1. ASSUME NEW a \in Team, NEW blockers \in SUBSET TaskIds, TaskCreate(a, blockers) PROVE TypeOK'
    <2>1. live' \in Boards /\ call' \in Calls
        BY <1>1, CreateIs, StartIs, Zenon
    <2>2. calls' \in 0 .. MaxCalls
        BY <1>1, CalledType DEF TaskCreate
    <2>3. reserved' \in [task : Nat, msg : Nat]
        <3>1. reserved' = [task |-> reserved.task + 1, msg |-> reserved.msg]
            BY <1>1, CreateIs
        <3> QED
            BY <3>1 DEF TypeOK
    <2> QED
        BY <1>1, <2>1, <2>2, <2>3 DEF TypeOK, TaskCreate, Called
<1>2. ASSUME NEW a \in Team, NEW blockers \in SUBSET TaskIds, NEW t \in TaskIds, TaskUpdate(a, t, blockers)
      PROVE TypeOK'
    <2>1. live' \in Boards /\ call' \in Calls
        BY <1>2, UpdateIs, StartIs, Zenon
    <2>2. calls' \in 0 .. MaxCalls
        BY <1>2, CalledType DEF TaskUpdate
    <2> QED
        BY <1>2, <2>1, <2>2 DEF TypeOK, TaskUpdate, Called
<1>3. CASE SaveTask
    <2>1. log' \in Logs
        BY <1>3, CallIs, ApplyTaskIs DEF SaveTask, TypeOK
    <2> QED
        BY <1>3, <2>1, Constants DEF TypeOK, SaveTask
<1>4. CASE SaveTaskFails
    <2>1. live' \in Boards /\ handles' \subseteq Mates
        BY <1>4, CallIs, RollbackIs DEF SaveTaskFails
    <2>2. faults' \in 0 .. MaxFaults /\ damaged' \in BOOLEAN
        BY <1>4, FaultType DEF SaveTaskFails
    <2> QED
        BY <1>4, <2>1, <2>2, Constants DEF TypeOK, SaveTaskFails, Fault
<1> QED
    BY <1>1, <1>2, <1>3, <1>4

LEMMA MessageIs ==
    ASSUME TypeOK, NEW a \in Team, NEW b \in Team, Message(a, b)
    PROVE  \E m \in MsgIds :
             /\ m = reserved.msg + 1 /\ reserved' = [task |-> reserved.task, msg |-> m]
             /\ live' \in Boards /\ live'.tasks = live.tasks /\ live'.rows = live.rows
             /\ live'.msgs = [live.msgs EXCEPT ![m] = [to |-> b, state |-> "pending"]]
             /\ call' \in Calls /\ call'.at = "mail" /\ call'.id = m /\ call'.to = b /\ call'.before = live
             /\ target' = [target EXCEPT ![m] = b]
<1> DEFINE m == reserved.msg + 1
           y == [to |-> b, state |-> "pending"]
<1>1. m \in MsgIds /\ live \in Boards
    BY DEF Message, TypeOK
<1>2. y \in Mail
    BY DEF Mail
<1>3. /\ live' = [live EXCEPT !.msgs[m] = y] /\ target' = [target EXCEPT ![m] = b]
      /\ call' = [at |-> "mail", id |-> m, to |-> b, before |-> live]
    BY DEF Message
<1>4. reserved' = [task |-> reserved.task, msg |-> m]
    BY DEF Message, TypeOK
<1> HIDE DEF m
<1>5. /\ live' \in Boards /\ live'.tasks = live.tasks /\ live'.rows = live.rows
      /\ live'.msgs = [live.msgs EXCEPT ![m] = y]
    <2> HIDE DEF y
    <2>1. live' = WithMail(live, m, y)
        BY <1>3 DEF WithMail
    <2> QED
        BY <1>1, <1>2, <2>1, BoardWithMail
<1>6. call' \in Calls /\ call'.at = "mail" /\ call'.id = m /\ call'.to = b /\ call'.before = live
    BY <1>1, <1>3 DEF Calls
<1> QED
    BY <1>1, <1>3, <1>4, <1>5, <1>6 DEF m

\* A caller goes on with its list.
LEMMA ProceedIs ==
    ASSUME NEW q \in Procs
    PROVE  /\ Proceed(q) \in Procs /\ Proceed(q).at \in {"idle", "list"} /\ Proceed(q).list = q.list
           /\ [q EXCEPT !.at = "ack"] \in Procs /\ [q EXCEPT !.at = "ack"].at = "ack"
           /\ [q EXCEPT !.at = "ack"].msg = q.msg /\ [q EXCEPT !.at = "ack"].list = q.list
BY DEF Proceed, Procs, NoProc

\* The end of team_message frees the tool; other calls go on.
LEMMA ToolEndsIs ==
    ASSUME TypeOK, ToolEnds
    PROVE  /\ call' \in Calls
           /\ call.at \in {"task", "mail"} \/ call'.at \in {"task", "mail"} => call' = call
BY Constants DEF ToolEnds, TypeOK, NoCall

LEMMA FinishIs ==
    ASSUME TypeOK, NEW m \in MsgIds, NEW d \in BOOLEAN, Finish(m, d)
    PROVE  /\ flight' \in [MsgIds -> Flights] /\ tail' \in [Team -> MsgIds \cup {0}]
           /\ proc' \in [Callers -> Procs] /\ call' \in Calls
           /\ call.at \in {"task", "mail"} \/ call'.at \in {"task", "mail"} => call' = call
           /\ \A n \in MsgIds : flight'[n].at = IF n = m THEN "none" ELSE flight[n].at
           /\ \A p \in Callers :
                /\ proc'[p].list = proc[p].list
                /\ proc'[p].at \in {"wait", "ack"} => proc'[p].msg = proc[p].msg /\ proc[p].at \in {"wait", "ack"}
                /\ proc'[p].at = "ack" => proc[p].at = "ack" \/ (d /\ proc[p].msg = m)
<1>1. /\ flight \in [MsgIds -> Flights] /\ tail \in [Team -> MsgIds \cup {0}]
      /\ proc \in [Callers -> Procs]
    BY DEF TypeOK
<1>2. call' \in Calls /\ (call.at \in {"task", "mail"} \/ call'.at \in {"task", "mail"} => call' = call)
    BY ToolEndsIs DEF Finish
<1>3. /\ DOMAIN flight' = MsgIds /\ flight' = [n \in MsgIds |-> flight'[n]]
      /\ \A n \in MsgIds : flight'[n] = CASE n = m -> NoFlight
                                          [] n # m /\ flight[n].after = m -> [flight[n] EXCEPT !.after = 0]
                                          [] OTHER -> flight[n]
    BY DEF Finish
<1>4. ASSUME NEW n \in MsgIds
      PROVE  flight'[n] \in Flights /\ flight'[n].at = IF n = m THEN "none" ELSE flight[n].at
    <2>1. CASE n = m
        BY <1>3, <2>1, Constants DEF NoFlight
    <2>2. CASE n # m /\ flight[n].after = m
        BY <1>1, <1>3, <2>2 DEF Flights
    <2>3. CASE n # m /\ flight[n].after # m
        BY <1>1, <1>3, <2>3
    <2> QED
        BY <2>1, <2>2, <2>3
<1>5. flight' \in [MsgIds -> Flights]
    BY <1>3, <1>4
<1>6. tail' \in [Team -> MsgIds \cup {0}]
    <2>1. tail' = [tail EXCEPT ![target[m]] = IF @ = m THEN 0 ELSE @]
        BY DEF Finish, Released
    <2> QED
        BY <1>1, <2>1
<1>7. /\ proc' = [p \in Callers |-> proc'[p]]
      /\ \A p \in Callers : proc'[p] = IF proc[p].at = "wait" /\ proc[p].msg = m
                                       THEN IF d THEN [proc[p] EXCEPT !.at = "ack"] ELSE Proceed(proc[p])
                                       ELSE proc[p]
    BY DEF Finish
<1>8. ASSUME NEW p \in Callers
      PROVE  /\ proc'[p] \in Procs /\ proc'[p].list = proc[p].list
             /\ proc'[p].at \in {"wait", "ack"} => proc'[p].msg = proc[p].msg /\ proc[p].at \in {"wait", "ack"}
             /\ proc'[p].at = "ack" => proc[p].at = "ack" \/ (d /\ proc[p].msg = m)
    <2>1. proc[p] \in Procs
        BY <1>1
    <2>2. CASE proc[p].at = "wait" /\ proc[p].msg = m /\ d
        <3>1. proc'[p] = [proc[p] EXCEPT !.at = "ack"]
            BY <1>7, <2>2
        <3> QED
            BY <2>1, <2>2, <3>1, ProceedIs
    <2>3. CASE proc[p].at = "wait" /\ proc[p].msg = m /\ ~d
        <3>1. proc'[p] = Proceed(proc[p])
            BY <1>7, <2>3
        <3> QED
            BY <2>1, <3>1, ProceedIs
    <2>4. CASE ~ (proc[p].at = "wait" /\ proc[p].msg = m)
        <3>1. proc'[p] = proc[p]
            BY <1>7, <2>4
        <3> QED
            BY <2>1, <3>1
    <2> QED
        BY <2>2, <2>3, <2>4
<1>9. proc' \in [Callers -> Procs]
    BY <1>7, <1>8
<1> HIDE DEF Finish
<1> QED
    BY <1>2, <1>4, <1>5, <1>6, <1>8, <1>9

LEMMA FinishTypes ==
    ASSUME TypeOK, NEW m \in MsgIds, NEW d \in BOOLEAN, Finish(m, d), flight[m].at # "none",
           UNCHANGED <<memory, sessions, reserved, target, spawn>>, log' \in Logs,
           receipts' \in [MsgIds -> Nat], faults' \in 0 .. MaxFaults, UNCHANGED <<calls, crashes>>,
           damaged' \in BOOLEAN
    PROVE  TypeOK'
<1>1. board = "open"
    BY DEF TypeOK, NoFlights, NoFlight
<1>2. \A p \in Callers : proc'[p].at \in {"wait", "ack"} => proc'[p].msg \in MsgIds
    BY FinishIs DEF TypeOK
<1>3. /\ flight' \in [MsgIds -> Flights] /\ tail' \in [Team -> MsgIds \cup {0}]
      /\ proc' \in [Callers -> Procs] /\ call' \in Calls
    BY FinishIs
<1> QED
    BY <1>1, <1>2, <1>3 DEF TypeOK, memory

LEMMA MailCallTypes ==
    ASSUME TypeOK, (\E a, b \in Team : Message(a, b)) \/ SaveMail \/ SaveMailFails
    PROVE  TypeOK'
<1> USE DEF memory, disk, mail, bounds
<1>1. ASSUME NEW a \in Team, NEW b \in Team, Message(a, b) PROVE TypeOK'
    <2>1. PICK m \in MsgIds :
             /\ m = reserved.msg + 1 /\ reserved' = [task |-> reserved.task, msg |-> m]
             /\ live' \in Boards /\ call' \in Calls /\ target' = [target EXCEPT ![m] = b]
        BY <1>1, MessageIs
    <2>2. calls' \in 0 .. MaxCalls
        BY <1>1, CalledType DEF Message
    <2>3. reserved' \in [task : Nat, msg : Nat] /\ target' \in [MsgIds -> Team \cup {Nobody}]
        BY <2>1 DEF TypeOK
    <2>4. /\ UNCHANGED <<handles, agents, board, unbound, log, sessions, receipts, mail, spawn, damaged>>
          /\ UNCHANGED <<faults, crashes>> /\ board = "open"
        BY <1>1 DEF Message, Called
    <2> QED
        BY <2>1, <2>2, <2>3, <2>4 DEF TypeOK
<1>2. CASE SaveMail
    <2>1. call.id \in MsgIds /\ call.to \in Team /\ log \in Logs /\ board = "open"
        BY <1>2, CallIs DEF SaveMail, TypeOK, NoCall
    <2>2. log' \in Logs
        BY <1>2, <2>1, ApplyQueuedIs DEF SaveMail
    <2>3. call' \in Calls
        BY <1>2 DEF SaveMail, Calls
    <2>4. /\ proc' \in [Callers -> Procs]
          /\ \A p \in Callers : proc'[p].at \in {"wait", "ack"} => proc'[p].msg \in MsgIds
        <3>1. [at |-> "list", msg |-> 0, list |-> {call.id}] \in Procs
            BY <2>1 DEF Procs
        <3> QED
            BY <1>2, <3>1 DEF SaveMail, TypeOK
    <2>5. UNCHANGED <<memory, sessions, reserved, receipts, target, flight, tail, spawn, bounds, damaged>>
        BY <1>2 DEF SaveMail
    <2> QED
        BY <2>1, <2>2, <2>3, <2>4, <2>5 DEF TypeOK
<1>3. CASE SaveMailFails
    <2>1. live' \in Boards /\ handles' \subseteq Mates
        BY <1>3, CallIs, RollbackIs DEF SaveMailFails
    <2>2. faults' \in 0 .. MaxFaults /\ damaged' \in BOOLEAN
        BY <1>3, FaultType DEF SaveMailFails
    <2> QED
        BY <1>3, <2>1, <2>2, Constants DEF TypeOK, SaveMailFails, Fault
<1> QED
    BY <1>1, <1>2, <1>3

\* A step of one dispatch that goes on.
LEMMA FlightTypes ==
    ASSUME TypeOK, NEW m \in MsgIds, flight[m].at # "none", NEW at \in {"receipt", "enqueue", "record"},
           flight' = [flight EXCEPT ![m].at = at], receipts' \in [MsgIds -> Nat],
           UNCHANGED <<memory, log, sessions, reserved, target, call, proc, tail, spawn, bounds, damaged>>
    PROVE  TypeOK'
<1>1. board = "open"
    BY DEF TypeOK, NoFlights, NoFlight
<1>2. flight' \in [MsgIds -> Flights]
    BY DEF TypeOK, Flights
<1> QED
    BY <1>1, <1>2 DEF TypeOK, memory, bounds

LEMMA DispatchTypes ==
    ASSUME TypeOK, AddressInv, NEW p \in Callers, NEW m \in MsgIds, Dispatch(p, m)
    PROVE  TypeOK'
<1> USE DEF memory, disk, bounds
<1>1. proc \in [Callers -> Procs] /\ flight \in [MsgIds -> Flights] /\ tail \in [Team -> MsgIds \cup {0}]
    BY DEF TypeOK
<1>2. target[m] \in Team
    BY DEF Dispatch, AddressInv
<1>3. /\ proc' \in [Callers -> Procs]
      /\ \A q \in Callers : proc'[q].at \in {"wait", "ack"} => proc'[q].msg \in MsgIds
    <2> DEFINE y == [at |-> "wait", msg |-> m, list |-> proc[p].list \ {m}]
    <2>1. y \in Procs
        BY <1>1 DEF Procs
    <2>2. proc' = [proc EXCEPT ![p] = y]
        BY <1>1 DEF Dispatch
    <2>3. y.at = "wait" /\ y.msg = m
        OBVIOUS
    <2> HIDE DEF y
    <2> QED
        BY <1>1, <2>1, <2>2, <2>3 DEF TypeOK
<1>4. flight' \in [MsgIds -> Flights] /\ tail' \in [Team -> MsgIds \cup {0}]
    <2>1. CASE flight[m] # NoFlight
        BY <1>1, <2>1 DEF Dispatch
    <2>2. CASE flight[m] = NoFlight
        <3>1. [at |-> "fence", after |-> tail[target[m]]] \in Flights
            BY <1>1, <1>2 DEF Flights
        <3>2. flight' = [flight EXCEPT ![m] = [at |-> "fence", after |-> tail[target[m]]]]
              /\ tail' = [tail EXCEPT ![target[m]] = m]
            BY <2>2 DEF Dispatch
        <3> QED
            BY <1>1, <1>2, <3>1, <3>2
    <2> QED
        BY <2>1, <2>2
<1>5. board = "open"
    BY DEF Dispatch, TypeOK, Idle, NoProc
<1>6. UNCHANGED <<memory, disk, call, spawn, bounds, damaged>>
    BY DEF Dispatch
<1> QED
    BY <1>3, <1>4, <1>5, <1>6 DEF TypeOK

LEMMA AckIs ==
    ASSUME TypeOK, NEW p \in Callers, Ack(p)
    PROVE  \E m \in MsgIds :
             /\ m = proc[p].msg
             /\ (log' = log /\ Recorded(m)) \/ (log' = ApplyDelivered(log, m) /\ ~Recorded(m))
             /\ \/ live' = live
                \/ /\ live.msgs[m].state # "absent" /\ live' \in Boards
                   /\ live'.tasks = live.tasks /\ live'.rows = live.rows
                   /\ live'.msgs = [live.msgs EXCEPT ![m] = [to |-> live.msgs[m].to, state |-> "delivered"]]
             /\ proc' \in [Callers -> Procs]
             /\ \A q \in Callers : /\ proc'[q].list \subseteq proc[q].list
                                   /\ proc'[q].at \in {"wait", "ack"} => proc'[q] = proc[q]
<1> DEFINE m == proc[p].msg
<1>1. m \in MsgIds /\ live \in Boards /\ proc[p] \in Procs /\ proc \in [Callers -> Procs]
    BY DEF Ack, TypeOK
<1>2. (log' = log /\ Recorded(m)) \/ (log' = ApplyDelivered(log, m) /\ ~Recorded(m))
    BY DEF Ack
<1>3. \/ live' = live
      \/ /\ live.msgs[m].state # "absent" /\ live' \in Boards
         /\ live'.tasks = live.tasks /\ live'.rows = live.rows
         /\ live'.msgs = [live.msgs EXCEPT ![m] = [to |-> live.msgs[m].to, state |-> "delivered"]]
    <2>1. \/ live' = live
          \/ live.msgs[m].state # "absent" /\ live' = WithAck(live, m)
        BY DEF Ack, WithAck
    <2> HIDE DEF m
    <2>2. CASE live.msgs[m].state # "absent" /\ live' = WithAck(live, m)
        BY <1>1, <2>2, BoardWithAck
    <2> QED
        BY <2>1, <2>2
<1> DEFINE y == IF live.msgs[m].state = "absent" THEN NoProc ELSE Proceed(proc[p])
<1>4. y \in Procs /\ y.at \in {"idle", "list"} /\ y.list \subseteq proc[p].list
    <2>1. NoProc \in Procs /\ NoProc.at = "idle" /\ NoProc.list = {}
        BY Constants DEF NoProc
    <2> QED
        BY <1>1, <2>1, ProceedIs
<1>5. proc' = [proc EXCEPT ![p] = y]
    BY <1>1 DEF Ack
<1> HIDE DEF y, m
<1>6. \A q \in Callers : proc'[q] = IF q = p THEN y ELSE proc[q]
    BY <1>1, <1>5
<1>7. proc' \in [Callers -> Procs]
    BY <1>1, <1>4, <1>5
<1>8. \A q \in Callers : /\ proc'[q].list \subseteq proc[q].list
                         /\ proc'[q].at \in {"wait", "ack"} => proc'[q] = proc[q]
    BY <1>4, <1>6
<1> QED
    BY <1>1, <1>2, <1>3, <1>7, <1>8 DEF m

LEMMA AckTypes ==
    ASSUME TypeOK, NEW p \in Callers, Ack(p)
    PROVE  TypeOK'
<1>1. PICK m \in MsgIds :
             /\ log' = log \/ log' = ApplyDelivered(log, m)
             /\ live' = live \/ live' \in Boards
             /\ proc' \in [Callers -> Procs]
             /\ \A q \in Callers : proc'[q].at \in {"wait", "ack"} => proc'[q] = proc[q]
    BY AckIs
<1>2. log' \in Logs /\ live' \in Boards
    BY <1>1, ApplyDeliveredIs DEF TypeOK
<1>3. call' \in Calls
    BY ToolEndsIs DEF Ack
<1>4. board = "open"
    BY DEF Ack, TypeOK, Idle, NoProc
<1>5. UNCHANGED <<handles, agents, board, unbound, sessions, reserved, receipts, target, flight, tail,
                  spawn, bounds, damaged>>
    BY DEF Ack
<1>6. \A q \in Callers : proc'[q].at \in {"wait", "ack"} => proc'[q].msg \in MsgIds
    BY <1>1 DEF TypeOK
<1> QED
    BY <1>1, <1>2, <1>3, <1>4, <1>5, <1>6 DEF TypeOK, bounds

LEMMA MailTypes ==
    ASSUME TypeOK, AddressInv,
           \/ \E v \in Visitors, a \in Team : Visit(v, a)
           \/ MailStep \/ \E m \in MsgIds : Cancelled(m)
    PROVE  TypeOK'
<1> USE DEF memory, disk, bounds
<1>0. faults \in 0 .. MaxFaults /\ log \in Logs /\ receipts \in [MsgIds -> Nat] /\ damaged \in BOOLEAN
    BY DEF TypeOK
<1>1. ASSUME NEW v \in Visitors, NEW a \in Team, Visit(v, a) PROVE TypeOK'
    <2> DEFINE y == [at |-> "list", msg |-> 0, list |-> PendingTo(live.msgs, a)]
    <2>1. y \in Procs /\ y.at = "list"
        BY DEF Procs, PendingTo
    <2>2. proc' = [proc EXCEPT ![v] = y] /\ board = "open" /\ v \in Callers
        BY <1>1 DEF Visit, Callers
    <2> HIDE DEF y
    <2>3. /\ proc' \in [Callers -> Procs]
          /\ \A q \in Callers : proc'[q].at \in {"wait", "ack"} => proc'[q].msg \in MsgIds
        BY <2>1, <2>2 DEF TypeOK
    <2>4. UNCHANGED <<memory, disk, call, flight, tail, spawn, bounds, damaged>>
        BY <1>1 DEF Visit
    <2> QED
        BY <2>2, <2>3, <2>4 DEF TypeOK
<1>2. ASSUME NEW p \in Callers, Ack(p) PROVE TypeOK'
    BY <1>2, AckTypes
<1>3. ASSUME NEW p \in Callers, NEW m \in MsgIds, Dispatch(p, m) PROVE TypeOK'
    BY <1>3, DispatchTypes
<1>4. ASSUME NEW m \in MsgIds, Cancelled(m) PROVE TypeOK'
    <2>1. /\ flight[m].at # "none" /\ Finish(m, FALSE) /\ FALSE \in BOOLEAN /\ faults' \in 0 .. MaxFaults
          /\ UNCHANGED <<memory, disk, spawn, damaged, calls, crashes>>
        BY <1>4, FaultType DEF Cancelled, Fault
    <2> QED
        BY <1>0, <2>1, FinishTypes
<1>5. ASSUME NEW m \in MsgIds, Lookup(m) PROVE TypeOK'
    <2>1. flight[m].at # "none" /\ UNCHANGED <<memory, disk, spawn, bounds, damaged>>
        BY <1>5 DEF Lookup
    <2>2. CASE flight' = [flight EXCEPT ![m].at = "receipt"] /\ UNCHANGED <<call, proc, tail>>
        BY <1>0, <2>1, <2>2, FlightTypes
    <2>3. CASE Finish(m, FALSE)
        <3>1. FALSE \in BOOLEAN
            OBVIOUS
        <3> QED
            BY <1>0, <2>1, <2>3, <3>1, FinishTypes
    <2> QED
        BY <1>5, <2>2, <2>3 DEF Lookup
<1>6. ASSUME NEW m \in MsgIds, Receipt(m) PROVE TypeOK'
    <2>1. /\ flight[m].at # "none" /\ UNCHANGED <<memory, disk, call, proc, tail, spawn, bounds, damaged>>
          /\ \/ flight' = [flight EXCEPT ![m].at = "record"]
             \/ flight' = [flight EXCEPT ![m].at = "enqueue"]
        BY <1>6 DEF Receipt
    <2> QED
        BY <1>0, <2>1, FlightTypes
<1>7. ASSUME NEW m \in MsgIds, Enqueue(m) PROVE TypeOK'
    <2>1. flight[m].at # "none" /\ UNCHANGED <<memory, log, sessions, reserved, target, spawn, damaged>>
        BY <1>7 DEF Enqueue
    <2>2. CASE /\ receipts' = [receipts EXCEPT ![m] = @ + 1]
               /\ flight' = [flight EXCEPT ![m].at = "record"] /\ UNCHANGED <<call, proc, tail, bounds>>
        <3>1. receipts' \in [MsgIds -> Nat]
            BY <1>0, <2>2
        <3> QED
            BY <2>1, <2>2, <3>1, FlightTypes
    <2>3. CASE Finish(m, FALSE) /\ UNCHANGED <<receipts, bounds>>
        <3>1. FALSE \in BOOLEAN
            OBVIOUS
        <3> QED
            BY <1>0, <2>1, <2>3, <3>1, FinishTypes
    <2>4. CASE Fault /\ Finish(m, FALSE) /\ UNCHANGED receipts
        <3>1. FALSE \in BOOLEAN /\ faults' \in 0 .. MaxFaults /\ UNCHANGED <<calls, crashes>>
            BY <2>4, FaultType DEF Fault
        <3> QED
            BY <1>0, <2>1, <2>4, <3>1, FinishTypes
    <2> QED
        BY <1>7, <2>2, <2>3, <2>4 DEF Enqueue
<1>8. ASSUME NEW m \in MsgIds, Record(m) PROVE TypeOK'
    <2>1. flight[m].at # "none" /\ UNCHANGED <<memory, sessions, reserved, receipts, target, spawn>>
        BY <1>8 DEF Record
    <2>2. CASE /\ log' = IF Recorded(m) THEN log ELSE ApplyDelivered(log, m)
               /\ damaged' = (damaged \/ log.msgs[m].state = "absent")
               /\ Finish(m, TRUE) /\ UNCHANGED bounds
        <3>1. log' \in Logs /\ damaged' \in BOOLEAN /\ TRUE \in BOOLEAN
            BY <1>0, <2>2, ApplyDeliveredIs
        <3> QED
            BY <1>0, <2>1, <2>2, <3>1, FinishTypes
    <2>3. CASE ~Recorded(m) /\ Fault /\ Finish(m, FALSE) /\ UNCHANGED <<log, damaged>>
        <3>1. FALSE \in BOOLEAN /\ faults' \in 0 .. MaxFaults /\ UNCHANGED <<calls, crashes>>
            BY <2>3, FaultType DEF Fault
        <3> QED
            BY <1>0, <2>1, <2>3, <3>1, FinishTypes
    <2> QED
        BY <1>8, <2>2, <2>3 DEF Record
<1> QED
    BY <1>1, <1>2, <1>3, <1>4, <1>5, <1>6, <1>7, <1>8 DEF MailStep

LEMMA TransitionIs ==
    ASSUME TypeOK, NEW a \in Mates, NEW phase \in {"active", "failed"}, Transition(a, phase)
    PROVE  /\ log' \in Logs /\ log'.tasks = log.tasks /\ log'.msgs = log.msgs
           /\ log'.rows = [log.rows EXCEPT ![a] = phase]
           /\ log'.ok <=> log.ok /\ log.rows[a] = "provisioning"
<1>1. log \in Logs /\ phase \in Phases /\ log' = ApplyMember(log, a, phase) /\ phase # "provisioning"
    BY DEF TypeOK, Transition, Phases
<1> QED
    BY <1>1, ApplyMemberIs

LEMMA ProvisionIs ==
    ASSUME TypeOK, NEW a \in Mates, Provision(a)
    PROVE  /\ log' \in Logs /\ log'.tasks = log.tasks /\ log'.msgs = log.msgs
           /\ log'.rows = [log.rows EXCEPT ![a] = "provisioning"] /\ log'.ok = log.ok
           /\ spawn' \in Spawns /\ spawn' # NoCall /\ spawn'.at = "spawn" /\ spawn'.who = a /\ spawn'.before = live
<1>1. log \in Logs /\ "provisioning" \in Phases /\ log' = ApplyMember(log, a, "provisioning") /\ log.rows[a] = "none"
    BY DEF TypeOK, Provision, Phases
<1>2. /\ log' \in Logs /\ log'.tasks = log.tasks /\ log'.msgs = log.msgs
      /\ log'.rows = [log.rows EXCEPT ![a] = "provisioning"] /\ (log'.ok <=> log.ok)
    BY <1>1, ApplyMemberIs
<1>3. log'.ok = log.ok
    BY <1>1, <1>2, LogParts
<1>4. spawn' = [at |-> "spawn", who |-> a, before |-> live]
    BY DEF Provision
<1>5. /\ spawn' \in Spawns /\ spawn'.at = "spawn" /\ spawn'.who = a /\ spawn'.before = live
    BY <1>4 DEF TypeOK, Spawns
<1>6. spawn' # NoCall
    BY <1>5 DEF NoCall
<1> QED
    BY <1>2, <1>3, <1>5, <1>6

\* Roster.Spawn goes on to its next stage.
LEMMA SpawnNextIs ==
    ASSUME TypeOK, spawn # NoCall, NEW at \in {"start", "active", "failed"}, spawn' = [spawn EXCEPT !.at = at]
    PROVE  /\ spawn' \in Spawns /\ spawn' # NoCall /\ spawn'.at = at
           /\ spawn'.who = spawn.who /\ spawn'.before = spawn.before
<1>1. spawn \in [at : {"spawn", "start", "active", "failed"}, who : Mates, before : Boards]
    BY SpawnIs
<1>2. /\ spawn' \in [at : {"spawn", "start", "active", "failed"}, who : Mates, before : Boards]
      /\ spawn'.at = at /\ spawn'.who = spawn.who /\ spawn'.before = spawn.before
    BY <1>1
<1> QED
    BY <1>2 DEF Spawns, NoCall

LEMMA PublishIs ==
    ASSUME TypeOK, Publish \/ Started \/ StartFails
    PROVE  /\ spawn # NoCall /\ spawn.who \in Mates /\ spawn' \in Spawns /\ spawn' # NoCall
           /\ spawn'.who = spawn.who /\ spawn'.before = spawn.before
           /\ live' \in Boards /\ live'.tasks = live.tasks /\ live'.msgs = live.msgs
           /\ \/ Publish /\ spawn'.at = "start" /\ live'.rows = [live.rows EXCEPT ![spawn.who] = "provisioning"]
              \/ Started /\ spawn'.at = "active" /\ live'.rows = [live.rows EXCEPT ![spawn.who] = "active"]
              \/ StartFails /\ spawn'.at = "failed" /\ live'.rows = [live.rows EXCEPT ![spawn.who] = "failed"]
<1>1. spawn # NoCall /\ spawn.who \in Mates /\ live \in Boards
    BY SpawnIs DEF Publish, Started, StartFails, NoCall, TypeOK
<1>2. {"provisioning", "active", "failed"} \subseteq Phases
    BY DEF Phases
<1>3. CASE Publish
    <2>1. spawn' = [spawn EXCEPT !.at = "start"] /\ live' = WithRow(live, spawn.who, "provisioning")
        BY <1>3 DEF Publish, WithRow
    <2> QED
        BY <1>1, <1>2, <1>3, <2>1, SpawnNextIs, BoardWithRow
<1>4. CASE Started
    <2>1. spawn' = [spawn EXCEPT !.at = "active"] /\ live' = WithRow(live, spawn.who, "active")
        BY <1>4 DEF Started, WithRow
    <2> QED
        BY <1>1, <1>2, <1>4, <2>1, SpawnNextIs, BoardWithRow
<1>5. CASE StartFails
    <2>1. spawn' = [spawn EXCEPT !.at = "failed"] /\ live' = WithRow(live, spawn.who, "failed")
        BY <1>5 DEF StartFails, WithRow
    <2> QED
        BY <1>1, <1>2, <1>5, <2>1, SpawnNextIs, BoardWithRow
<1> QED
    BY <1>3, <1>4, <1>5

LEMMA SpawnTypes ==
    ASSUME TypeOK, (\E a \in Mates : Provision(a)) \/ SpawnStep \/ StartFails \/ SaveActiveFails
    PROVE  TypeOK'
<1> USE DEF memory, disk, mail, bounds
<1>1. ASSUME NEW a \in Mates, Provision(a) PROVE TypeOK'
    <2>1. log' \in Logs /\ spawn' \in Spawns
        BY <1>1, ProvisionIs
    <2>2. sessions' \subseteq Mates /\ board = "open"
        BY <1>1 DEF Provision, TypeOK
    <2>3. UNCHANGED <<memory, reserved, receipts, target, call, mail, bounds, damaged>>
        BY <1>1 DEF Provision
    <2> QED
        BY <2>1, <2>2, <2>3 DEF TypeOK
<1>2. CASE Publish \/ Started \/ StartFails
    <2>1. live' \in Boards /\ spawn' \in Spawns /\ spawn # NoCall /\ spawn.who \in Mates
        BY <1>2, PublishIs
    <2>2. handles' \subseteq Mates /\ agents' \subseteq Mates
        BY <1>2, <2>1 DEF Publish, Started, StartFails, TypeOK
    <2>3. faults' \in 0 .. MaxFaults /\ UNCHANGED <<calls, crashes>>
        BY <1>2, FaultType DEF Publish, Started, StartFails, TypeOK, Fault
    <2>4. UNCHANGED <<board, unbound, disk, call, mail, damaged>>
        BY <1>2 DEF Publish, Started, StartFails
    <2>5. board = "open"
        BY <2>1 DEF TypeOK
    <2> QED
        BY <2>1, <2>2, <2>3, <2>4, <2>5 DEF TypeOK
<1>3. CASE SaveActive
    <2>1. spawn # NoCall
        BY <1>3 DEF SaveActive, NoCall
    <2>2. spawn.who \in Mates /\ board = "open" /\ "active" \in {"active", "failed"}
        BY <2>1, SpawnIs DEF TypeOK
    <2>3. log' \in Logs
        BY <1>3, <2>2, TransitionIs DEF SaveActive
    <2>4. spawn' \in Spawns /\ UNCHANGED <<memory, sessions, reserved, receipts, target, call, mail, bounds, damaged>>
        BY <1>3, Constants DEF SaveActive
    <2> QED
        BY <2>2, <2>3, <2>4 DEF TypeOK
<1>4. CASE SaveActiveFails
    <2>1. spawn # NoCall
        BY <1>4 DEF SaveActiveFails, NoCall
    <2>2. spawn.before \in Boards
        BY <2>1, SpawnIs
    <2>3. live' \in Boards /\ handles' \subseteq Mates
        BY <1>4, <2>2, RollbackIs DEF SaveActiveFails
    <2>4. /\ faults' \in 0 .. MaxFaults /\ UNCHANGED <<calls, crashes>>
          /\ agents' \subseteq Mates /\ sessions' \subseteq Mates /\ spawn' \in Spawns /\ damaged' \in BOOLEAN
        BY <1>4, FaultType, Constants DEF SaveActiveFails, Fault, TypeOK
    <2>5. UNCHANGED <<board, unbound, log, reserved, receipts, target, call, mail>> /\ board = "open"
        BY <1>4, <2>1 DEF SaveActiveFails, TypeOK
    <2> QED
        BY <2>3, <2>4, <2>5 DEF TypeOK
<1>5. CASE SaveFailed
    <2>1. spawn # NoCall
        BY <1>5 DEF SaveFailed, NoCall
    <2>2. spawn.who \in Mates /\ board = "open" /\ "failed" \in {"active", "failed"}
        BY <2>1, SpawnIs DEF TypeOK
    <2>3. log' \in Logs /\ damaged' \in BOOLEAN /\ faults' \in 0 .. MaxFaults /\ UNCHANGED <<calls, crashes>>
        <3>1. CASE Transition(spawn.who, "failed") /\ UNCHANGED <<bounds, damaged>>
            BY <2>2, <3>1, TransitionIs DEF TypeOK
        <3>2. CASE Fault /\ damaged' = TRUE /\ UNCHANGED log
            BY <3>2, FaultType DEF Fault, TypeOK
        <3> QED
            BY <1>5, <3>1, <3>2 DEF SaveFailed
    <2>4. /\ spawn' \in Spawns /\ sessions' \subseteq Mates
          /\ UNCHANGED <<memory, reserved, receipts, target, call, mail>>
        BY <1>5, Constants DEF SaveFailed, TypeOK
    <2> QED
        BY <2>2, <2>3, <2>4 DEF TypeOK
<1> QED
    BY <1>1, <1>2, <1>3, <1>4, <1>5 DEF SpawnStep

LEMMA RowIs ==
    ASSUME TypeOK, NEW a \in Mates, NEW phase \in {"active", "failed"}, Row(a, phase)
    PROVE  /\ live' \in Boards /\ live'.tasks = live.tasks /\ live'.msgs = live.msgs
           /\ live'.rows = [live.rows EXCEPT ![a] = phase]
<1>1. live' = WithRow(live, a, phase) /\ live \in Boards /\ phase \in Phases
    BY DEF Row, WithRow, TypeOK, Phases
<1> QED
    BY <1>1, BoardWithRow

LEMMA OpenTypes ==
    ASSUME TypeOK, OpenStep \/ \E a \in Mates : BindFails(a) \/ Unbindable(a)
    PROVE  TypeOK'
<1> USE DEF memory, disk, mail, bounds
<1>1. CASE Open
    <2>1. live' \in Boards
        BY <1>1, BoardFromLog DEF Open, TypeOK
    <2>2. /\ board = "absent" /\ board' = "binding" /\ handles' \subseteq Mates /\ unbound' \subseteq Mates
          /\ UNCHANGED <<agents, disk, call, mail, spawn, bounds, damaged>>
        BY <1>1 DEF Open, ToBind
    <2> QED
        BY <2>1, <2>2 DEF TypeOK
<1>2. CASE Opened
    BY <1>2 DEF Opened, TypeOK
<1>3. ASSUME NEW a \in Mates, Bind(a) PROVE TypeOK'
    <2>1. live' \in Boards
        BY <1>3, RowIs DEF Bind
    <2>2. log' \in Logs
        <3>1. "active" \in {"active", "failed"}
            OBVIOUS
        <3> QED
            BY <1>3, <3>1, TransitionIs DEF Bind, TypeOK
    <2>3. /\ handles' \subseteq Mates /\ agents' \subseteq Mates /\ unbound' \subseteq Mates
          /\ UNCHANGED <<board, sessions, reserved, receipts, target, call, mail, spawn, bounds, damaged>>
        BY <1>3 DEF Bind, TypeOK
    <2> QED
        BY <2>1, <2>2, <2>3 DEF TypeOK
<1>4. ASSUME NEW a \in Mates, BindFails(a) PROVE TypeOK'
    <2>1. live' \in Boards /\ log' \in Logs
        BY <1>4, RowIs, TransitionIs DEF BindFails
    <2>2. faults' \in 0 .. MaxFaults /\ UNCHANGED <<calls, crashes>>
        BY <1>4, FaultType DEF BindFails, Fault, TypeOK
    <2>3. /\ unbound' \subseteq Mates /\ damaged' \in BOOLEAN
          /\ UNCHANGED <<handles, agents, board, sessions, reserved, receipts, target, call, mail, spawn>>
        BY <1>4 DEF BindFails, TypeOK
    <2> QED
        BY <2>1, <2>2, <2>3 DEF TypeOK
<1>5. ASSUME NEW a \in Mates, Unbindable(a) PROVE TypeOK'
    <2>1. faults' \in 0 .. MaxFaults /\ UNCHANGED <<calls, crashes>> /\ agents' \subseteq Mates
        BY <1>5, FaultType DEF Unbindable, Fault, TypeOK
    <2>2. /\ board = "binding" /\ board' = "absent" /\ live' = NewBoard /\ handles' = {} /\ unbound' = {}
          /\ UNCHANGED <<disk, call, mail, spawn, damaged>>
        BY <1>5 DEF Unbindable
    <2> QED
        BY <2>1, <2>2, Constants DEF TypeOK
<1> QED
    BY <1>1, <1>2, <1>3, <1>4, <1>5 DEF OpenStep

LEMMA CrashTypes == ASSUME TypeOK, Crash PROVE TypeOK'
<1>1. /\ crashes' \in 0 .. MaxCrashes /\ live' = NewBoard /\ handles' = {} /\ agents' = {}
      /\ board' = "absent" /\ unbound' = {} /\ call' = NoCall /\ proc' = Idle /\ flight' = NoFlights
      /\ tail' = [a \in Team |-> 0] /\ spawn' = NoCall /\ UNCHANGED <<disk, calls, faults, damaged>>
    BY TeamAssumption DEF Crash, TypeOK
<1>2. \A p \in Callers : ~ (Idle[p].at \in {"wait", "ack"})
    BY DEF Idle, NoProc
<1> QED
    BY <1>1, <1>2, Constants DEF TypeOK, disk

LEMMA InitTypes == Init => TypeOK
<1> SUFFICES ASSUME Init PROVE TypeOK
    OBVIOUS
<1>1. live = NewBoard /\ log = [tasks |-> NoTasks, msgs |-> NoMsgs, rows |-> NoRows, ok |-> TRUE]
    BY DEF Init
<1>2. log \in Logs
    BY <1>1, Constants DEF Logs, NoTasks, NoMsgs, NoRows, Phases
<1>3. \A p \in Callers : ~ (Idle[p].at \in {"wait", "ack"})
    BY DEF Idle, NoProc
<1>4. /\ calls \in 0 .. MaxCalls /\ faults \in 0 .. MaxFaults /\ crashes \in 0 .. MaxCrashes
      /\ damaged \in BOOLEAN /\ reserved \in [task : Nat, msg : Nat] /\ receipts \in [MsgIds -> Nat]
    <2>1. MaxCalls \in Nat /\ MaxFaults \in Nat /\ MaxCrashes \in Nat
        BY TeamAssumption
    <2>2. /\ calls = 0 /\ faults = 0 /\ crashes = 0 /\ damaged = FALSE /\ reserved = [task |-> 0, msg |-> 0]
          /\ receipts = [m \in MsgIds |-> 0]
        BY DEF Init
    <2>3. calls \in 0 .. MaxCalls /\ faults \in 0 .. MaxFaults /\ crashes \in 0 .. MaxCrashes
        BY <2>1, <2>2
    <2>4. damaged \in BOOLEAN /\ reserved \in [task : Nat, msg : Nat]
        BY <2>2
    <2>5. receipts \in [MsgIds -> Nat]
        BY <2>2
    <2> QED
        BY <2>3, <2>4, <2>5
<1>5. /\ target \in [MsgIds -> Team \cup {Nobody}] /\ tail \in [Team -> MsgIds \cup {0}]
      /\ handles = {} /\ agents = {} /\ unbound = {} /\ sessions = {} /\ board = "absent"
    BY DEF Init
<1>6. call = NoCall /\ spawn = NoCall /\ proc = Idle /\ flight = NoFlights
    BY DEF Init
<1> QED
    BY <1>1, <1>2, <1>3, <1>4, <1>5, <1>6, Constants DEF TypeOK

LEMMA NextTypes == ASSUME TypeOK, AddressInv, [Next]_vars PROVE TypeOK'
<1>1. CASE UNCHANGED vars
    BY <1>1 DEF vars, memory, disk, mail, bounds, TypeOK
<1> QED
    BY <1>1, TaskTypes, MailCallTypes, MailTypes, SpawnTypes, OpenTypes, CrashTypes DEF Next, ToolStep

-----------------------------------------------------------------------------
(* Steps that deliver nothing.                                             *)

\* No message is queued or received, and no caller is told so; the board may
\* go back to a snapshot, to the log or to nothing.
MailKept ==
    /\ UNCHANGED <<target, receipts>> /\ reserved'.msg = reserved.msg
    /\ log'.msgs = log.msgs /\ (log'.ok => log.ok)
    /\ \/ live'.msgs \in {live.msgs, NoMsgs}
       \/ \E b \in Snapshots : live'.msgs = b.msgs
       \/ log.ok /\ live'.msgs = log.msgs
    /\ \A b \in Snapshots' : b \in Snapshots \/ b = live
    /\ call'.at = "mail" => call' = call
    /\ \A p \in Callers : /\ proc'[p].list \subseteq proc[p].list
                          /\ proc'[p].at = "ack" => proc[p].at = "ack" /\ proc'[p].msg = proc[p].msg
    /\ \A m \in MsgIds : flight'[m].at \in {flight[m].at, "none", "fence", "receipt"}

LEMMA NoMail0 == Addressed(NoMsgs, target, reserved.msg) /\ Delivered(NoMsgs) = {} /\ Known(NoMsgs) = {}
BY DEF Addressed, Delivered, Known, NoMsgs, NoMail

LEMMA MailKeptKeeps ==
    ASSUME MailInv, MailKept
    PROVE  MailInv'
<1>1. /\ target' = target /\ receipts' = receipts /\ reserved'.msg = reserved.msg
      /\ log'.msgs = log.msgs /\ (log'.ok => log.ok)
    BY DEF MailKept
<1>2. \A b \in Snapshots' : b \in Snapshots \/ b = live
    BY DEF MailKept
<1>3. Addressed(live'.msgs, target, reserved.msg) /\ Delivered(live'.msgs) \subseteq Delivered(log.msgs)
    BY NoMail0 DEF MailKept, MailInv, AddressInv, DeliveredInv
<1>4. AddressInv'
    <2>1. call'.at = "mail" => call'.to = target[call'.id] /\ call'.id <= reserved.msg
        BY DEF MailKept, MailInv, AddressInv
    <2>2. \A p \in Callers : \A m \in proc'[p].list : target[m] \in Team
        BY DEF MailKept, MailInv, AddressInv
    <2>3. \A b \in Snapshots' : Addressed(b.msgs, target, reserved.msg)
        BY <1>2 DEF MailInv, AddressInv
    <2>4. log'.ok => Addressed(log'.msgs, target, reserved.msg)
        BY <1>1 DEF MailInv, AddressInv
    <2> QED
        BY <1>1, <1>3, <2>1, <2>2, <2>3, <2>4 DEF AddressInv
<1>5. ReceiptInv'
    <2>1. \A m \in MsgIds : flight'[m].at \in {"enqueue", "record"} => flight'[m].at = flight[m].at
        BY DEF MailKept
    <2>2. \A p \in Callers : proc'[p].at = "ack" => proc[p].at = "ack" /\ proc'[p].msg = proc[p].msg
        BY DEF MailKept
    <2> QED
        BY <1>1, <2>1, <2>2 DEF MailInv, ReceiptInv
<1>6. DeliveredInv'
    BY <1>1, <1>2, <1>3 DEF MailInv, DeliveredInv
<1> QED
    BY <1>4, <1>5, <1>6 DEF MailInv

\* Where the next snapshots come from.
LEMMA NextSnapshots ==
    ASSUME call' = call \/ call'.at \notin {"task", "mail"} \/ call'.before = live,
           \/ spawn' = spawn \/ spawn' = NoCall \/ spawn'.before = live
           \/ spawn # NoCall /\ spawn'.before = spawn.before
    PROVE  \A b \in Snapshots' : b \in Snapshots \/ b = live
BY DEF Snapshots

LEMMA QuietMail ==
    ASSUME UNCHANGED <<proc, flight>>
    PROVE  /\ \A p \in Callers : /\ proc'[p].list \subseteq proc[p].list
                                 /\ proc'[p].at = "ack" => proc[p].at = "ack" /\ proc'[p].msg = proc[p].msg
           /\ \A m \in MsgIds : flight'[m].at \in {flight[m].at, "none", "fence", "receipt"}
OBVIOUS

LEMMA SaveTaskIs ==
    ASSUME TypeOK, SaveTask
    PROVE  /\ log'.msgs = log.msgs /\ log'.rows = log.rows /\ log'.tasks = [log.tasks EXCEPT ![call.id] = call.task]
           /\ log'.ok <=> /\ log.ok /\ call.task.revision = log.tasks[call.id].revision + 1
                          /\ Edges(log.tasks, call.id, call.task.blockers)
           /\ call.at = "task" /\ call.id \in TaskIds /\ call.task \in Tasks
<1>1. call.at = "task" /\ log' = ApplyTask(log, call.id, call.task)
    BY DEF SaveTask
<1>2. call.id \in TaskIds /\ call.task \in Tasks /\ log \in Logs
    BY <1>1, CallIs DEF TypeOK
<1> QED
    BY <1>1, <1>2, ApplyTaskIs

LEMMA TaskKeepsMail ==
    ASSUME TypeOK,
           \/ \E a \in Team, blockers \in SUBSET TaskIds :
                TaskCreate(a, blockers) \/ \E t \in TaskIds : TaskUpdate(a, t, blockers)
           \/ SaveTask \/ SaveTaskFails \/ SaveMailFails
    PROVE  MailKept
<1> USE DEF memory, disk, mail
<1>1. ASSUME NEW a \in Team, NEW blockers \in SUBSET TaskIds, TaskCreate(a, blockers) PROVE MailKept
    <2>1. live'.msgs = live.msgs /\ call'.at = "task" /\ call'.before = live
        BY <1>1, CreateIs, StartIs, Zenon
    <2>2. reserved'.msg = reserved.msg
        BY <1>1, CreateIs
    <2>3. UNCHANGED <<log, receipts, target, mail, spawn>>
        BY <1>1 DEF TaskCreate
    <2> QED
        BY <2>1, <2>2, <2>3, NextSnapshots, QuietMail DEF MailKept
<1>2. ASSUME NEW a \in Team, NEW blockers \in SUBSET TaskIds, NEW t \in TaskIds, TaskUpdate(a, t, blockers)
      PROVE MailKept
    <2>1. live'.msgs = live.msgs /\ call'.at = "task" /\ call'.before = live
        <3>1. PICK task \in Tasks : Start(t, task)
            BY <1>2, UpdateIs
        <3> QED
            BY <3>1, StartIs
    <2>2. UNCHANGED <<disk, mail, spawn>>
        BY <1>2 DEF TaskUpdate
    <2> QED
        BY <2>1, <2>2, NextSnapshots, QuietMail DEF MailKept
<1>3. CASE SaveTask
    <2>1. log'.msgs = log.msgs /\ (log'.ok => log.ok)
        BY <1>3, SaveTaskIs
    <2>2. call'.at = "idle" /\ UNCHANGED <<memory, reserved, receipts, target, mail, spawn>>
        BY <1>3 DEF SaveTask, NoCall
    <2> QED
        BY <2>1, <2>2, NextSnapshots, QuietMail DEF MailKept
<1>4. CASE SaveTaskFails \/ SaveMailFails
    <2>1. call.before \in Boards /\ call.before \in Snapshots /\ Rollback(call.before)
        BY <1>4, CallIs DEF SaveTaskFails, SaveMailFails, Snapshots
    <2>2. live' \in {live, call.before}
        BY <2>1, RollbackIs
    <2>3. call'.at = "idle" /\ UNCHANGED <<disk, mail, spawn>>
        BY <1>4 DEF SaveTaskFails, SaveMailFails, NoCall
    <2> QED
        BY <2>1, <2>2, <2>3, NextSnapshots, QuietMail DEF MailKept
<1> QED
    BY <1>1, <1>2, <1>3, <1>4

LEMMA SpawnKeepsMail ==
    ASSUME TypeOK, (\E a \in Mates : Provision(a)) \/ SpawnStep \/ StartFails \/ SaveActiveFails
    PROVE  MailKept
<1> USE DEF memory, disk, mail
<1>1. ASSUME NEW a \in Mates, Provision(a) PROVE MailKept
    <2>1. log'.msgs = log.msgs /\ log'.ok = log.ok /\ spawn'.before = live
        BY <1>1, ProvisionIs
    <2>2. UNCHANGED <<memory, reserved, receipts, target, call, mail>>
        BY <1>1 DEF Provision
    <2> QED
        BY <2>1, <2>2, NextSnapshots, QuietMail DEF MailKept
<1>2. CASE Publish \/ Started \/ StartFails
    <2>1. live'.msgs = live.msgs /\ spawn # NoCall /\ spawn'.before = spawn.before
        BY <1>2, PublishIs
    <2>2. UNCHANGED <<disk, call, mail>>
        BY <1>2 DEF Publish, Started, StartFails
    <2> QED
        BY <2>1, <2>2, NextSnapshots, QuietMail DEF MailKept
<1>3. CASE SaveActive \/ SaveFailed
    <2>1. spawn # NoCall
        BY <1>3 DEF SaveActive, SaveFailed, NoCall
    <2>2. spawn.who \in Mates
        BY <2>1, SpawnIs
    <2>3. \/ log' = log \/ Transition(spawn.who, "active") \/ Transition(spawn.who, "failed")
        BY <1>3 DEF SaveActive, SaveFailed
    <2>4. log'.msgs = log.msgs /\ (log'.ok => log.ok)
        BY <2>2, <2>3, TransitionIs
    <2>5. spawn' = NoCall /\ UNCHANGED <<memory, reserved, receipts, target, call, mail>>
        BY <1>3 DEF SaveActive, SaveFailed
    <2> QED
        BY <2>4, <2>5, NextSnapshots, QuietMail DEF MailKept
<1>4. CASE SaveActiveFails
    <2>1. spawn # NoCall
        BY <1>4 DEF SaveActiveFails, NoCall
    <2>2. spawn.before \in Boards /\ spawn.before \in Snapshots
        BY <2>1, SpawnIs DEF Snapshots
    <2>3. live' \in {live, spawn.before}
        BY <1>4, <2>2, RollbackIs DEF SaveActiveFails
    <2>4. spawn' = NoCall /\ UNCHANGED <<log, reserved, receipts, target, call, mail>>
        BY <1>4 DEF SaveActiveFails
    <2> QED
        BY <2>2, <2>3, <2>4, NextSnapshots, QuietMail DEF MailKept
<1> QED
    BY <1>1, <1>2, <1>3, <1>4 DEF SpawnStep

LEMMA OpenKeepsMail ==
    ASSUME TypeOK, OpenStep \/ \E a \in Mates : BindFails(a) \/ Unbindable(a)
    PROVE  MailKept
<1> USE DEF memory, disk, mail
<1>0. NewBoard.msgs = NoMsgs
    BY DEF NewBoard
<1>1. CASE Open
    <2>1. log.ok /\ live'.msgs = log.msgs
        BY <1>1, BoardFromLog DEF Open, TypeOK
    <2>2. UNCHANGED <<disk, call, mail, spawn>>
        BY <1>1 DEF Open
    <2> QED
        BY <2>1, <2>2, NextSnapshots, QuietMail DEF MailKept
<1>2. CASE Opened
    <2>1. UNCHANGED <<live, disk, call, mail, spawn>>
        BY <1>2 DEF Opened
    <2> QED
        BY <2>1, NextSnapshots, QuietMail DEF MailKept
<1>3. ASSUME NEW a \in Mates, Bind(a) \/ BindFails(a) PROVE MailKept
    <2>1. live'.msgs = live.msgs
        BY <1>3, RowIs DEF Bind, BindFails
    <2>2. \/ log' = log \/ Transition(a, "active") \/ Transition(a, "failed")
        BY <1>3 DEF Bind, BindFails
    <2>3. log'.msgs = log.msgs /\ (log'.ok => log.ok)
        BY <2>2, TransitionIs
    <2>4. UNCHANGED <<sessions, reserved, receipts, target, call, mail, spawn>>
        BY <1>3 DEF Bind, BindFails
    <2> QED
        BY <2>1, <2>3, <2>4, NextSnapshots, QuietMail DEF MailKept
<1>4. ASSUME NEW a \in Mates, Unbindable(a) PROVE MailKept
    <2>1. live' = NewBoard /\ UNCHANGED <<disk, call, mail, spawn>>
        BY <1>4 DEF Unbindable
    <2> QED
        BY <1>0, <2>1, NextSnapshots, QuietMail DEF MailKept
<1> QED
    BY <1>1, <1>2, <1>3, <1>4 DEF OpenStep

LEMMA CrashKeepsMail == ASSUME TypeOK, Crash PROVE MailKept
<1>1. /\ live'.msgs = NoMsgs /\ call'.at = "idle" /\ spawn' = NoCall /\ proc' = Idle /\ flight' = NoFlights
      /\ UNCHANGED disk
    BY DEF Crash, NewBoard, NoCall
<1>2. \A p \in Callers : proc'[p].list = {} /\ proc'[p].at = "idle"
    BY <1>1 DEF Idle, NoProc
<1>3. \A m \in MsgIds : flight'[m].at = "none"
    BY <1>1 DEF NoFlights, NoFlight
<1> QED
    BY <1>1, <1>2, <1>3, NextSnapshots DEF MailKept, disk

\* A dispatch that ends without a receipt.
LEMMA FailedKeepsMail ==
    ASSUME TypeOK, NEW m \in MsgIds, Finish(m, FALSE), UNCHANGED <<live, disk, spawn>>
    PROVE  MailKept
<1>1. FALSE \in BOOLEAN
    OBVIOUS
<1>2. /\ call'.at \in {"task", "mail"} => call' = call
      /\ \A n \in MsgIds : flight'[n].at = IF n = m THEN "none" ELSE flight[n].at
      /\ \A p \in Callers :
                /\ proc'[p].list = proc[p].list
                /\ proc'[p].at \in {"wait", "ack"} => proc'[p].msg = proc[p].msg
                /\ proc'[p].at = "ack" => proc[p].at = "ack"
    BY <1>1, FinishIs
<1>3. \A b \in Snapshots' : b \in Snapshots \/ b = live
    BY <1>2, NextSnapshots
<1> HIDE DEF Finish
<1> QED
    BY <1>2, <1>3 DEF MailKept, disk

LEMMA DispatchKeepsMail ==
    ASSUME TypeOK, NEW m \in MsgIds,
           \/ \E p \in Callers : Dispatch(p, m)
           \/ Cancelled(m) \/ Lookup(m)
    PROVE  MailKept
<1> USE DEF memory, disk
<1>1. ASSUME NEW p \in Callers, Dispatch(p, m) PROVE MailKept
    <2>1. \A q \in Callers : /\ proc'[q].list \subseteq proc[q].list
                             /\ proc'[q].at = "ack" => proc[q].at = "ack" /\ proc'[q].msg = proc[q].msg
        BY <1>1 DEF Dispatch, TypeOK
    <2>2. \A n \in MsgIds : flight'[n].at \in {flight[n].at, "fence"}
        BY <1>1 DEF Dispatch, TypeOK
    <2>3. UNCHANGED <<memory, disk, call, spawn>>
        BY <1>1 DEF Dispatch
    <2> QED
        BY <2>1, <2>2, <2>3, NextSnapshots DEF MailKept
<1>2. CASE Cancelled(m)
    BY <1>2, FailedKeepsMail DEF Cancelled
<1>3. CASE Lookup(m)
    <2>1. UNCHANGED <<memory, disk, spawn>>
        BY <1>3 DEF Lookup
    <2>2. CASE Finish(m, FALSE)
        BY <2>1, <2>2, FailedKeepsMail
    <2>3. CASE flight' = [flight EXCEPT ![m].at = "receipt"] /\ UNCHANGED <<call, proc, tail>>
        <3>1. \A n \in MsgIds : flight'[n].at \in {flight[n].at, "receipt"}
            BY <2>3 DEF TypeOK, Flights
        <3> QED
            BY <2>1, <2>3, <3>1, NextSnapshots DEF MailKept
    <2> QED
        BY <1>3, <2>2, <2>3 DEF Lookup
<1> QED
    BY <1>1, <1>2, <1>3

-----------------------------------------------------------------------------
(* Steps that queue, deliver or acknowledge a message.                     *)

LEMMA MessageKeeps ==
    ASSUME TypeOK, MailInv, NEW a \in Team, NEW b \in Team, Message(a, b)
    PROVE  MailInv'
<1>1. PICK m \in MsgIds :
         /\ m = reserved.msg + 1 /\ reserved' = [task |-> reserved.task, msg |-> m]
         /\ live'.msgs = [live.msgs EXCEPT ![m] = [to |-> b, state |-> "pending"]]
         /\ call'.at = "mail" /\ call'.id = m /\ call'.to = b /\ call'.before = live
         /\ target' = [target EXCEPT ![m] = b]
    BY MessageIs
<1>2. UNCHANGED <<log, receipts, proc, flight, spawn>>
    BY DEF Message, mail
<1>3. reserved.msg \in Nat /\ target \in [MsgIds -> Team \cup {Nobody}] /\ m \in Nat /\ reserved'.msg = m
    BY <1>1 DEF TypeOK
<1>4. live.msgs \in [MsgIds -> Mail]
    BY BoardParts DEF TypeOK
<1>5. \A n \in MsgIds : target'[n] = IF n = m THEN b ELSE target[n]
    BY <1>1, <1>3
<1>6. \A n \in MsgIds : n <= reserved.msg => n # m /\ n <= m
    <2>1. \A n \in MsgIds : n \in Nat
        BY TeamAssumption
    <2>2. m = reserved.msg + 1
        BY <1>1
    <2> QED
        BY <1>3, <2>1, <2>2
<1>7. \A msgs : Addressed(msgs, target, reserved.msg) => Addressed(msgs, target', reserved'.msg)
    BY <1>3, <1>5, <1>6 DEF Addressed
<1>8. \A s \in Snapshots' : s \in Snapshots \/ s = live
    BY <1>1, <1>2, NextSnapshots
<1>9. /\ \A n \in MsgIds \ {m} : live'.msgs[n] = live.msgs[n]
      /\ live'.msgs[m].to = b /\ live'.msgs[m].state = "pending"
    BY <1>1, <1>4
<1>10. Addressed(live'.msgs, target', reserved'.msg)
    <2>1. Addressed(live.msgs, target', reserved'.msg)
        BY <1>7 DEF MailInv, AddressInv
    <2>2. m <= reserved'.msg /\ target'[m] = b
        BY <1>3, <1>5
    <2> SUFFICES ASSUME NEW n \in MsgIds, live'.msgs[n].state # "absent"
                 PROVE  live'.msgs[n].to = target'[n] /\ target'[n] \in Team /\ n <= reserved'.msg
        BY DEF Addressed
    <2>3. CASE n = m
        BY <1>9, <2>2, <2>3
    <2>4. CASE n # m
        <3>1. live'.msgs[n] = live.msgs[n]
            BY <1>9, <2>4
        <3> QED
            BY <2>1, <3>1 DEF Addressed
    <2> QED
        BY <2>3, <2>4
<1>11. AddressInv'
    <2>1. \A p \in Callers : \A n \in proc'[p].list : target'[n] \in Team
        <3>1. \A p \in Callers : \A n \in proc[p].list : n \in MsgIds
            BY DEF TypeOK, Procs
        <3> QED
            BY <1>2, <1>5, <3>1 DEF MailInv, AddressInv
    <2>2. \A s \in Snapshots' : Addressed(s.msgs, target', reserved'.msg)
        BY <1>7, <1>8 DEF MailInv, AddressInv
    <2>3. log'.ok => Addressed(log'.msgs, target', reserved'.msg)
        BY <1>2, <1>7 DEF MailInv, AddressInv
    <2>4. call'.to = target'[call'.id] /\ call'.id <= reserved'.msg
        BY <1>1, <1>3, <1>5
    <2> QED
        BY <1>10, <2>1, <2>2, <2>3, <2>4 DEF AddressInv
<1>12. ReceiptInv'
    BY <1>2 DEF MailInv, ReceiptInv
<1>13. DeliveredInv'
    <2>1. Delivered(live'.msgs) \subseteq Delivered(live.msgs)
        BY <1>9 DEF Delivered
    <2> QED
        BY <1>2, <1>8, <2>1 DEF MailInv, DeliveredInv
<1> QED
    BY <1>11, <1>12, <1>13 DEF MailInv

\* The queue event in the log.
LEMMA SaveMailIs ==
    ASSUME TypeOK, SaveMail
    PROVE  /\ log'.tasks = log.tasks /\ log'.rows = log.rows
           /\ call.at = "mail" /\ call.id \in MsgIds /\ call.to \in Team
           /\ \A n \in MsgIds \ {call.id} : log'.msgs[n] = log.msgs[n]
           /\ log'.msgs[call.id].to = call.to
           /\ log'.msgs[call.id].state = IF log.msgs[call.id].state = "absent" THEN "pending" ELSE log.msgs[call.id].state
           /\ log'.ok <=> /\ log.ok /\ log.msgs[call.id].state = "absent"
                          /\ Cardinality(PendingTo(log.msgs, call.to)) < MaxPending
<1>1. call.at = "mail" /\ log' = ApplyQueued(log, call.id, call.to)
    BY DEF SaveMail
<1>2. call.id \in MsgIds /\ call.to \in Team /\ log \in Logs
    BY <1>1, CallIs DEF TypeOK
<1> DEFINE y == [to |-> call.to, state |-> IF log.msgs[call.id].state = "absent" THEN "pending"
                                           ELSE log.msgs[call.id].state]
<1>3. /\ log'.tasks = log.tasks /\ log'.rows = log.rows /\ log'.msgs = [log.msgs EXCEPT ![call.id] = y]
      /\ log'.ok <=> /\ log.ok /\ log.msgs[call.id].state = "absent"
                     /\ Cardinality(PendingTo(log.msgs, call.to)) < MaxPending
    BY <1>1, <1>2, ApplyQueuedIs
<1>4. log.msgs \in [MsgIds -> Mail]
    BY <1>2, LogParts
<1> QED
    BY <1>1, <1>2, <1>3, <1>4

LEMMA SaveMailKeeps ==
    ASSUME TypeOK, MailInv, SaveMail
    PROVE  MailInv'
<1>1. /\ call.at = "mail" /\ call.id \in MsgIds /\ call.to \in Team
      /\ \A n \in MsgIds \ {call.id} : log'.msgs[n] = log.msgs[n]
      /\ log'.msgs[call.id].to = call.to /\ (log'.ok => log.ok)
      /\ log'.msgs[call.id].state = IF log.msgs[call.id].state = "absent" THEN "pending" ELSE log.msgs[call.id].state
    BY SaveMailIs
<1>2. /\ UNCHANGED <<live, reserved, receipts, target, flight, spawn>> /\ call'.at = "dispatch"
      /\ proc' = [proc EXCEPT !["tool"] = [at |-> "list", msg |-> 0, list |-> {call.id}]]
    BY DEF SaveMail, memory
<1>3. Delivered(log'.msgs) = Delivered(log.msgs)
    BY <1>1 DEF Delivered
<1>4. call.to = target[call.id] /\ call.id <= reserved.msg
    BY <1>1 DEF MailInv, AddressInv
<1>5. \A p \in Callers : /\ \A m \in proc'[p].list : m \in proc[p].list \/ m = call.id
                         /\ proc'[p].at = "ack" => proc[p].at = "ack" /\ proc'[p].msg = proc[p].msg
    BY <1>2 DEF TypeOK
<1>6. \A s \in Snapshots' : s \in Snapshots \/ s = live
    BY <1>2, NextSnapshots
<1>7. AddressInv'
    <2>1. log'.ok => Addressed(log'.msgs, target, reserved.msg)
        BY <1>1, <1>4 DEF MailInv, AddressInv, Addressed
    <2>2. \A p \in Callers : \A m \in proc'[p].list : target[m] \in Team
        BY <1>1, <1>4, <1>5 DEF MailInv, AddressInv
    <2>3. \A s \in Snapshots' : Addressed(s.msgs, target, reserved.msg)
        BY <1>6 DEF MailInv, AddressInv
    <2> QED
        BY <1>2, <2>1, <2>2, <2>3 DEF MailInv, AddressInv
<1>8. ReceiptInv'
    BY <1>2, <1>3, <1>5 DEF MailInv, ReceiptInv
<1>9. DeliveredInv'
    BY <1>2, <1>3, <1>6 DEF MailInv, DeliveredInv
<1> QED
    BY <1>7, <1>8, <1>9 DEF MailInv

LEMMA VisitKeeps ==
    ASSUME TypeOK, MailInv, NEW v \in Visitors, NEW a \in Team, Visit(v, a)
    PROVE  MailInv'
<1>1. /\ proc' = [proc EXCEPT ![v] = [at |-> "list", msg |-> 0, list |-> PendingTo(live.msgs, a)]]
      /\ UNCHANGED <<memory, disk, call, flight, spawn>>
    BY DEF Visit
<1>2. \A p \in Callers : /\ \A m \in proc'[p].list : m \in proc[p].list \/ m \in PendingTo(live.msgs, a)
                         /\ proc'[p].at = "ack" => proc[p].at = "ack" /\ proc'[p].msg = proc[p].msg
    BY <1>1 DEF TypeOK
<1>3. \A m \in PendingTo(live.msgs, a) : target[m] \in Team
    BY DEF PendingTo, MailInv, AddressInv, Addressed
<1>4. Snapshots' = Snapshots
    BY <1>1 DEF Snapshots
<1>5. AddressInv'
    BY <1>1, <1>2, <1>3, <1>4 DEF MailInv, AddressInv, memory, disk
<1>6. ReceiptInv'
    BY <1>1, <1>2 DEF MailInv, ReceiptInv, disk
<1>7. DeliveredInv'
    BY <1>1, <1>4 DEF MailInv, DeliveredInv, memory, disk
<1> QED
    BY <1>5, <1>6, <1>7 DEF MailInv

\* Only the dispatch of a message moves.
LEMMA FlightKeeps ==
    ASSUME TypeOK, MailInv, NEW m \in MsgIds, NEW at \in {"enqueue", "record"},
           flight' = [flight EXCEPT ![m].at = at],
           UNCHANGED <<memory, log, reserved, target, call, proc, spawn>>,
           \A n \in MsgIds \ {m} : receipts'[n] = receipts[n],
           receipts'[m] = IF at = "enqueue" THEN 0 ELSE 1, m \in Delivered(log.msgs) => receipts'[m] = 1
    PROVE  MailInv'
<1>1. \A n \in MsgIds : flight'[n].at = IF n = m THEN at ELSE flight[n].at
    BY DEF TypeOK, Flights
<1>2. Snapshots' = Snapshots
    BY DEF Snapshots
<1>3. AddressInv'
    BY <1>2 DEF MailInv, AddressInv, memory
<1>4. ReceiptInv'
    <2>1. \A n \in MsgIds :
            /\ receipts'[n] <= 1
            /\ flight'[n].at = "enqueue" => receipts'[n] = 0
            /\ flight'[n].at = "record" => receipts'[n] = 1
            /\ n \in Delivered(log.msgs) => receipts'[n] = 1
        BY <1>1 DEF MailInv, ReceiptInv
    <2> QED
        BY <2>1 DEF MailInv, ReceiptInv
<1>5. DeliveredInv'
    BY <1>2 DEF MailInv, DeliveredInv, memory
<1> QED
    BY <1>3, <1>4, <1>5 DEF MailInv

LEMMA ReceiptKeeps ==
    ASSUME TypeOK, MailInv, NEW m \in MsgIds, Receipt(m)
    PROVE  MailInv'
<1>1. receipts[m] \in Nat /\ receipts[m] <= 1 /\ (m \in Delivered(log.msgs) => receipts[m] = 1)
    BY DEF TypeOK, MailInv, ReceiptInv
<1>2. UNCHANGED <<memory, log, reserved, target, receipts, call, proc, spawn>>
    BY DEF Receipt, disk
<1>3. CASE receipts[m] > 0
    <2>1. receipts'[m] = 1
        BY <1>1, <1>2, <1>3
    <2>2. flight' = [flight EXCEPT ![m].at = "record"]
        BY <1>3 DEF Receipt
    <2>3. \A n \in MsgIds \ {m} : receipts'[n] = receipts[n]
        BY <1>2
    <2> QED
        BY <1>2, <2>1, <2>2, <2>3, FlightKeeps
<1>4. CASE ~ (receipts[m] > 0)
    <2>1. receipts'[m] = 0 /\ m \notin Delivered(log.msgs)
        BY <1>1, <1>2, <1>4
    <2>2. flight' = [flight EXCEPT ![m].at = "enqueue"]
        BY <1>4 DEF Receipt
    <2>3. \A n \in MsgIds \ {m} : receipts'[n] = receipts[n]
        BY <1>2
    <2> QED
        BY <1>2, <2>1, <2>2, <2>3, FlightKeeps
<1> QED
    BY <1>3, <1>4

LEMMA EnqueueKeeps ==
    ASSUME TypeOK, MailInv, NEW m \in MsgIds, Enqueue(m)
    PROVE  MailInv'
<1>1. UNCHANGED <<memory, log, sessions, reserved, target, spawn>> /\ flight[m].at = "enqueue"
    BY DEF Enqueue
<1>2. CASE /\ receipts' = [receipts EXCEPT ![m] = @ + 1]
           /\ flight' = [flight EXCEPT ![m].at = "record"] /\ UNCHANGED <<call, proc, tail, bounds>>
    <2>1. receipts[m] = 0 /\ receipts \in [MsgIds -> Nat]
        BY <1>1 DEF TypeOK, MailInv, ReceiptInv
    <2>2. receipts'[m] = 1 /\ \A n \in MsgIds \ {m} : receipts'[n] = receipts[n]
        BY <1>2, <2>1
    <2> QED
        BY <1>1, <1>2, <2>2, FlightKeeps
<1>3. CASE Finish(m, FALSE) /\ UNCHANGED receipts
    BY <1>1, <1>3, FailedKeepsMail, MailKeptKeeps DEF memory, disk
<1> QED
    BY <1>2, <1>3 DEF Enqueue

\* The delivery fact in the log.
LEMMA DeliverIs ==
    ASSUME TypeOK, NEW m \in MsgIds, log' = ApplyDelivered(log, m)
    PROVE  /\ log'.tasks = log.tasks /\ log'.rows = log.rows
           /\ \A n \in MsgIds \ {m} : log'.msgs[n] = log.msgs[n]
           /\ log'.msgs[m].to = log.msgs[m].to /\ log'.msgs[m].state = "delivered"
           /\ Delivered(log'.msgs) = Delivered(log.msgs) \cup {m}
           /\ log'.ok <=> log.ok /\ log.msgs[m].state = "pending"
<1>1. log \in Logs /\ log.msgs \in [MsgIds -> Mail]
    BY LogParts DEF TypeOK
<1>2. /\ log'.tasks = log.tasks /\ log'.rows = log.rows
      /\ log'.msgs = [log.msgs EXCEPT ![m] = [to |-> log.msgs[m].to, state |-> "delivered"]]
      /\ log'.ok <=> log.ok /\ log.msgs[m].state = "pending"
    BY <1>1, ApplyDeliveredIs
<1>3. /\ \A n \in MsgIds \ {m} : log'.msgs[n] = log.msgs[n]
      /\ log'.msgs[m].to = log.msgs[m].to /\ log'.msgs[m].state = "delivered"
    BY <1>1, <1>2
<1>4. Delivered(log'.msgs) = Delivered(log.msgs) \cup {m}
    BY <1>3 DEF Delivered
<1> QED
    BY <1>2, <1>3, <1>4

LEMMA RecordKeeps ==
    ASSUME TypeOK, MailInv, NEW m \in MsgIds, Record(m)
    PROVE  MailInv'
<1>1. UNCHANGED <<memory, sessions, reserved, receipts, target, spawn>> /\ flight[m].at = "record"
    BY DEF Record
<1>2. CASE ~Recorded(m) /\ Fault /\ Finish(m, FALSE) /\ UNCHANGED <<log, damaged>>
    BY <1>1, <1>2, FailedKeepsMail, MailKeptKeeps DEF memory, disk
<1>3. CASE (log' = IF Recorded(m) THEN log ELSE ApplyDelivered(log, m)) /\ Finish(m, TRUE)
    <2>1. /\ Delivered(log'.msgs) = Delivered(log.msgs) \cup {m}
          /\ log'.ok => log.ok /\ Addressed(log'.msgs, target, reserved.msg)
        <3>1. CASE Recorded(m)
            <4>1. log' = log /\ m \in Delivered(log.msgs)
                BY <1>3, <3>1 DEF Recorded, Delivered
            <4> QED
                BY <4>1 DEF MailInv, AddressInv
        <3>2. CASE ~Recorded(m)
            <4>1. log' = ApplyDelivered(log, m)
                BY <1>3, <3>2
            <4> HIDE DEF Finish
            <4>2. /\ \A n \in MsgIds \ {m} : log'.msgs[n] = log.msgs[n]
                  /\ log'.msgs[m].to = log.msgs[m].to
                  /\ Delivered(log'.msgs) = Delivered(log.msgs) \cup {m}
                  /\ log'.ok <=> log.ok /\ log.msgs[m].state = "pending"
                BY <4>1, DeliverIs
            <4> QED
                BY <4>2 DEF MailInv, AddressInv, Addressed
        <3> QED
            BY <3>1, <3>2
    <2>2. TRUE \in BOOLEAN
        OBVIOUS
    <2>3. /\ call'.at \in {"task", "mail"} => call' = call
          /\ \A n \in MsgIds : flight'[n].at = IF n = m THEN "none" ELSE flight[n].at
          /\ \A p \in Callers :
                /\ proc'[p].list = proc[p].list
                /\ proc'[p].at \in {"wait", "ack"} => proc'[p].msg = proc[p].msg
                /\ proc'[p].at = "ack" => proc[p].at = "ack" \/ proc[p].msg = m
        BY <1>3, <2>2, FinishIs
    <2>4. \A s \in Snapshots' : s \in Snapshots \/ s = live
        BY <1>1, <2>3, NextSnapshots
    <2>5. receipts[m] = 1
        BY <1>1 DEF MailInv, ReceiptInv
    <2>6. AddressInv'
        <3>1. \A s \in Snapshots' : Addressed(s.msgs, target, reserved.msg)
            BY <2>4 DEF MailInv, AddressInv
        <3> QED
            BY <1>1, <2>1, <2>3, <3>1 DEF MailInv, AddressInv, memory
    <2>7. ReceiptInv'
        <3>1. \A n \in MsgIds :
                /\ flight'[n].at = "enqueue" => receipts[n] = 0
                /\ flight'[n].at = "record" => receipts[n] = 1
                /\ n \in Delivered(log'.msgs) => receipts[n] = 1
            BY <2>1, <2>3, <2>5 DEF MailInv, ReceiptInv
        <3>2. \A p \in Callers : proc'[p].at = "ack" => proc'[p].msg \in Delivered(log'.msgs)
            BY <2>1, <2>3 DEF MailInv, ReceiptInv
        <3> QED
            BY <1>1, <3>1, <3>2 DEF MailInv, ReceiptInv
    <2>8. DeliveredInv'
        BY <1>1, <2>1, <2>4 DEF MailInv, DeliveredInv, memory
    <2> QED
        BY <2>6, <2>7, <2>8 DEF MailInv
<1> QED
    BY <1>2, <1>3 DEF Record

\* A caller that acknowledges a delivery finds it in the log.
LEMMA AckRecorded ==
    ASSUME TypeOK, ReceiptInv, NEW p \in Callers, Ack(p)
    PROVE  /\ log' = log
           /\ \E m \in Delivered(log.msgs) :
                /\ \/ live' = live
                   \/ /\ live.msgs[m].state # "absent" /\ live'.tasks = live.tasks /\ live'.rows = live.rows
                      /\ live'.msgs = [live.msgs EXCEPT ![m] = [to |-> live.msgs[m].to, state |-> "delivered"]]
                /\ \A q \in Callers : /\ proc'[q].list \subseteq proc[q].list
                                      /\ proc'[q].at \in {"wait", "ack"} => proc'[q] = proc[q]
<1>1. PICK m \in MsgIds :
             /\ m = proc[p].msg
             /\ (log' = log /\ Recorded(m)) \/ (log' = ApplyDelivered(log, m) /\ ~Recorded(m))
             /\ \/ live' = live
                \/ /\ live.msgs[m].state # "absent" /\ live' \in Boards
                   /\ live'.tasks = live.tasks /\ live'.rows = live.rows
                   /\ live'.msgs = [live.msgs EXCEPT ![m] = [to |-> live.msgs[m].to, state |-> "delivered"]]
             /\ \A q \in Callers : /\ proc'[q].list \subseteq proc[q].list
                                   /\ proc'[q].at \in {"wait", "ack"} => proc'[q] = proc[q]
    BY AckIs
<1>2. m \in Delivered(log.msgs)
    BY <1>1 DEF Ack, ReceiptInv
<1>3. Recorded(m)
    BY <1>2 DEF Recorded, Delivered
<1> HIDE DEF Ack
<1> QED
    BY <1>1, <1>2, <1>3

LEMMA AckKeeps ==
    ASSUME TypeOK, MailInv, NEW p \in Callers, Ack(p)
    PROVE  MailInv'
<1>1. log' = log
    BY AckRecorded DEF MailInv
<1>2. PICK m \in Delivered(log.msgs) :
                /\ \/ live' = live
                   \/ /\ live.msgs[m].state # "absent" /\ live'.tasks = live.tasks /\ live'.rows = live.rows
                      /\ live'.msgs = [live.msgs EXCEPT ![m] = [to |-> live.msgs[m].to, state |-> "delivered"]]
                /\ \A q \in Callers : /\ proc'[q].list \subseteq proc[q].list
                                      /\ proc'[q].at \in {"wait", "ack"} => proc'[q] = proc[q]
    BY AckRecorded DEF MailInv
<1>3. UNCHANGED <<reserved, receipts, target, flight, spawn>> /\ ToolEnds
    BY DEF Ack
<1>4. call'.at \in {"task", "mail"} => call' = call
    BY <1>3, ToolEndsIs
<1>5. \A s \in Snapshots' : s \in Snapshots \/ s = live
    BY <1>3, <1>4, NextSnapshots
<1>6. live.msgs \in [MsgIds -> Mail] /\ m \in MsgIds
    BY BoardParts DEF TypeOK, Delivered
<1>7. \A n \in MsgIds : /\ live'.msgs[n].to = live.msgs[n].to
                        /\ live'.msgs[n].state # "absent" => live.msgs[n].state # "absent"
                        /\ live'.msgs[n].state = "delivered" => n = m \/ live.msgs[n].state = "delivered"
    BY <1>2, <1>6
<1>8. AddressInv'
    <2>1. Addressed(live'.msgs, target, reserved.msg)
        BY <1>7 DEF MailInv, AddressInv, Addressed
    <2>2. \A s \in Snapshots' : Addressed(s.msgs, target, reserved.msg)
        BY <1>5 DEF MailInv, AddressInv
    <2>3. \A q \in Callers : \A n \in proc'[q].list : target[n] \in Team
        BY <1>2 DEF MailInv, AddressInv
    <2> QED
        BY <1>1, <1>3, <1>4, <2>1, <2>2, <2>3 DEF MailInv, AddressInv
<1>9. ReceiptInv'
    BY <1>1, <1>2, <1>3 DEF MailInv, ReceiptInv
<1>10. DeliveredInv'
    <2>1. Delivered(live'.msgs) \subseteq Delivered(log.msgs)
        BY <1>2, <1>7 DEF MailInv, DeliveredInv, Delivered
    <2> QED
        BY <1>1, <1>5, <2>1 DEF MailInv, DeliveredInv
<1> QED
    BY <1>8, <1>9, <1>10 DEF MailInv

LEMMA NextMail == ASSUME TypeOK, MailInv, [Next]_vars PROVE MailInv'
<1>1. CASE UNCHANGED vars
    <2>1. MailKept
        BY <1>1, NextSnapshots, QuietMail DEF MailKept, vars, memory, disk, mail
    <2> QED
        BY <2>1, MailKeptKeeps
<1>2. CASE \E a, b \in Team : Message(a, b)
    BY <1>2, MessageKeeps
<1>3. CASE SaveMail
    BY <1>3, SaveMailKeeps
<1>4. CASE \E v \in Visitors, a \in Team : Visit(v, a)
    BY <1>4, VisitKeeps
<1>5. CASE \E p \in Callers : Ack(p)
    BY <1>5, AckKeeps
<1>6. CASE \E m \in MsgIds : Receipt(m) \/ Enqueue(m) \/ Record(m)
    BY <1>6, ReceiptKeeps, EnqueueKeeps, RecordKeeps
<1>7. CASE \/ \E p \in Callers, m \in MsgIds : Dispatch(p, m)
           \/ \E m \in MsgIds : Cancelled(m) \/ Lookup(m)
    BY <1>7, DispatchKeepsMail, MailKeptKeeps
<1>8. CASE \/ \E a \in Team, blockers \in SUBSET TaskIds :
                TaskCreate(a, blockers) \/ \E t \in TaskIds : TaskUpdate(a, t, blockers)
           \/ SaveTask \/ SaveTaskFails \/ SaveMailFails
    BY <1>8, TaskKeepsMail, MailKeptKeeps
<1>9. CASE (\E a \in Mates : Provision(a)) \/ SpawnStep \/ StartFails \/ SaveActiveFails
    BY <1>9, SpawnKeepsMail, MailKeptKeeps
<1>10. CASE OpenStep \/ \E a \in Mates : BindFails(a) \/ Unbindable(a)
    BY <1>10, OpenKeepsMail, MailKeptKeeps
<1>11. CASE Crash
    BY <1>11, CrashKeepsMail, MailKeptKeeps
<1> QED
    BY <1>1, <1>2, <1>3, <1>4, <1>5, <1>6, <1>7, <1>8, <1>9, <1>10, <1>11 DEF Next, ToolStep, MailStep

LEMMA InitMail == Init => MailInv
<1> SUFFICES ASSUME Init PROVE MailInv
    OBVIOUS
<1>1. /\ live.msgs = NoMsgs /\ log.msgs = NoMsgs /\ call.at = "idle" /\ spawn = NoCall
      /\ receipts = [m \in MsgIds |-> 0] /\ proc = Idle /\ flight = NoFlights
    BY DEF Init, NewBoard, NoCall
<1>2. Snapshots = {}
    BY <1>1 DEF Snapshots
<1>3. AddressInv
    BY <1>1, <1>2, NoMail0 DEF AddressInv, Idle, NoProc
<1>4. ReceiptInv
    BY <1>1, NoMail0 DEF ReceiptInv, Idle, NoProc, NoFlights, NoFlight
<1>5. DeliveredInv
    BY <1>1, <1>2, NoMail0 DEF DeliveredInv
<1> QED
    BY <1>3, <1>4, <1>5 DEF MailInv

-----------------------------------------------------------------------------
(* The board and its log. One lemma per part says what a step that only    *)
(* moves the calls along has to leave alone.                               *)

\* The call is where it was, or it runs neither before nor after the step.
SameCall == call' = call \/ {call.at, call'.at} \cap {"task", "mail"} = {}

LEMMA TasksKept ==
    ASSUME TaskInv, log'.ok, log'.tasks = log.tasks, reserved'.task = reserved.task,
           \/ board' = "absent" /\ live'.tasks = NoTasks /\ call'.at = "idle"
           \/ /\ board' # "absent" /\ live'.tasks = log.tasks
              /\ \/ call'.at \in {"idle", "dispatch"}
                 \/ call'.at = "mail" /\ call'.before.tasks = log.tasks
           \/ board' = board /\ live'.tasks = live.tasks /\ SameCall
    PROVE  TaskInv'
<1>1. /\ log'.ok /\ Sound(log'.tasks)
      /\ \A t \in TaskIds : IF log'.tasks[t].status = "absent" THEN log'.tasks[t].revision = 0
                            ELSE t <= reserved'.task
    BY DEF TaskInv
<1>2. CASE board' = "absent" /\ live'.tasks = NoTasks /\ call'.at = "idle"
    BY <1>1, <1>2 DEF TaskInv
<1>3. CASE /\ board' # "absent" /\ live'.tasks = log.tasks
           /\ \/ call'.at \in {"idle", "dispatch"}
              \/ call'.at = "mail" /\ call'.before.tasks = log.tasks
    BY <1>1, <1>3 DEF TaskInv
<1>4. CASE board' = board /\ live'.tasks = live.tasks /\ SameCall
    <2>1. CASE call' = call
        BY <1>1, <1>4, <2>1 DEF TaskInv
    <2>2. CASE {call.at, call'.at} \cap {"task", "mail"} = {}
        BY <1>1, <1>4, <2>2 DEF TaskInv
    <2> QED
        BY <1>4, <2>1, <2>2 DEF SameCall
<1> QED
    BY <1>2, <1>3, <1>4

LEMMA MsgsKept ==
    ASSUME MsgInv, Known(log'.msgs) = Known(log.msgs),
           \/ board' = "absent" /\ call'.at = "idle"
           \/ Known(live'.msgs) = Known(log.msgs) /\ call'.at \in {"idle", "dispatch"}
           \/ /\ Known(live'.msgs) = Known(log.msgs) /\ Known(live.msgs) = Known(log.msgs)
              /\ call'.at = "task" /\ call'.before = live
           \/ board' = board /\ Known(live'.msgs) = Known(live.msgs) /\ SameCall
    PROVE  MsgInv'
<1>1. CASE board' = board /\ Known(live'.msgs) = Known(live.msgs) /\ SameCall
    <2>1. CASE call' = call
        BY <1>1, <2>1 DEF MsgInv
    <2>2. CASE {call.at, call'.at} \cap {"task", "mail"} = {}
        BY <1>1, <2>2 DEF MsgInv
    <2> QED
        BY <1>1, <2>1, <2>2 DEF SameCall
<1>2. CASE \/ board' = "absent" /\ call'.at = "idle"
           \/ Known(live'.msgs) = Known(log.msgs) /\ call'.at \in {"idle", "dispatch"}
           \/ /\ Known(live'.msgs) = Known(log.msgs) /\ Known(live.msgs) = Known(log.msgs)
              /\ call'.at = "task" /\ call'.before = live
    BY <1>2 DEF MsgInv
<1> QED
    BY <1>1, <1>2

LEMMA RowsKept ==
    ASSUME RowInv, log'.rows = log.rows, live'.rows = live.rows, UNCHANGED <<spawn, unbound, board>>
    PROVE  RowInv'
BY DEF RowInv

\* Nothing but the calls changes.
LEMMA BoardKept ==
    ASSUME BoardInv, UNCHANGED <<live, log, board, unbound, spawn>>, reserved'.task = reserved.task, SameCall
    PROVE  BoardInv'
BY TasksKept, MsgsKept, RowsKept DEF BoardInv, TaskInv

\* A call is only made on a published board.
LEMMA CallsOpen ==
    ASSUME TypeOK
    PROVE  /\ call # NoCall \/ spawn # NoCall => board = "open"
           /\ \A at \in {"task", "mail", "dispatch"} : call.at = at => board = "open" /\ call # NoCall
BY DEF TypeOK, NoCall

-----------------------------------------------------------------------------
(* The task tools.                                                         *)

\* A task that the rules allow, on a board that is what the log says.
LEMMA StartKeeps ==
    ASSUME TypeOK, BoardInv, NEW t \in TaskIds, NEW task \in Tasks, Start(t, task),
           board = "open", call = NoCall, UNCHANGED <<log, board, unbound, spawn>>,
           reserved'.task \in Nat, reserved.task <= reserved'.task, t <= reserved'.task, task.status # "absent",
           task.revision = log.tasks[t].revision + 1, Edges(log.tasks, t, task.blockers),
           task.status = "deleted" => \A u \in Standing(log.tasks) \ {t} : t \notin log.tasks[u].blockers
    PROVE  BoardInv'
<1>1. /\ live'.msgs = live.msgs /\ live'.rows = live.rows /\ live'.tasks = [live.tasks EXCEPT ![t] = task]
      /\ call'.at = "task" /\ call'.id = t /\ call'.task = task /\ call'.before = live
    BY StartIs
<1>2. live.tasks = log.tasks /\ Known(live.msgs) = Known(log.msgs)
    BY DEF BoardInv, TaskInv, MsgInv, NoCall
<1>3. Sound([log.tasks EXCEPT ![t] = task])
    <2>1. log.tasks \in [TaskIds -> Tasks] /\ Sound(log.tasks)
        BY LogParts DEF TypeOK, BoardInv, TaskInv
    <2> QED
        BY <2>1, SoundUpdate
<1>4. \A u \in TaskIds : IF log'.tasks[u].status = "absent" THEN log'.tasks[u].revision = 0
                         ELSE u <= reserved'.task
    <2>1. \A u \in TaskIds : u \in Nat
        BY TeamAssumption
    <2>2. reserved.task \in Nat
        BY DEF TypeOK
    <2>3. \A u \in TaskIds : u <= reserved.task => u <= reserved'.task
        BY <2>1, <2>2
    <2> QED
        BY <2>3 DEF BoardInv, TaskInv
<1>5. TaskInv'
    BY <1>1, <1>2, <1>3, <1>4 DEF BoardInv, TaskInv
<1>6. MsgInv'
    BY <1>1, <1>2, MsgsKept DEF BoardInv
<1>7. RowInv'
    BY <1>1, RowsKept DEF BoardInv
<1> QED
    BY <1>5, <1>6, <1>7 DEF BoardInv

LEMMA CreateKeepsBoard ==
    ASSUME TypeOK, BoardInv, NEW a \in Team, NEW blockers \in SUBSET TaskIds, TaskCreate(a, blockers)
    PROVE  BoardInv'
<1> DEFINE t == reserved.task + 1
           task == NewTask(a, blockers)
<1>1. /\ t \in TaskIds /\ task \in Tasks /\ Start(t, task)
      /\ reserved' = [task |-> t, msg |-> reserved.msg]
    BY CreateIs
<1>2. /\ board = "open" /\ call = NoCall /\ Edges(live.tasks, t, blockers)
      /\ UNCHANGED <<log, board, unbound, spawn>>
    BY DEF TaskCreate
<1>3. task.status = "pending" /\ task.revision = 1 /\ task.blockers = blockers
    BY DEF NewTask
<1>4. reserved.task \in Nat /\ reserved'.task = t
    BY <1>1 DEF TypeOK
<1> HIDE DEF task
<1>5. t \in Nat /\ reserved.task <= t /\ t <= t /\ ~(t <= reserved.task)
    BY <1>4
<1> HIDE DEF t
<1>6. log.tasks[t].revision = 0
    BY <1>1, <1>5 DEF BoardInv, TaskInv
<1>7. task.revision = log.tasks[t].revision + 1
    BY <1>3, <1>6
<1>8. live.tasks = log.tasks
    BY <1>2 DEF BoardInv, TaskInv, NoCall
<1> QED
    BY <1>1, <1>2, <1>3, <1>4, <1>5, <1>7, <1>8, StartKeeps

LEMMA UpdateKeepsBoard ==
    ASSUME TypeOK, BoardInv, NEW a \in Team, NEW blockers \in SUBSET TaskIds, NEW t \in TaskIds,
           TaskUpdate(a, t, blockers)
    PROVE  BoardInv'
<1>1. /\ board = "open" /\ call = NoCall /\ t \in Standing(live.tasks)
      /\ blockers = live.tasks[t].blockers \/ Edges(live.tasks, t, blockers)
      /\ UNCHANGED <<log, board, unbound, spawn, reserved>>
    BY DEF TaskUpdate, disk
<1>2. PICK task \in Tasks :
             /\ Start(t, task) /\ task.status # "absent" /\ task.blockers = blockers
             /\ task.revision = live.tasks[t].revision + 1
             /\ task.status = "deleted" => Deletable(t)
    BY UpdateIs
<1>3. live.tasks = log.tasks /\ Sound(log.tasks)
    BY <1>1 DEF BoardInv, TaskInv, NoCall
<1>4. Edges(log.tasks, t, blockers)
    BY <1>1, <1>3 DEF Sound
<1>5. t <= reserved.task
    BY <1>1, <1>3 DEF BoardInv, TaskInv, Standing
<1>6. reserved.task \in Nat /\ reserved'.task = reserved.task
    BY <1>1 DEF TypeOK
<1>7. reserved.task <= reserved.task
    BY <1>6
<1>8. task.status = "deleted" => \A u \in Standing(log.tasks) \ {t} : t \notin log.tasks[u].blockers
    BY <1>2, <1>3 DEF Deletable
<1> QED
    BY <1>1, <1>2, <1>3, <1>4, <1>5, <1>6, <1>7, <1>8, StartKeeps

LEMMA SaveTaskKeepsBoard ==
    ASSUME TypeOK, BoardInv, SaveTask
    PROVE  BoardInv'
<1>1. /\ log'.msgs = log.msgs /\ log'.rows = log.rows /\ log'.tasks = [log.tasks EXCEPT ![call.id] = call.task]
      /\ log'.ok <=> /\ log.ok /\ call.task.revision = log.tasks[call.id].revision + 1
                     /\ Edges(log.tasks, call.id, call.task.blockers)
      /\ call.at = "task" /\ call.id \in TaskIds /\ call.task \in Tasks
    BY SaveTaskIs
<1>2. UNCHANGED <<live, board, unbound, reserved, spawn>> /\ call'.at = "idle"
    BY DEF SaveTask, memory, NoCall
<1>3. /\ live.tasks = log'.tasks /\ Sound(live.tasks) /\ call.id <= reserved.task /\ call.task.status # "absent"
      /\ log'.ok
    BY <1>1 DEF BoardInv, TaskInv
<1>4. board # "absent"
    BY <1>1, CallsOpen
<1>5. TaskInv'
    <2>1. log.tasks \in [TaskIds -> Tasks]
        BY LogParts DEF TypeOK
    <2>2. \A t \in TaskIds : log'.tasks[t] = IF t = call.id THEN call.task ELSE log.tasks[t]
        BY <1>1, <2>1
    <2>3. \A t \in TaskIds : IF log'.tasks[t].status = "absent" THEN log'.tasks[t].revision = 0
                             ELSE t <= reserved.task
        BY <1>3, <2>2 DEF BoardInv, TaskInv
    <2> QED
        BY <1>2, <1>3, <1>4, <2>3 DEF TaskInv
<1>6. MsgInv'
    <2>1. Known(live.msgs) = Known(log.msgs)
        BY <1>1, <1>4 DEF BoardInv, MsgInv
    <2> QED
        BY <1>1, <1>2, <2>1, MsgsKept DEF BoardInv
<1>7. RowInv'
    BY <1>1, <1>2, RowsKept DEF BoardInv
<1> QED
    BY <1>5, <1>6, <1>7 DEF BoardInv

\* A failing append: the snapshot is what the log says.
LEMMA RollbackKeepsBoard ==
    ASSUME TypeOK, BoardInv, SaveTaskFails \/ SaveMailFails, ~damaged'
    PROVE  BoardInv'
<1>1. /\ call.at \in {"task", "mail"} /\ Rollback(call.before)
      /\ call'.at = "idle" /\ UNCHANGED <<log, board, unbound, reserved, spawn>>
    BY DEF SaveTaskFails, SaveMailFails, disk, NoCall
<1>2. ~Erased(call.before)
    BY Zenon DEF SaveTaskFails, SaveMailFails
<1>3. call.before \in Boards /\ board # "absent"
    BY <1>1, CallIs, CallsOpen
<1>4. Restorable(call.before) /\ call.before.rows = live.rows
    BY <1>2 DEF Erased
<1>5. live' = call.before
    BY <1>1, <1>3, <1>4, RollbackIs
<1>6. TaskInv'
    <2>1. call.before.tasks = log.tasks /\ log.ok
        BY <1>1 DEF BoardInv, TaskInv
    <2> QED
        BY <1>1, <1>3, <1>5, <2>1, TasksKept DEF BoardInv
<1>7. MsgInv'
    <2>1. Known(call.before.msgs) = Known(log.msgs)
        BY <1>1 DEF BoardInv, MsgInv
    <2> QED
        BY <1>1, <1>5, <2>1, MsgsKept DEF BoardInv
<1>8. RowInv'
    BY <1>1, <1>4, <1>5, RowsKept DEF BoardInv
<1> QED
    BY <1>6, <1>7, <1>8 DEF BoardInv

-----------------------------------------------------------------------------
(* Mail on the board and in the log.                                       *)

LEMMA MessageKeepsBoard ==
    ASSUME TypeOK, MailInv, BoardInv, NEW a \in Team, NEW b \in Team, Message(a, b)
    PROVE  BoardInv'
<1>1. PICK m \in MsgIds :
         /\ m = reserved.msg + 1 /\ reserved' = [task |-> reserved.task, msg |-> m]
         /\ live'.tasks = live.tasks /\ live'.rows = live.rows
         /\ live'.msgs = [live.msgs EXCEPT ![m] = [to |-> b, state |-> "pending"]]
         /\ call'.at = "mail" /\ call'.id = m /\ call'.to = b /\ call'.before = live
    BY MessageIs
<1>2. /\ board = "open" /\ call = NoCall /\ UNCHANGED <<log, board, unbound, spawn>>
      /\ Cardinality(PendingTo(live.msgs, b)) < MaxPending
    BY DEF Message
<1>3. live.tasks = log.tasks /\ Known(live.msgs) = Known(log.msgs) /\ log.ok
    BY <1>2 DEF BoardInv, TaskInv, MsgInv, NoCall
<1>4. m \notin Known(live.msgs)
    <2>1. reserved.msg \in Nat
        BY DEF TypeOK
    <2>2. ~(m <= reserved.msg)
        BY <1>1, <2>1
    <2> QED
        BY <2>2 DEF Known, MailInv, AddressInv, Addressed
<1>5. Known(live'.msgs) = Known(live.msgs) \cup {m}
    <2>1. live.msgs \in [MsgIds -> Mail]
        BY BoardParts DEF TypeOK
    <2>2. live'.msgs[m].state = "pending" /\ \A n \in MsgIds \ {m} : live'.msgs[n] = live.msgs[n]
        BY <1>1, <2>1
    <2> QED
        BY <2>2 DEF Known
<1>6. TaskInv'
    <2>1. reserved'.task = reserved.task
        BY <1>1
    <2> QED
        BY <1>1, <1>2, <1>3, <2>1, TasksKept DEF BoardInv
<1>7. MsgInv'
    BY <1>1, <1>2, <1>3, <1>4, <1>5 DEF MsgInv
<1>8. RowInv'
    BY <1>1, <1>2, RowsKept DEF BoardInv
<1> QED
    BY <1>6, <1>7, <1>8 DEF BoardInv

\* The log has no more undelivered messages for a target than the snapshot of
\* the call, so replay accepts what the board accepted.
LEMMA PendingFits ==
    ASSUME TypeOK, MailInv, BoardInv, call.at = "mail"
    PROVE  Cardinality(PendingTo(log.msgs, call.to)) < MaxPending
<1> DEFINE L == PendingTo(log.msgs, call.to)
           S == PendingTo(call.before.msgs, call.to)
<1>1. /\ call.before \in Snapshots /\ Known(call.before.msgs) = Known(log.msgs) /\ log.ok
      /\ Cardinality(S) < MaxPending
    BY DEF Snapshots, BoardInv, TaskInv, MsgInv
<1>2. /\ Addressed(log.msgs, target, reserved.msg) /\ Addressed(call.before.msgs, target, reserved.msg)
      /\ Delivered(call.before.msgs) \subseteq Delivered(log.msgs)
    BY <1>1 DEF MailInv, AddressInv, DeliveredInv
<1>3. call.before.msgs \in [MsgIds -> Mail]
    BY CallIs, BoardParts
<1>4. ASSUME NEW m \in L PROVE m \in S
    <2>1. m \in MsgIds /\ log.msgs[m].to = call.to /\ log.msgs[m].state = "pending"
        BY DEF PendingTo
    <2>2. call.before.msgs[m].state # "absent"
        BY <1>1, <2>1 DEF Known
    <2>3. call.before.msgs[m].state # "delivered"
        BY <1>2, <2>1 DEF Delivered
    <2>4. call.before.msgs[m].state = "pending"
        BY <1>3, <2>1, <2>2, <2>3, MailParts
    <2>5. call.before.msgs[m].to = call.to
        BY <1>2, <2>1, <2>2 DEF Addressed
    <2> QED
        BY <2>1, <2>4, <2>5 DEF PendingTo
<1>5. IsFiniteSet(S)
    <2>1. S \subseteq MsgIds /\ IsFiniteSet(MsgIds)
        BY TeamAssumption DEF PendingTo
    <2> QED
        BY <2>1, FS_Subset
<1>6. L \subseteq S
    BY <1>4
<1> HIDE DEF L, S
<1>7. IsFiniteSet(L) /\ Cardinality(L) <= Cardinality(S) /\ Cardinality(L) \in Nat /\ Cardinality(S) \in Nat
    BY <1>5, <1>6, FS_Subset, FS_CardinalityType
<1>8. MaxPending \in Nat
    BY TeamAssumption
<1>9. Cardinality(L) < MaxPending
    BY <1>1, <1>7, <1>8
<1> QED
    BY <1>9 DEF L

LEMMA SaveMailKeepsBoard ==
    ASSUME TypeOK, MailInv, BoardInv, SaveMail
    PROVE  BoardInv'
<1>1. /\ log'.tasks = log.tasks /\ log'.rows = log.rows /\ call.at = "mail" /\ call.id \in MsgIds
      /\ \A n \in MsgIds \ {call.id} : log'.msgs[n] = log.msgs[n]
      /\ log'.msgs[call.id].state = IF log.msgs[call.id].state = "absent" THEN "pending" ELSE log.msgs[call.id].state
      /\ log'.ok <=> /\ log.ok /\ log.msgs[call.id].state = "absent"
                     /\ Cardinality(PendingTo(log.msgs, call.to)) < MaxPending
    BY SaveMailIs
<1>2. UNCHANGED <<live, board, unbound, reserved, spawn>> /\ call'.at = "dispatch"
    BY DEF SaveMail, memory
<1>3. /\ Known(live.msgs) = Known(log.msgs) \cup {call.id} /\ log.msgs[call.id].state = "absent"
      /\ live.tasks = log.tasks /\ log.ok /\ board # "absent"
    BY <1>1, CallsOpen DEF BoardInv, TaskInv, MsgInv, Known
<1>4. log'.ok
    BY <1>1, <1>3, PendingFits
<1>5. Known(log'.msgs) = Known(log.msgs) \cup {call.id}
    BY <1>1, <1>3 DEF Known
<1>6. TaskInv'
    BY <1>1, <1>2, <1>3, <1>4, TasksKept DEF BoardInv
<1>7. MsgInv'
    BY <1>2, <1>3, <1>5 DEF MsgInv
<1>8. RowInv'
    BY <1>1, <1>2, RowsKept DEF BoardInv
<1> QED
    BY <1>6, <1>7, <1>8 DEF BoardInv

\* The log gets a delivery, which replay accepts of a message that it knows.
LEMMA RecordKeepsBoard ==
    ASSUME TypeOK, BoardInv, NEW m \in MsgIds, Record(m), ~damaged'
    PROVE  BoardInv'
<1>1. UNCHANGED <<live, board, unbound, reserved, spawn>>
    BY DEF Record, memory
<1>2. \E d \in BOOLEAN : Finish(m, d)
    BY DEF Record
<1>3. SameCall
    BY <1>2, FinishIs DEF SameCall
<1>4. CASE log' = log
    BY <1>1, <1>3, <1>4, BoardKept
<1>5. CASE log' # log
    <2>1. log' = ApplyDelivered(log, m) /\ ~Recorded(m)
        BY <1>5, Zenon DEF Record
    <2>2. log.msgs[m].state # "absent"
        BY <1>5, Zenon DEF Record
    <2>3. log.msgs[m].state = "pending"
        <3>1. log.msgs[m] \in Mail
            BY LogParts DEF TypeOK
        <3> QED
            BY <2>1, <2>2, <3>1, MailParts DEF Recorded
    <2>4. /\ log'.tasks = log.tasks /\ log'.rows = log.rows
          /\ \A n \in MsgIds \ {m} : log'.msgs[n] = log.msgs[n]
          /\ log'.msgs[m].state = "delivered" /\ (log'.ok <=> log.ok /\ log.msgs[m].state = "pending")
        BY <2>1, DeliverIs
    <2>5. Known(log'.msgs) = Known(log.msgs)
        BY <2>2, <2>4 DEF Known
    <2>6. log'.ok
        BY <2>3, <2>4 DEF BoardInv, TaskInv
    <2>7. TaskInv'
        BY <1>1, <1>3, <2>4, <2>6, TasksKept DEF BoardInv
    <2>8. MsgInv'
        BY <1>1, <1>3, <2>5, MsgsKept DEF BoardInv
    <2>9. RowInv'
        BY <1>1, <2>4, RowsKept DEF BoardInv
    <2> QED
        BY <2>7, <2>8, <2>9 DEF BoardInv
<1> QED
    BY <1>4, <1>5

LEMMA AckKeepsBoard ==
    ASSUME TypeOK, MailInv, BoardInv, NEW p \in Callers, Ack(p)
    PROVE  BoardInv'
<1>1. log' = log /\ UNCHANGED <<board, unbound, reserved, spawn>> /\ ToolEnds
    BY AckRecorded DEF MailInv, Ack
<1>2. SameCall
    BY <1>1, ToolEndsIs DEF SameCall
<1>3. CASE live' = live
    BY <1>1, <1>2, <1>3, BoardKept
<1>4. CASE live' # live
    <2>1. PICK m \in Delivered(log.msgs) :
             /\ live.msgs[m].state # "absent" /\ live'.tasks = live.tasks /\ live'.rows = live.rows
             /\ live'.msgs = [live.msgs EXCEPT ![m] = [to |-> live.msgs[m].to, state |-> "delivered"]]
        BY <1>4, AckRecorded DEF MailInv
    <2>2. m \in MsgIds /\ live.msgs \in [MsgIds -> Mail]
        BY BoardParts DEF TypeOK, Delivered
    <2>3. live'.msgs[m].state = "delivered" /\ \A n \in MsgIds \ {m} : live'.msgs[n] = live.msgs[n]
        BY <2>1, <2>2
    <2>4. Known(live'.msgs) = Known(live.msgs)
        BY <2>1, <2>3 DEF Known
    <2>5. TaskInv'
        BY <1>1, <1>2, <2>1, TasksKept DEF BoardInv, TaskInv
    <2>6. MsgInv'
        BY <1>1, <1>2, <2>4, MsgsKept DEF BoardInv
    <2>7. RowInv'
        BY <1>1, <2>1, RowsKept DEF BoardInv
    <2> QED
        BY <2>5, <2>6, <2>7 DEF BoardInv
<1> QED
    BY <1>3, <1>4

\* The other steps of a delivery leave the board and its log alone.
LEMMA DispatchKeepsBoard ==
    ASSUME TypeOK, BoardInv,
           \/ \E v \in Visitors, a \in Team : Visit(v, a)
           \/ \E p \in Callers, m \in MsgIds : Dispatch(p, m)
           \/ \E m \in MsgIds : Cancelled(m) \/ Lookup(m) \/ Receipt(m) \/ Enqueue(m)
    PROVE  BoardInv'
<1>1. UNCHANGED <<live, log, board, unbound, reserved, spawn>>
    BY DEF Visit, Dispatch, Cancelled, Lookup, Receipt, Enqueue, memory, disk
<1>2. call' = call \/ \E m \in MsgIds : Finish(m, FALSE)
    BY DEF Visit, Dispatch, Cancelled, Lookup, Receipt, Enqueue
<1>3. SameCall
    BY <1>2, FinishIs DEF SameCall
<1> QED
    BY <1>1, <1>3, BoardKept

-----------------------------------------------------------------------------
(* The rows of the teammates.                                              *)

\* Tasks and mail stay, on the board and in the log, while a row changes.
LEMMA OnlyRows ==
    ASSUME TaskInv, MsgInv, live'.tasks = live.tasks, live'.msgs = live.msgs, log'.tasks = log.tasks,
           log'.msgs = log.msgs, log'.ok, UNCHANGED <<board, call, reserved>>
    PROVE  TaskInv' /\ MsgInv'
BY TasksKept, MsgsKept DEF SameCall

LEMMA ProvisionKeepsBoard ==
    ASSUME TypeOK, BoardInv, NEW a \in Mates, Provision(a)
    PROVE  BoardInv'
<1>1. /\ log'.tasks = log.tasks /\ log'.msgs = log.msgs
      /\ log'.rows = [log.rows EXCEPT ![a] = "provisioning"] /\ log'.ok = log.ok
      /\ spawn' # NoCall /\ spawn'.at = "spawn" /\ spawn'.who = a
    BY ProvisionIs
<1>2. board = "open" /\ spawn = NoCall /\ UNCHANGED <<live, board, unbound, call, reserved>>
    BY DEF Provision, memory
<1>3. TaskInv' /\ MsgInv'
    BY <1>1, <1>2, OnlyRows DEF BoardInv, TaskInv
<1>4. RowInv'
    <2>1. log.rows \in [Mates -> Phases]
        BY LogParts DEF TypeOK
    <2>2. log'.rows[a] = "provisioning" /\ \A b \in Mates \ {a} : log'.rows[b] = log.rows[b]
        BY <1>1, <2>1
    <2> QED
        BY <1>1, <1>2, <2>2 DEF BoardInv, RowInv
<1> QED
    BY <1>3, <1>4 DEF BoardInv

LEMMA PublishKeepsBoard ==
    ASSUME TypeOK, BoardInv, Publish \/ Started \/ StartFails
    PROVE  BoardInv'
<1>1. /\ spawn # NoCall /\ spawn.who \in Mates /\ spawn' # NoCall /\ spawn'.who = spawn.who
      /\ live'.tasks = live.tasks /\ live'.msgs = live.msgs
      /\ \E phase \in {"provisioning", "active", "failed"} :
            /\ live'.rows = [live.rows EXCEPT ![spawn.who] = phase]
            /\ spawn'.at = IF phase = "provisioning" THEN "start" ELSE phase
    BY PublishIs
<1>2. UNCHANGED <<log, board, unbound, call, reserved>>
    BY DEF Publish, Started, StartFails, disk
<1>3. board = "open"
    BY <1>1, CallsOpen
<1>4. TaskInv' /\ MsgInv'
    BY <1>1, <1>2, OnlyRows DEF BoardInv, TaskInv
<1>5. RowInv'
    <2>1. live.rows \in [Mates -> Phases]
        BY BoardParts DEF TypeOK
    <2>2. /\ \A b \in Mates \ {spawn.who} : live'.rows[b] = live.rows[b]
          /\ spawn'.at \in {"active", "failed"} => live'.rows[spawn.who] = spawn'.at
        BY <1>1, <2>1
    <2> QED
        BY <1>1, <1>2, <1>3, <2>2 DEF BoardInv, RowInv
<1> QED
    BY <1>4, <1>5 DEF BoardInv

LEMMA SavedKeepsBoard ==
    ASSUME TypeOK, BoardInv, SaveActive \/ SaveFailed \/ SaveActiveFails, ~damaged'
    PROVE  BoardInv'
<1>1. ~SaveActiveFails
    BY DEF SaveActiveFails
<1>2. /\ spawn.at \in {"active", "failed"} /\ Transition(spawn.who, spawn.at)
      /\ UNCHANGED <<live, board, unbound, call, reserved>> /\ spawn' = NoCall
    BY <1>1 DEF SaveActive, SaveFailed, memory
<1>3. spawn # NoCall /\ spawn.who \in Mates
    BY <1>2, SpawnIs
<1>4. board = "open"
    BY <1>3, CallsOpen
<1>5. log.rows[spawn.who] = "provisioning" /\ live.rows[spawn.who] = spawn.at
    BY <1>2, <1>3 DEF BoardInv, RowInv
<1>6. /\ log'.tasks = log.tasks /\ log'.msgs = log.msgs
      /\ log'.rows = [log.rows EXCEPT ![spawn.who] = spawn.at]
      /\ log'.ok <=> log.ok /\ log.rows[spawn.who] = "provisioning"
    BY <1>2, <1>3, TransitionIs
<1>7. TaskInv' /\ MsgInv'
    BY <1>2, <1>5, <1>6, OnlyRows DEF BoardInv, TaskInv
<1>8. RowInv'
    <2>1. log.rows \in [Mates -> Phases]
        BY LogParts DEF TypeOK
    <2>2. log'.rows[spawn.who] = spawn.at /\ \A b \in Mates \ {spawn.who} : log'.rows[b] = log.rows[b]
        BY <1>3, <1>6, <2>1
    <2>3. \A b \in Mates : live.rows[b] = log'.rows[b]
        BY <1>3, <1>4, <1>5, <2>2 DEF BoardInv, RowInv
    <2>4. spawn'.at = "idle"
        BY <1>2 DEF NoCall
    <2> QED
        BY <1>2, <1>4, <2>3, <2>4 DEF BoardInv, RowInv
<1> QED
    BY <1>7, <1>8 DEF BoardInv

\* One teammate is bound again: board and log agree about its row.
LEMMA RowKeeps ==
    ASSUME TypeOK, BoardInv, board = "binding", NEW a \in unbound, NEW phase \in {"active", "failed"},
           Row(a, phase), unbound' = unbound \ {a}, UNCHANGED <<board, call, spawn, reserved>>,
           log'.ok, log'.tasks = log.tasks, log'.msgs = log.msgs,
           log'.rows[a] = phase, \A b \in Mates \ {a} : log'.rows[b] = log.rows[b]
    PROVE  BoardInv'
<1>1. a \in Mates /\ call = NoCall /\ spawn = NoCall /\ unbound \subseteq Mates
    BY DEF TypeOK
<1>2. /\ live'.tasks = live.tasks /\ live'.msgs = live.msgs
      /\ live'.rows = [live.rows EXCEPT ![a] = phase]
    BY <1>1, RowIs
<1>3. TaskInv' /\ MsgInv'
    BY <1>2, OnlyRows DEF BoardInv
<1>4. live.rows \in [Mates -> Phases]
    BY BoardParts DEF TypeOK
<1>5. live'.rows[a] = phase /\ \A b \in Mates \ {a} : live'.rows[b] = live.rows[b]
    BY <1>1, <1>2, <1>4
<1>6. RowInv'
    BY <1>1, <1>5 DEF BoardInv, RowInv, NoCall
<1> QED
    BY <1>3, <1>6 DEF BoardInv

LEMMA BindKeepsBoard ==
    ASSUME TypeOK, BoardInv, NEW a \in Mates, Bind(a) \/ BindFails(a), ~damaged'
    PROVE  BoardInv'
<1>1. board = "binding" /\ a \in unbound /\ unbound' = unbound \ {a} /\ UNCHANGED <<board, call, spawn, reserved>>
    BY DEF Bind, BindFails
<1>2. spawn = NoCall
    BY <1>1 DEF TypeOK
<1>3. live.rows[a] = log.rows[a] /\ live.rows[a] \in {"provisioning", "active"} /\ log.ok
    BY <1>1, <1>2 DEF BoardInv, TaskInv, RowInv
<1>4. log.rows \in [Mates -> Phases]
    BY LogParts DEF TypeOK
<1>5. ASSUME NEW phase \in {"active", "failed"}, Transition(a, phase), log.rows[a] = "provisioning"
      PROVE  /\ log'.ok /\ log'.tasks = log.tasks /\ log'.msgs = log.msgs /\ log'.rows[a] = phase
             /\ \A b \in Mates \ {a} : log'.rows[b] = log.rows[b]
    <2>1. /\ log'.tasks = log.tasks /\ log'.msgs = log.msgs /\ log'.rows = [log.rows EXCEPT ![a] = phase]
          /\ log'.ok <=> log.ok /\ log.rows[a] = "provisioning"
        BY <1>5, TransitionIs
    <2> QED
        BY <1>3, <1>4, <1>5, <2>1
<1>6. CASE Bind(a) /\ live.rows[a] = "provisioning"
    <2>1. Transition(a, "active") /\ Row(a, "active")
        BY <1>6 DEF Bind
    <2> QED
        BY <1>1, <1>3, <1>5, <1>6, <2>1, RowKeeps
<1>7. CASE Bind(a) /\ live.rows[a] # "provisioning"
    <2>1. log' = log /\ Row(a, "active") /\ log.rows[a] = "active"
        BY <1>3, <1>7 DEF Bind
    <2> QED
        BY <1>1, <1>3, <2>1, RowKeeps
<1>8. CASE BindFails(a)
    <2>1. Transition(a, "failed") /\ Row(a, "failed")
        BY <1>8 DEF BindFails
    <2>2. live.rows[a] # "active"
        BY <1>8, Zenon DEF BindFails
    <2> QED
        BY <1>1, <1>3, <1>5, <2>1, <2>2, RowKeeps
<1> QED
    BY <1>6, <1>7, <1>8

\* Replay of the log is the board.
LEMMA OpenKeepsBoard ==
    ASSUME TypeOK, BoardInv, Open \/ Opened
    PROVE  BoardInv'
<1>1. /\ board # "open" /\ board' # "absent" /\ call = NoCall /\ spawn = NoCall
      /\ UNCHANGED <<log, call, spawn, reserved>> /\ call'.at = "idle" /\ spawn'.at = "idle"
    BY DEF TypeOK, Open, Opened, disk, NoCall
<1>2. log.ok
    BY DEF BoardInv, TaskInv
<1>3. CASE Open
    <2>1. /\ live'.tasks = log.tasks /\ live'.msgs = log.msgs /\ live'.rows = log.rows
          /\ board' = "binding" /\ unbound' = ToBind
        BY <1>3 DEF Open
    <2>2. TaskInv'
        BY <1>1, <1>2, <2>1, TasksKept DEF BoardInv
    <2>3. MsgInv'
        BY <1>1, <2>1, MsgsKept DEF BoardInv
    <2>4. RowInv'
        BY <1>1, <2>1 DEF RowInv, ToBind
    <2> QED
        BY <2>2, <2>3, <2>4 DEF BoardInv
<1>4. CASE Opened
    <2>1. UNCHANGED <<live, unbound>> /\ board = "binding" /\ unbound = {} /\ board' = "open"
        BY <1>4 DEF Opened
    <2>2. live.tasks = log.tasks /\ Known(live.msgs) = Known(log.msgs)
        BY <1>1, <2>1 DEF BoardInv, TaskInv, MsgInv
    <2>3. TaskInv'
        BY <1>1, <1>2, <2>1, <2>2, TasksKept DEF BoardInv
    <2>4. MsgInv'
        BY <1>1, <2>1, <2>2, MsgsKept DEF BoardInv
    <2>5. RowInv'
        BY <1>1, <2>1 DEF BoardInv, RowInv
    <2> QED
        BY <2>3, <2>4, <2>5 DEF BoardInv
<1> QED
    BY <1>3, <1>4

\* The board is dropped, by a crash or because a teammate cannot be bound.
LEMMA DropKeepsBoard ==
    ASSUME TypeOK, BoardInv, Crash \/ \E a \in Mates : Unbindable(a)
    PROVE  BoardInv'
<1>1. board' = "absent" /\ live' = NewBoard /\ unbound' = {} /\ UNCHANGED <<log, reserved>>
    BY DEF Crash, Unbindable, disk
<1>2. call'.at = "idle" /\ spawn' = NoCall
    <2>1. CASE Crash
        BY <2>1 DEF Crash, NoCall
    <2>2. CASE \E a \in Mates : Unbindable(a)
        BY <2>2 DEF Unbindable, TypeOK, NoCall
    <2> QED
        BY <2>1, <2>2
<1>3. live'.tasks = NoTasks /\ spawn'.at = "idle"
    BY <1>1, <1>2 DEF NewBoard, NoCall
<1>4. TaskInv'
    BY <1>1, <1>2, <1>3, TasksKept DEF BoardInv, TaskInv
<1>5. MsgInv'
    BY <1>1, <1>2, MsgsKept DEF BoardInv
<1>6. RowInv'
    BY <1>1, <1>2, <1>3 DEF RowInv
<1> QED
    BY <1>4, <1>5, <1>6 DEF BoardInv

-----------------------------------------------------------------------------
(* The theorems about the board.                                           *)

LEMMA DamageLasts == ASSUME TypeOK, [Next]_vars, damaged PROVE damaged'
<1> USE DEF vars, memory, disk, mail, bounds
<1>1. CASE UNCHANGED vars
    BY <1>1
<1>2. CASE \/ \E a \in Team, blockers \in SUBSET TaskIds :
                TaskCreate(a, blockers) \/ \E t \in TaskIds : TaskUpdate(a, t, blockers)
           \/ \E a, b \in Team : Message(a, b)
           \/ ToolStep \/ SaveTaskFails \/ SaveMailFails
    BY <1>2, Zenon DEF TaskCreate, TaskUpdate, Message, ToolStep, SaveTask, SaveMail, SaveTaskFails, SaveMailFails
<1>3. CASE \/ \E v \in Visitors, a \in Team : Visit(v, a)
           \/ MailStep \/ \E m \in MsgIds : Cancelled(m)
    BY <1>3, Zenon DEF Visit, MailStep, Ack, Dispatch, Lookup, Receipt, Enqueue, Record, Cancelled
<1>4. CASE (\E a \in Mates : Provision(a)) \/ SpawnStep \/ StartFails \/ SaveActiveFails
    BY <1>4, Zenon DEF Provision, SpawnStep, Publish, Started, SaveActive, SaveFailed, StartFails, SaveActiveFails
<1>5. CASE OpenStep \/ (\E a \in Mates : BindFails(a) \/ Unbindable(a)) \/ Crash
    BY <1>5, Zenon DEF OpenStep, Open, Opened, Bind, BindFails, Unbindable, Crash
<1> QED
    BY <1>1, <1>2, <1>3, <1>4, <1>5 DEF Next

LEMMA NextBoard == ASSUME TypeOK, MailInv, BoardInv, ~damaged', [Next]_vars PROVE BoardInv'
<1>1. CASE UNCHANGED vars
    <2>1. SameCall /\ UNCHANGED <<live, log, board, unbound, spawn, reserved>>
        BY <1>1 DEF SameCall, vars, memory, disk
    <2> QED
        BY <2>1, BoardKept
<1>2. CASE \E a \in Team, blockers \in SUBSET TaskIds :
             TaskCreate(a, blockers) \/ \E t \in TaskIds : TaskUpdate(a, t, blockers)
    BY <1>2, CreateKeepsBoard, UpdateKeepsBoard
<1>3. CASE SaveTask
    BY <1>3, SaveTaskKeepsBoard
<1>4. CASE SaveTaskFails \/ SaveMailFails
    BY <1>4, RollbackKeepsBoard
<1>5. CASE \E a, b \in Team : Message(a, b)
    BY <1>5, MessageKeepsBoard
<1>6. CASE SaveMail
    BY <1>6, SaveMailKeepsBoard
<1>7. CASE \/ \E v \in Visitors, a \in Team : Visit(v, a)
           \/ \E p \in Callers, m \in MsgIds : Dispatch(p, m)
           \/ \E m \in MsgIds : Cancelled(m) \/ Lookup(m) \/ Receipt(m) \/ Enqueue(m)
    BY <1>7, DispatchKeepsBoard
<1>8. CASE \E m \in MsgIds : Record(m)
    BY <1>8, RecordKeepsBoard
<1>9. CASE \E p \in Callers : Ack(p)
    BY <1>9, AckKeepsBoard
<1>10. CASE \E a \in Mates : Provision(a)
    BY <1>10, ProvisionKeepsBoard
<1>11. CASE Publish \/ Started \/ StartFails
    BY <1>11, PublishKeepsBoard
<1>12. CASE SaveActive \/ SaveFailed \/ SaveActiveFails
    BY <1>12, SavedKeepsBoard
<1>13. CASE Open \/ Opened
    BY <1>13, OpenKeepsBoard
<1>14. CASE \E a \in Mates : Bind(a) \/ BindFails(a)
    BY <1>14, BindKeepsBoard
<1>15. CASE Crash \/ \E a \in Mates : Unbindable(a)
    BY <1>15, DropKeepsBoard
<1> QED
    BY <1>1, <1>2, <1>3, <1>4, <1>5, <1>6, <1>7, <1>8, <1>9, <1>10, <1>11, <1>12, <1>13, <1>14, <1>15
       DEF Next, ToolStep, MailStep, SpawnStep, OpenStep

LEMMA EmptySound == Sound(NoTasks)
BY DEF Sound, Standing, NoTasks, NoTask

LEMMA InitBoard == Init => BoardInv
<1> SUFFICES ASSUME Init PROVE BoardInv
    OBVIOUS
<1>1. /\ log.ok /\ log.tasks = NoTasks /\ log.msgs = NoMsgs /\ live.tasks = NoTasks /\ board = "absent"
      /\ call.at = "idle" /\ spawn = NoCall /\ spawn.at = "idle" /\ unbound = {}
    BY DEF Init, NewBoard, NoCall
<1>2. \A t \in TaskIds : NoTasks[t].status = "absent" /\ NoTasks[t].revision = 0
    BY DEF NoTasks, NoTask
<1>3. TaskInv
    BY <1>1, <1>2, EmptySound DEF TaskInv
<1>4. MsgInv /\ RowInv
    BY <1>1 DEF MsgInv, RowInv
<1> QED
    BY <1>3, <1>4 DEF BoardInv

\* The invariant is inductive.
LEMMA Invariant == Spec => []IInv
<1>1. Init => IInv
    BY InitTypes, InitMail, InitBoard DEF IInv
<1>2. IInv /\ [Next]_vars => IInv'
    <2> SUFFICES ASSUME IInv, [Next]_vars PROVE IInv'
        OBVIOUS
    <2>1. TypeOK' /\ MailInv'
        BY NextTypes, NextMail DEF IInv, MailInv
    <2>2. ASSUME ~damaged' PROVE BoardInv'
        BY <2>2, DamageLasts, NextBoard DEF IInv
    <2> QED
        BY <2>1, <2>2 DEF IInv
<1> QED
    BY <1>1, <1>2, PTL DEF Spec

\* The state of the board, of its log and of every call has its type, and a
\* board that is not published has no calls.
THEOREM TypeCorrect == Spec => []TypeOK
<1>1. IInv => TypeOK
    BY DEF IInv
<1> QED
    BY <1>1, Invariant, PTL

\* dispatchTeamMessageNow: however often a message is sent again, after a failed
\* append, a crash or by two callers at once, its target receives it once, and
\* a delivery on the board is in the log, and one in the log was received.
THEOREM ReceivedOnceHolds == Spec => []ReceivedOnce
<1>1. IInv => ReceivedOnce
    BY DEF IInv, MailInv, ReceiptInv, DeliveredInv, Delivered, ReceivedOnce
<1> QED
    BY <1>1, Invariant, PTL

\* validateEdgesLocked: no chain of updates, rollbacks and replays makes tasks
\* wait for each other in a circle, and no standing task waits for one that is gone.
THEOREM NoDeadBlockersHolds == Spec => []NoDeadBlockers
<1>1. ASSUME IInv, ~damaged PROVE Sound(live.tasks)
    <2>1. TaskInv
        BY <1>1 DEF IInv, BoardInv
    <2> QED
        BY <2>1, EmptySound DEF TaskInv
<1>2. IInv => NoDeadBlockers
    BY <1>1 DEF NoDeadBlockers, Sound
<1> QED
    BY <1>2, Invariant, PTL

\* saveEvent, Restore and ApplyEvent: until a rollback or a member event loses a
\* committed fact, replay accepts the log and gives the board that is published,
\* but for the calls that run.
THEOREM BoardFollowsLogHolds == Spec => []BoardFollowsLog
<1>1. ASSUME IInv, ~damaged PROVE BoardFollowsLog
    <2>1. TypeOK /\ TaskInv /\ MsgInv /\ RowInv
        BY <1>1 DEF IInv, BoardInv
    <2>2. log.ok
        BY <2>1 DEF TaskInv
    <2>3. ASSUME board = "open", NEW t \in TaskIds, ~(call.at = "task" /\ call.id = t)
          PROVE  live.tasks[t] = log.tasks[t]
        <3>1. CASE call.at = "task"
            <4>1. log.tasks \in [TaskIds -> Tasks]
                BY <2>1, LogParts DEF TypeOK
            <4> QED
                BY <2>1, <2>3, <3>1, <4>1 DEF TaskInv
        <3>2. CASE call.at # "task"
            BY <2>1, <2>3, <3>2 DEF TaskInv
        <3> QED
            BY <3>1, <3>2
    <2>4. ASSUME board = "open"
          PROVE  Known(live.msgs) \ (IF call.at = "mail" THEN {call.id} ELSE {}) = Known(log.msgs)
        BY <2>1, <2>4 DEF MsgInv
    <2>5. ASSUME board = "open", NEW a \in Mates
          PROVE  (spawn # NoCall /\ spawn.who = a) \/ live.rows[a] = log.rows[a]
        BY <2>1, <2>5 DEF RowInv
    <2> QED
        BY <2>2, <2>3, <2>4, <2>5 DEF BoardFollowsLog, Known
<1>2. IInv => BoardFollowsLog
    BY <1>1 DEF BoardFollowsLog
<1> QED
    BY <1>2, Invariant, PTL
=============================================================================
