--------------------------- MODULE CompletionWakes ---------------------------
(***************************************************************************)
(* How the end of a background job reaches the session that owns it        *)
(* (cmd/sta/jobs.go and cmd/sta/agent_runtime.go). The observer of each    *)
(* job records job/done in the session log and then puts a notice in the   *)
(* owner's inbox; whoever asks for the session's Agent first repairs the   *)
(* notices that the log lacks. The inbox is durable and drops a notice     *)
(* only while an equal one is pending. Jobs, Agents and the wake budget    *)
(* live in memory.                                                         *)
(*                                                                         *)
(* Processes are the observers, one per job, and the visitors: surfaces    *)
(* that fetch the Agent and send it a user message.                        *)
(***************************************************************************)
EXTENDS Integers, Sequences, FiniteSets

CONSTANTS
    Jobs, Visitors,
    User,          \* a user message in the queue
    Nobody,        \* nobody holds agentMu
    Limit,         \* MaxConsecutiveWakes
    MaxTroubles    \* bound: failing appends, closed Agents, shutdowns, crashes

ASSUME WakesAssumption ==
    /\ Limit \in Nat \ {0} /\ MaxTroubles \in Nat
    /\ Jobs \cap Visitors = {} /\ User \notin Jobs /\ Nobody \notin Jobs \cup Visitors

Procs == Jobs \cup Visitors

VARIABLES
    done,       \* how many job/done events the log has for each job
    receipts,   \* how many notices were ever inserted for it
    nextTurn,   \* the inbox: waking messages in order
    quiet,      \* the inbox: jobs with a quiet notice
    agent,      \* the Agent of the session: "none", "idle", "running", "closed"
    count,      \* jobWakeCounts[owner]
    stopped,    \* shutdownStarted
    agentMu,    \* who is inside sessionAgent
    pc, mode,   \* where a process is, and for which of its deliveries
    held,       \* the processes whose handle is that Agent's, and not closed
    todo, cur,  \* notices still to deliver, and the one in hand
    way,        \* Followup ("wake") or Inject ("quiet")
    tracked,    \* transitionTracker: jobs whose end the tools have reported
    allowance,  \* history: turns that job notices may still start in a row
    before,     \* history: the jobs with a notice when the process last ended
    troubles

logVars == <<done, receipts, nextTurn, quiet>>
memVars == <<agent, count, stopped, agentMu, tracked>>
procVars == <<pc, mode, held, todo, cur, way>>
histVars == <<allowance, before>>
vars == <<logVars, memVars, procVars, histVars, troubles>>

Init ==
    /\ done = [j \in Jobs |-> 0] /\ receipts = [j \in Jobs |-> 0] /\ nextTurn = <<>> /\ quiet = {}
    /\ agent = "none" /\ count = 0 /\ stopped = FALSE /\ agentMu = Nobody /\ tracked = {}
    /\ pc = [p \in Procs |-> IF p \in Jobs THEN "running" ELSE "rest"]
    /\ mode = [p \in Procs |-> "own"] /\ held = {} /\ todo = [p \in Procs |-> {}]
    /\ cur = [p \in Procs |-> Nobody] /\ way = [p \in Procs |-> "quiet"]
    /\ allowance = Limit /\ before = {} /\ troubles = 0

Trouble == troubles < MaxTroubles /\ troubles' = troubles + 1
Goto(p, l) == pc' = [pc EXCEPT ![p] = l]

Queued == {nextTurn[k] : k \in DOMAIN nextTurn}
Pending(j) == j \in Queued \cup quiet
\* The handle that p holds is closed.
Closed(p) == p \notin held

----------------------------------------------------------------------------
(* The observer records the end of its job.                                *)

Settle(j) ==
    /\ pc[j] = "running" /\ Goto(j, "record")
    /\ UNCHANGED <<logVars, memVars, histVars, mode, held, todo, cur, way, troubles>>

\* ensureJobDone, and the end of the observer when it fails or the process is
\* shutting down.
Record(j) ==
    /\ pc[j] = "record"
    /\ \/ /\ done' = IF done[j] = 0 THEN [done EXCEPT ![j] = 1] ELSE done
          /\ Goto(j, IF stopped THEN "end" ELSE "find") /\ UNCHANGED troubles
       \/ done[j] = 0 /\ Trouble /\ Goto(j, "end") /\ UNCHANGED done
    /\ UNCHANGED <<receipts, nextTurn, quiet, memVars, histVars, mode, held, todo, cur, way>>

\* A job tool that runs in a turn reports the end it sees, once, by its own
\* tracker and without a look at the log (reportTransition, appendRuntimeEvent).
ToolReports(j) ==
    /\ agent = "running" /\ pc[j] \notin {"running", "gone"} /\ j \notin tracked
    /\ tracked' = tracked \cup {j}
    /\ \/ done' = [done EXCEPT ![j] = @ + 1] /\ UNCHANGED troubles
       \/ Trouble /\ UNCHANGED done
    /\ UNCHANGED <<receipts, nextTurn, quiet, agent, count, stopped, agentMu, procVars, histVars>>

----------------------------------------------------------------------------
(* sessionAgent: hand out the Agent, after the missing notices.            *)

\* Faulty: a notice that was read counts as missing.
MissingPending == {j \in Jobs : done[j] > 0 /\ ~Pending(j)}
\* recoverJobCompletionWakes: done in the log without any insertion.
Missing == {j \in Jobs : done[j] > 0 /\ receipts[j] = 0}

Deliver(p, m, js) ==
    mode' = [mode EXCEPT ![p] = m] /\ todo' = [todo EXCEPT ![p] = js] /\ Goto(p, "grant")

\* The Agent is built from the log when there is none.
Find(p) ==
    /\ pc[p] = IF p \in Jobs THEN "find" ELSE "rest"
    /\ agentMu = Nobody /\ ~stopped /\ agent # "closed"
    /\ agentMu' = p /\ Deliver(p, "locked", Missing) /\ held' = held \cup {p}
    /\ agent' = IF agent = "none" THEN "idle" ELSE agent
    /\ UNCHANGED <<logVars, count, stopped, tracked, histVars, cur, way, troubles>>

\* No Agent during a shutdown, nor after a closed one: it is still registered,
\* and Registry.Create refuses another with its id.
FindRefused(j) ==
    /\ j \in Jobs /\ pc[j] = "find" /\ Goto(j, "end")
    /\ stopped \/ (agentMu = Nobody /\ agent = "closed")
    /\ UNCHANGED <<logVars, memVars, histVars, mode, held, todo, cur, way, troubles>>

----------------------------------------------------------------------------
(* deliverJobCompletionWake, for one notice after the other.               *)

\* Faulty: the budget is looked at and not spent.
GrantUnspent(p) ==
    /\ pc[p] = "grant" /\ todo[p] # {} /\ Goto(p, "put")
    /\ \E j \in todo[p] : cur' = [cur EXCEPT ![p] = j]
    /\ way' = [way EXCEPT ![p] = IF ~Closed(p) /\ agent = "idle" /\ count < Limit THEN "wake" ELSE "quiet"]
    /\ UNCHANGED <<logVars, memVars, histVars, mode, held, todo, troubles>>

\* An idle Agent is woken while the budget lasts.
Grant(p) ==
    /\ pc[p] = "grant" /\ todo[p] # {} /\ Goto(p, "put")
    /\ \E j \in todo[p] : cur' = [cur EXCEPT ![p] = j]
    /\ LET wakes == ~Closed(p) /\ agent = "idle" /\ count < Limit
       IN  /\ way' = [way EXCEPT ![p] = IF wakes THEN "wake" ELSE "quiet"]
           /\ count' = IF wakes THEN count + 1 ELSE count
    /\ UNCHANGED <<logVars, agent, stopped, agentMu, tracked, histVars, mode, held, todo, troubles>>

NextNotice(p) ==
    todo' = [todo EXCEPT ![p] = @ \ {cur[p]}] /\ Goto(p, "grant") /\ UNCHANGED mode

\* The insertion. A failing one of the observer's own notice is retried from
\* the log, unless the Agent is closed.
Put(p) ==
    /\ pc[p] = "put"
    /\ \/ /\ ~Closed(p) /\ Pending(cur[p]) /\ NextNotice(p) /\ UNCHANGED <<logVars, troubles>>
       \/ /\ ~Closed(p) /\ ~Pending(cur[p]) /\ NextNotice(p)
          /\ receipts' = [receipts EXCEPT ![cur[p]] = @ + 1]
          /\ nextTurn' = IF way[p] = "wake" THEN Append(nextTurn, cur[p]) ELSE nextTurn
          /\ quiet' = IF way[p] = "wake" THEN quiet ELSE quiet \cup {cur[p]}
          /\ UNCHANGED <<done, troubles>>
       \/ /\ ~Closed(p) /\ ~Pending(cur[p]) /\ Trouble /\ UNCHANGED logVars
          /\ IF mode[p] = "own" THEN Deliver(p, "retry", Missing) ELSE NextNotice(p)
       \/ Closed(p) /\ NextNotice(p) /\ UNCHANGED <<logVars, troubles>>
    /\ cur' = [cur EXCEPT ![p] = Nobody] /\ way' = [way EXCEPT ![p] = "quiet"]
    /\ UNCHANGED <<memVars, histVars, held>>

\* All notices are tried. Leaving sessionAgent, an observer delivers its own
\* once more and a visitor sends its message.
Leave(p) ==
    /\ pc[p] = "grant" /\ todo[p] = {}
    /\ \/ /\ mode[p] = "locked" /\ agentMu' = Nobody
          /\ Deliver(p, "own", {p}) /\ p \in Jobs /\ UNCHANGED held
       \/ /\ mode[p] = "locked" /\ agentMu' = Nobody
          /\ Goto(p, "send") /\ p \in Visitors /\ UNCHANGED <<held, mode, todo>>
       \/ /\ mode[p] # "locked" /\ mode' = [mode EXCEPT ![p] = "own"]
          /\ Goto(p, "end") /\ held' = held \ {p} /\ UNCHANGED <<agentMu, todo>>
    /\ UNCHANGED <<logVars, agent, count, stopped, tracked, histVars, cur, way, troubles>>

Send(v) ==
    /\ v \in Visitors /\ pc[v] = "send" /\ Goto(v, "rest") /\ held' = held \ {v} /\ mode' = [mode EXCEPT ![v] = "own"]
    /\ nextTurn' = IF Closed(v) \/ User \in Queued THEN nextTurn ELSE Append(nextTurn, User)
    /\ UNCHANGED <<done, receipts, quiet, memVars, histVars, todo, cur, way, troubles>>

----------------------------------------------------------------------------
(* The Agent: turns, steps, close; shutdown and crash.                     *)

\* Only a message that is not a job notice renews the budget.
Renews(m) == m = User

WakesUnderWay(queue) ==
    Cardinality({k \in DOMAIN queue : queue[k] # User})
    + Cardinality({p \in Procs : pc[p] = "put" /\ way[p] = "wake"})

\* Faulty: the claim forgets the quiet notices.
StartTurnLeavesQuiet ==
    /\ agent = "idle" /\ nextTurn # <<>> /\ ~stopped
    /\ agent' = "running" /\ nextTurn' = Tail(nextTurn)
    /\ count' = IF Renews(nextTurn[1]) THEN 0 ELSE count
    /\ allowance' = IF nextTurn[1] = User THEN Limit + WakesUnderWay(Tail(nextTurn)) ELSE allowance - 1
    /\ UNCHANGED <<done, receipts, quiet, stopped, agentMu, tracked, procVars, before, troubles>>

\* A claim takes the first waking message and every quiet one.
StartTurn ==
    /\ agent = "idle" /\ nextTurn # <<>> /\ ~stopped
    /\ agent' = "running" /\ nextTurn' = Tail(nextTurn) /\ quiet' = {}
    /\ count' = IF Renews(nextTurn[1]) THEN 0 ELSE count
    /\ allowance' = IF nextTurn[1] = User THEN Limit + WakesUnderWay(Tail(nextTurn)) ELSE allowance - 1
    /\ UNCHANGED <<done, receipts, stopped, agentMu, tracked, procVars, before, troubles>>

ClaimStep ==
    /\ agent = "running" /\ quiet # {} /\ quiet' = {}
    /\ UNCHANGED <<done, receipts, nextTurn, memVars, procVars, histVars, troubles>>

EndTurn ==
    /\ agent = "running" /\ agent' = "idle"
    /\ UNCHANGED <<logVars, count, stopped, agentMu, tracked, procVars, histVars, troubles>>

\* The Agent's driver gives up or a surface closes its handle: the memo goes,
\* the registration stays.
CloseAgent ==
    /\ agent \in {"idle", "running"} /\ Trouble /\ agent' = "closed" /\ held' = {}
    /\ UNCHANGED <<logVars, count, stopped, agentMu, tracked, pc, mode, todo, cur, way, histVars>>

Stop ==
    /\ ~stopped /\ Trouble /\ stopped' = TRUE
    /\ UNCHANGED <<logVars, agent, count, agentMu, tracked, procVars, histVars>>

\* The process ends and starts again: running jobs and unrecorded ends are
\* gone, the log and the inbox stay.
StartAgain ==
    /\ agent' = "none" /\ count' = 0 /\ stopped' = FALSE /\ agentMu' = Nobody /\ tracked' = {}
    /\ pc' = [p \in Procs |-> IF p \in Jobs THEN "gone" ELSE "rest"]
    /\ mode' = [p \in Procs |-> "own"] /\ todo' = [p \in Procs |-> {}]
    /\ cur' = [p \in Procs |-> Nobody] /\ way' = [p \in Procs |-> "quiet"] /\ held' = {}
    /\ allowance' = Limit + Cardinality({k \in DOMAIN nextTurn : nextTurn[k] # User})
    /\ before' = {j \in Jobs : receipts[j] > 0} /\ UNCHANGED logVars
Crash == Trouble /\ StartAgain
Exit == stopped /\ StartAgain /\ UNCHANGED troubles

Serve(p) == Find(p) \/ Grant(p) \/ Put(p) \/ Leave(p) \/ Send(p) \/ FindRefused(p)

Next ==
    \/ \E j \in Jobs : Settle(j) \/ Record(j) \/ ToolReports(j)
    \/ \E p \in Procs : Serve(p)
    \/ StartTurn \/ ClaimStep \/ EndTurn
    \/ CloseAgent \/ Stop \/ Crash \/ Exit

Spec == Init /\ [][Next]_vars

\* Every process and the driver go on, a stopped process is started again and
\* the session is visited again and again. Jobs may run for ever.
FairSpec ==
    /\ Spec /\ WF_vars(StartTurn) /\ WF_vars(EndTurn) /\ WF_vars(Exit)
    /\ \A p \in Procs : SF_vars(Find(p)) /\ WF_vars(Grant(p) \/ Put(p) \/ Leave(p) \/ Send(p) \/ FindRefused(p))

----------------------------------------------------------------------------
(* Properties.                                                             *)

\* Types; the queue holds a notice at most once.
TypeOK ==
    /\ done \in [Jobs -> 0 .. 2] /\ receipts \in [Jobs -> Nat]
    /\ nextTurn \in Seq(Jobs \cup {User}) /\ quiet \subseteq Jobs
    /\ \A j \in Jobs : Cardinality({k \in DOMAIN nextTurn : nextTurn[k] = j}) <= 1
    /\ agent \in {"none", "idle", "running", "closed"} /\ count \in 0 .. Limit
    /\ stopped \in BOOLEAN /\ agentMu \in Procs \cup {Nobody} /\ tracked \subseteq Jobs
    /\ pc \in [Procs -> {"running", "gone", "record", "rest", "find", "grant", "put", "send", "end"}]
    /\ mode \in [Procs -> {"locked", "own", "retry"}] /\ held \subseteq Procs
    /\ todo \in [Procs -> SUBSET Jobs] /\ cur \in [Procs -> Jobs \cup {Nobody}]
    /\ way \in [Procs -> {"wake", "quiet"}] /\ troubles \in 0 .. MaxTroubles
    /\ allowance \in Int /\ before \subseteq Jobs

\* Job notices start at most Limit turns in a row beyond the wakes that were
\* under way when a user turn or a restart renewed the budget, whichever of
\* observer, repair and retry delivers them (deliverJobCompletionWake).
WakeBudget == allowance >= 0

\* A notice that was inserted before a restart is not inserted again after it,
\* read or not (recoverJobCompletionWakes).
NotReplayed == [][\A j \in before : receipts'[j] = receipts[j]]_vars

\* A recorded end reaches a turn of the owner, in spite of failing insertions,
\* shutdowns and crashes in between, as long as the session is visited and its
\* Agent is not closed (sessionAgent repairs, a turn claims the quiet notices).
\* A closed Agent delays it to the next process.
NoticeReachesTurn ==
    \A j \in Jobs : (done[j] > 0) ~> ((receipts[j] > 0 /\ ~Pending(j)) \/ agent = "closed")

\* "discard the stale entry and materialize a fresh owner from the durable
\* session" (sessionAgent): a session whose Agent was closed gets another one
\* from a later visit. TLC refutes it.
Rematerialized == (agent = "closed") ~> (agent # "closed")

\* One job/done event per job ("so a fast job cannot produce duplicate job/done
\* events", notifyCompletion in internal/jobs/tools.go).
DoneOnce == \A j \in Jobs : done[j] <= 1
=============================================================================
