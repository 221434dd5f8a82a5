------------------------------ MODULE AgentTree ------------------------------
(***************************************************************************)
(* The tree of Agents and of their scopes: Scope (internal/agent/scope.go),*)
(* Registry and what the tree needs of Agent (internal/agent/agent.go;     *)
(* AgentDriver has the rest), and its two users: sessionAgent              *)
(* (cmd/sta/agent_runtime.go), which keeps one Agent per session, and the  *)
(* roster, which makes the Agents of teammates below that of their lead.   *)
(*                                                                         *)
(* An instance is one Agent object with its scope; an id may have several  *)
(* in turn. A call that closes something is a list of steps still to take: *)
(* closing a scope replaces itself by the closing of its children and then *)
(* its cleanups, the last one registered first, so the list is the call    *)
(* stack of the code.                                                      *)
(***************************************************************************)
EXTENDS Integers, Sequences, SequencesExt, FiniteSets

CONSTANTS
    Ids, ParentOf,  \* the id above each id, or Nobody for a session
    Creators,       \* callers of sessionAgent and of the roster
    Closers,        \* callers of Registry.Close or Handle.Close
    Sweepers,       \* callers of CloseAll
    Nobody,
    MaxAgents,      \* bound: instances
    MaxFaults       \* bound: failing claims

Root == 0                     \* the registry's scope
None == 0                     \* no instance
Agents == 1 .. MaxAgents
Scopes == 0 .. MaxAgents
Callers == Creators \cup Closers \cup Sweepers
Procs == Agents \cup Callers  \* a driver has the name of its Agent

\* The roster makes every teammate a child of its lead (leadID), the root session of
\* the team (teamRootSessionID), whose Agent has no parent; each call has a goroutine
\* of its own.
TreeShape ==
    /\ ParentOf \in [Ids -> Ids \cup {Nobody}] /\ Nobody \notin Ids
    /\ \A x \in Ids : ParentOf[x] # Nobody => ParentOf[ParentOf[x]] = Nobody
    /\ Nobody \notin Creators /\ Closers \cap Sweepers = {} /\ Agents \cap Callers = {}
    /\ MaxAgents \in Nat \ {0} /\ MaxFaults \in Nat

ASSUME TreeAssumption == TreeShape

VARIABLES
    made,                     \* how many instances there are
    id, parent,               \* of each instance
    driver,                   \* "none", "idle", "turn", "exit", "gone"
    closed, disposed, done,   \* the Agents' flags; done is closeDone
    scopeClosed, kids, cleanups,
    agents,                   \* the registry: the instance of each id
    registryClosed, regMu,    \* the registry's mutex, while a Create holds it
    memo, agentMu,            \* sessionAgents and its mutex
    pc, new,                  \* a creator's place, and its instance
    work,                     \* what a closing call still has to do
    released,                 \* history: instances whose resources were released
    owned,                    \* history: instances whose cleanup was accepted
    ended,                    \* the context of the process has ended
    faults

agentVars == <<made, id, parent, driver>>
flagVars == <<closed, disposed, done>>
scopeVars == <<scopeClosed, kids, cleanups>>
regVars == <<agents, registryClosed, regMu>>
memoVars == <<memo, agentMu>>
callVars == <<pc, new>>
histVars == <<released, owned>>
envVars == <<ended, faults>>
vars == <<agentVars, flagVars, scopeVars, regVars, memoVars, callVars, work, histVars, envVars>>

Step(do, on) == [do |-> do, on |-> on]

Init ==
    /\ made = 0 /\ id = [i \in Agents |-> Nobody] /\ parent = [i \in Agents |-> Root]
    /\ driver = [i \in Agents |-> "none"] /\ closed = {} /\ disposed = {} /\ done = {}
    /\ scopeClosed = {} /\ kids = [s \in Scopes |-> <<>>] /\ cleanups = [s \in Scopes |-> <<>>]
    /\ agents = [x \in Ids |-> None] /\ registryClosed = FALSE /\ regMu = Nobody
    /\ memo = [x \in Ids |-> None] /\ agentMu = Nobody
    /\ pc = [c \in Callers |-> "ready"] /\ new = [c \in Creators |-> None]
    /\ work = [p \in Procs |-> <<>>] /\ released = [i \in Agents |-> 0] /\ owned = {}
    /\ ended = FALSE /\ faults = 0

Session(x) == ParentOf[x] = Nobody
Goto(c, l) == pc' = [pc EXCEPT ![c] = l]
Do(p, steps) == work' = [work EXCEPT ![p] = steps]

----------------------------------------------------------------------------
(* Creation: Registry.Create inside sessionAgent or the roster.            *)

\* A session that has an Agent is served by it, unless that Agent is closed.
Served(x) == Session(x) /\ memo[x] # None /\ memo[x] \notin closed

\* NewScope under the parent's mutex: a child of a closed scope is closed.
NewScope(i, above) ==
    IF above \in scopeClosed
    THEN scopeClosed' = scopeClosed \cup {i} /\ UNCHANGED kids
    ELSE kids' = [kids EXCEPT ![above] = Append(@, i)] /\ UNCHANGED scopeClosed

\* The first part of Create, up to the new scope; the registry stays locked.
\* sessionAgent forgets a closed Agent before it. newAgent returns its Agent.
Create(c, x) ==
    LET i == made + 1
        above == IF Session(x) THEN Root ELSE agents[ParentOf[x]]
    IN  /\ pc[c] = "ready" /\ made < MaxAgents /\ ~Served(x)
        /\ Session(x) => agentMu = Nobody
        /\ regMu = Nobody /\ ~registryClosed /\ agents[x] = None
        /\ ~Session(x) => above # None
        /\ made' = i /\ id' = [id EXCEPT ![i] = x] /\ parent' = [parent EXCEPT ![i] = above]
        /\ NewScope(i, above) /\ regMu' = c
        /\ agentMu' = IF Session(x) THEN c ELSE agentMu
        /\ memo' = IF Session(x) THEN [memo EXCEPT ![x] = None] ELSE memo
        /\ new' = [new EXCEPT ![c] = i] /\ Goto(c, "publish")
        /\ UNCHANGED <<driver, flagVars, cleanups, agents, registryClosed, work, histVars, envVars>>

\* Faulty: the child is published although its parent took no cleanup.
PublishAnyway(c) ==
    LET i == new[c]
    IN  /\ pc[c] = "publish" /\ regMu' = Nobody
        /\ agents' = [agents EXCEPT ![id[i]] = i] /\ Goto(c, "setup") /\ UNCHANGED work
        /\ cleanups' = IF parent[i] = Root \/ parent[i] \in scopeClosed THEN cleanups
                       ELSE [cleanups EXCEPT ![parent[i]] = Append(@, Step("unregister", id[i]))]
        /\ UNCHANGED <<agentVars, flagVars, scopeClosed, kids, registryClosed, memoVars, new, histVars, envVars>>

\* Publication, and the cleanup that closes a child with its parent; refused
\* when the parent's scope was closed meanwhile, and then rolled back.
Publish(c) ==
    LET i == new[c]
        orphan == parent[i] # Root /\ parent[i] \in scopeClosed
    IN  /\ pc[c] = "publish" /\ regMu' = Nobody
        /\ agents' = IF orphan THEN agents ELSE [agents EXCEPT ![id[i]] = i]
        /\ cleanups' = IF orphan \/ parent[i] = Root THEN cleanups
                       ELSE [cleanups EXCEPT ![parent[i]] = Append(@, Step("unregister", id[i]))]
        /\ IF orphan THEN Goto(c, "undo") /\ Do(c, <<Step("close", i)>>)
                     ELSE Goto(c, "setup") /\ UNCHANGED work
        /\ UNCHANGED <<agentVars, flagVars, scopeClosed, kids, registryClosed, memoVars, new, histVars, envVars>>

\* Both users give up by closing whatever the registry has under their id.
GiveUp(c) == Goto(c, "undo") /\ Do(c, <<Step("unregister", id[new[c]])>>)

\* The cleanups of the user: the memo of a session, and the release of jobs,
\* terminals and policies. A session has them before Start, a teammate after.
Setup(c) ==
    LET i == new[c]
        x == id[i]
    IN  /\ new[c] # None /\ pc[c] = IF Session(x) THEN "setup" ELSE "finish"
        /\ IF i \in scopeClosed
           THEN GiveUp(c) /\ UNCHANGED <<cleanups, owned>>
           ELSE /\ cleanups' = [cleanups EXCEPT ![i] =
                     @ \o (IF Session(x) THEN <<Step("forget", i)>> ELSE <<>>) \o <<Step("release", i)>>]
                /\ owned' = owned \cup {i} /\ UNCHANGED work
                /\ Goto(c, IF Session(x) THEN "start" ELSE "ready")
        /\ UNCHANGED <<agentVars, flagVars, scopeClosed, kids, regVars, memoVars, new, released, envVars>>

\* Start, refused for a closed Agent and when the process ends, and for a session
\* the memo.
Start(c) ==
    LET i == new[c]
        x == id[i]
    IN  /\ new[c] # None /\ pc[c] = IF Session(x) THEN "start" ELSE "setup"
        /\ IF ended \/ i \in closed
           THEN GiveUp(c) /\ UNCHANGED <<driver, memoVars>>
           ELSE /\ driver' = [driver EXCEPT ![i] = "idle"] /\ UNCHANGED work
                /\ memo' = IF Session(x) THEN [memo EXCEPT ![x] = i] ELSE memo
                /\ agentMu' = IF Session(x) THEN Nobody ELSE agentMu
                /\ Goto(c, IF Session(x) THEN "ready" ELSE "finish")
        /\ UNCHANGED <<made, id, parent, flagVars, scopeVars, regVars, new, histVars, envVars>>

\* The rollback is done.
Undone(c) ==
    /\ pc[c] = "undo" /\ work[c] = <<>> /\ Goto(c, "ready")
    /\ agentMu' = IF agentMu = c THEN Nobody ELSE agentMu
    /\ UNCHANGED <<agentVars, flagVars, scopeVars, regVars, memo, new, work, histVars, envVars>>

----------------------------------------------------------------------------
(* The calls that close.                                                   *)

\* Registry.Close of an id, or Close of a handle that sessionAgent gave out.
CallClose(c) ==
    /\ pc[c] = "ready" /\ Goto(c, "closing")
    /\ \E x \in Ids :
          \/ agents[x] # None /\ Do(c, <<Step("unregister", x)>>)
          \/ memo[x] # None /\ Do(c, <<Step("close", memo[x])>>)
    /\ UNCHANGED <<agentVars, flagVars, scopeVars, regVars, memoVars, new, histVars, envVars>>

\* Faulty: CloseAll leaves the registry open.
CloseAllOpen(c) ==
    /\ pc[c] = "ready" /\ regMu = Nobody /\ Goto(c, "closing")
    /\ \E order \in SetToSeqs({agents[x] : x \in Ids} \ {None}) :
          Do(c, [n \in 1 .. Len(order) |-> Step("close", order[n])] \o <<Step("scope", Root)>>)
    /\ agents' = [x \in Ids |-> None]
    /\ UNCHANGED <<agentVars, flagVars, scopeVars, registryClosed, regMu, memoVars, new, histVars, envVars>>

\* CloseAll takes every Agent out of the registry and closes one after the
\* other, in the order of their ids, which is left open here; then the root. A
\* second call returns at once.
CloseAll(c) ==
    /\ pc[c] = "ready" /\ regMu = Nobody /\ ~registryClosed /\ Goto(c, "closing")
    /\ \E order \in SetToSeqs({agents[x] : x \in Ids} \ {None}) :
          Do(c, [n \in 1 .. Len(order) |-> Step("close", order[n])] \o <<Step("scope", Root)>>)
    /\ registryClosed' = TRUE /\ agents' = [x \in Ids |-> None]
    /\ UNCHANGED <<agentVars, flagVars, scopeVars, regMu, memoVars, new, histVars, envVars>>

Return(c) ==
    /\ pc[c] = "closing" /\ work[c] = <<>> /\ Goto(c, "returned")
    /\ UNCHANGED <<agentVars, flagVars, scopeVars, regVars, memoVars, new, work, histVars, envVars>>

----------------------------------------------------------------------------
(* The steps of a closing call.                                            *)

Todo(p, do) == work[p] # <<>> /\ work[p][1].do = do
On(p) == work[p][1].on
Replace(p, steps) == Do(p, steps \o Tail(work[p]))

\* Registry.Close: the Agent leaves the registry before it is closed; an
\* unknown id counts as closed.
Unregister(p) ==
    /\ Todo(p, "unregister") /\ regMu = Nobody
    /\ agents' = [agents EXCEPT ![On(p)] = None]
    /\ Replace(p, IF agents[On(p)] = None THEN <<>> ELSE <<Step("close", agents[On(p)])>>)
    /\ UNCHANGED <<agentVars, flagVars, scopeVars, registryClosed, regMu, memoVars, callVars, histVars, envVars>>

\* Agent.Close up to its wait. An Agent that was never started has no driver
\* to dispose of it.
CloseAgent(p) ==
    LET i == On(p)
    IN  /\ Todo(p, "close") /\ closed' = closed \cup {i}
        /\ disposed' = IF i \notin closed /\ driver[i] = "none" THEN disposed \cup {i} ELSE disposed
        /\ Replace(p, IF i \in disposed THEN <<>>
                      ELSE IF i \notin closed /\ driver[i] = "none" THEN <<Step("scope", i), Step("done", i)>>
                      ELSE <<Step("await", i)>>)
        /\ UNCHANGED <<agentVars, done, scopeVars, regVars, memoVars, callVars, histVars, envVars>>

Await(p) ==
    /\ Todo(p, "await") /\ On(p) \in done /\ Replace(p, <<>>)
    /\ UNCHANGED <<agentVars, flagVars, scopeVars, regVars, memoVars, callVars, histVars, envVars>>

\* Scope.Close: the children, then the cleanups in reverse order. Whoever comes
\* second returns at once.
CloseScope(p) ==
    LET s == On(p)
    IN  /\ Todo(p, "scope") /\ scopeClosed' = scopeClosed \cup {s}
        /\ Replace(p, IF s \in scopeClosed THEN <<>>
                      ELSE [n \in DOMAIN kids[s] |-> Step("scope", kids[s][n])] \o Reverse(cleanups[s]))
        /\ kids' = [kids EXCEPT ![s] = <<>>] /\ cleanups' = [cleanups EXCEPT ![s] = <<>>]
        /\ UNCHANGED <<agentVars, flagVars, regVars, memoVars, callVars, histVars, envVars>>

\* Faulty: the cleanup waits for agentMu, which a rollback already holds.
ForgetLocked(p) ==
    LET i == On(p)
    IN  /\ Todo(p, "forget") /\ agentMu = Nobody /\ Replace(p, <<>>)
        /\ memo' = IF memo[id[i]] = i THEN [memo EXCEPT ![id[i]] = None] ELSE memo
        /\ UNCHANGED <<agentVars, flagVars, scopeVars, regVars, agentMu, callVars, histVars, envVars>>

\* removeSessionAgentMemo: skipped while somebody is inside sessionAgent.
Forget(p) ==
    LET i == On(p)
    IN  /\ Todo(p, "forget") /\ Replace(p, <<>>)
        /\ memo' = IF agentMu = Nobody /\ memo[id[i]] = i THEN [memo EXCEPT ![id[i]] = None] ELSE memo
        /\ UNCHANGED <<agentVars, flagVars, scopeVars, regVars, agentMu, callVars, histVars, envVars>>

Release(p) ==
    /\ Todo(p, "release") /\ Replace(p, <<>>)
    /\ released' = [released EXCEPT ![On(p)] = @ + 1]
    /\ UNCHANGED <<agentVars, flagVars, scopeVars, regVars, memoVars, callVars, owned, envVars>>

\* closeDone is closed, once.
Finish(p) ==
    LET i == On(p)
    IN  /\ Todo(p, "done") /\ Replace(p, <<>>) /\ disposed' = disposed \cup {i} /\ done' = done \cup {i}
        /\ driver' = IF p = i THEN [driver EXCEPT ![i] = "gone"] ELSE driver
        /\ UNCHANGED <<made, id, parent, closed, scopeVars, regVars, memoVars, callVars, histVars, envVars>>

Proceed(p) ==
    \/ Unregister(p) \/ CloseAgent(p) \/ Await(p) \/ CloseScope(p)
    \/ Forget(p) \/ Release(p) \/ Finish(p)

----------------------------------------------------------------------------
(* The driver of an Agent.                                                 *)

BeginTurn(i) ==
    /\ driver[i] = "idle" /\ i \notin closed /\ driver' = [driver EXCEPT ![i] = "turn"]
    /\ UNCHANGED <<made, id, parent, flagVars, scopeVars, regVars, memoVars, callVars, work, histVars, envVars>>

EndTurn(i) ==
    /\ driver[i] = "turn" /\ driver' = [driver EXCEPT ![i] = "idle"]
    /\ UNCHANGED <<made, id, parent, flagVars, scopeVars, regVars, memoVars, callVars, work, histVars, envVars>>

Leave(i) == driver' = [driver EXCEPT ![i] = "exit"] /\ Do(i, <<Step("scope", i), Step("done", i)>>)

\* The driver of a closed Agent, or of a process that ends, disposes of the scope.
Exit(i) ==
    /\ driver[i] = "idle" /\ (ended \/ i \in closed)
    /\ closed' = closed \cup {i} /\ Leave(i)
    /\ UNCHANGED <<made, id, parent, disposed, done, scopeVars, regVars, memoVars, callVars, histVars, envVars>>

\* A claim fails: the driver closes its Agent by itself.
Fail(i) ==
    /\ driver[i] = "idle" /\ i \notin closed /\ faults < MaxFaults /\ faults' = faults + 1
    /\ closed' = closed \cup {i} /\ Leave(i)
    /\ UNCHANGED <<made, id, parent, disposed, done, scopeVars, regVars, memoVars, callVars, histVars, ended>>

\* The context that every Agent was started with ends.
EndProcess ==
    /\ ~ended /\ ended' = TRUE
    /\ UNCHANGED <<agentVars, flagVars, scopeVars, regVars, memoVars, callVars, work, histVars, faults>>

Next ==
    \/ \E c \in Creators :
          \/ \E x \in Ids : Create(c, x)
          \/ Publish(c) \/ Setup(c) \/ Start(c) \/ Undone(c)
    \/ \E c \in Closers : CallClose(c)
    \/ \E c \in Sweepers : CloseAll(c)
    \/ \E c \in Closers \cup Sweepers : Return(c)
    \/ \E p \in Procs : Proceed(p)
    \/ \E i \in Agents : BeginTurn(i) \/ EndTurn(i) \/ Exit(i) \/ Fail(i)
    \/ EndProcess

Spec == Init /\ [][Next]_vars

\* Whoever is inside a call goes on, and turns end. Nobody has to call.
FairSpec ==
    /\ Spec
    /\ \A c \in Creators : WF_vars(Publish(c) \/ Setup(c) \/ Start(c) \/ Undone(c))
    /\ \A c \in Closers \cup Sweepers : WF_vars(Return(c))
    /\ \A p \in Procs : WF_vars(Proceed(p))
    /\ \A i \in Agents : WF_vars(EndTurn(i)) /\ WF_vars(Exit(i))

----------------------------------------------------------------------------
(* Properties.                                                             *)

TypeOK ==
    /\ made \in Scopes /\ id \in [Agents -> Ids \cup {Nobody}] /\ parent \in [Agents -> Scopes]
    /\ driver \in [Agents -> {"none", "idle", "turn", "exit", "gone"}]
    /\ closed \subseteq Agents /\ disposed \subseteq Agents /\ done \subseteq Agents
    /\ scopeClosed \subseteq Scopes /\ kids \in [Scopes -> Seq(Agents)]
    /\ agents \in [Ids -> Scopes] /\ memo \in [Ids -> Scopes]
    /\ registryClosed \in BOOLEAN /\ regMu \in Creators \cup {Nobody} /\ agentMu \in Creators \cup {Nobody}
    /\ pc \in [Callers -> {"ready", "publish", "setup", "start", "finish", "undo", "closing", "returned"}]
    /\ new \in [Creators -> Scopes] /\ released \in [Agents -> Nat] /\ owned \subseteq Agents
    /\ ended \in BOOLEAN /\ faults \in 0 .. MaxFaults

\* "a child cannot remain published after its parent has closed" (Create): not
\* even one whose creation overlaps the close.
NotLeftBehind == \A i \in Agents : parent[i] \in done => agents[id[i]] # i

\* Somebody works on the end of Agent i: a call has it among its steps, or its
\* driver is leaving, or its creator still has it in hand.
InHand(i) ==
    \/ \E p \in Procs : \E n \in DOMAIN work[p] : work[p][n].on = i /\ work[p][n].do \in {"close", "await", "done"}
    \/ driver[i] = "idle" /\ i \in closed
    \/ \E c \in Creators : new[c] = i /\ pc[c] \in {"publish", "undo"}

\* When CloseAll has returned, no Agent is left that is neither disposed nor
\* about to be: neither one that was being created nor one below another.
NobodyForgotten ==
    \A c \in Sweepers : pc[c] = "returned" => \A i \in 1 .. made : i \in done \/ InHand(i)

\* Nothing is left to do: every closed Agent is disposed, what it owned has been
\* released exactly once, and every call has returned.
Settled ==
    /\ \A i \in closed : i \in done /\ (i \in owned => released[i] = 1)
    /\ \A c \in Callers : pc[c] \in {"ready", "returned"}

\* Creation, failure and close always come to an end: no mutex of the registry
\* or of sessionAgent and no wait of one close for another stops them.
Disposed == []<>Settled

----------------------------------------------------------------------------
(* Claims of comments that the code does not keep; TLC refutes them.       *)

\* Agent.Close "waits for its driver ... and disposes its owned scope": no scope
\* is closed under a running turn. A parent's close does it.
TurnHasScope == \A i \in Agents : driver[i] = "turn" => i \notin scopeClosed

\* "LIFO then quiesces Agents first, so no child turn can enter a ... service
\* after that service has been closed" (main.go): none runs after CloseAll.
Quiesced == \A c \in Sweepers : pc[c] = "returned" => \A i \in Agents : driver[i] # "turn"

\* "discard the stale entry and materialize a fresh owner" (sessionAgent): an
\* Agent that is disposed does not keep its id, which Create would refuse.
DisposedIsUnregistered == \A x \in Ids : agents[x] \notin done

\* The cleanup of a parent closes its own child, never a namesake.
ClosesOwnChild ==
    [][\A p \in Agents :
          Todo(p, "unregister") /\ work'[p] # work[p] /\ agents[On(p)] # None
             => parent[agents[On(p)]] = p]_vars
=============================================================================
