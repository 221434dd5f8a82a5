------------------------------ MODULE McpBridge ------------------------------
(***************************************************************************)
(* The bridge to one MCP server: ReconnectingClient                        *)
(* (internal/mcp/reconnect.go), the stdio clients it supervises (stdio.go) *)
(* as far as it sees them, and the tools that the process publishes for    *)
(* the server (cmd/sta/mcps.go).                                           *)
(*                                                                         *)
(* A client is one transport generation. The number of a generation is the *)
(* client that began it; the numbers of clients that are closed and that   *)
(* nobody refers to are used again. A request is counted for the generation*)
(* at its beginning and sent to the client that is current later. One      *)
(* action is one critical section, one call of a client or one channel     *)
(* operation.                                                              *)
(***************************************************************************)
EXTENDS Naturals, FiniteSets

CONSTANTS
    Callers,      \* tool calls
    Closers,      \* calls of Close
    MaxAttempts,  \* ReconnectOptions.MaxAttempts
    MaxClients,   \* bound: clients that exist at a time
    MaxFaults,    \* bound: waits that time out
    None

ASSUME BridgeAssumption == {MaxAttempts, MaxClients} \subseteq Nat \ {0} /\ MaxFaults \in Nat

Sup == "supervisor"       \* the goroutine that reconnects
Boot == "boot"            \* bridgeMcpServer
Notice == "notice"        \* the callback for a changed tool list
Clients == 1 .. MaxClients
Requesters == Callers \cup {Sup, Boot, Notice}
Procs == Closers \cup {Sup, Boot, Notice}

\* A goroutine has one part, and None is no client.
ASSUME PartsAssumption ==
    {Sup, Boot, Notice} \cap (Callers \cup Closers) = {} /\ None \notin Clients

VARIABLES
    conn,                 \* "fresh", "up", "lost", "closed" or "stuck", of each client
    losses,               \* clients whose connection-lost callback has not run
    base, gen,            \* the current client, and the generation
    closed, closeDone,
    reconnecting, signal, \* reconnectCh holds a signal
    failedAttempts,
    connectedAt,          \* "zero", "recent" or "stable", which is MaxDelay ago
    exhausted,            \* the handler of exhaustion is still to be called
    req,                  \* the request of each requester
    pc, cand, old, from,  \* from: the client whose notice is handled
    tools,                \* "none", "listed", or "orphan": published and not recorded
    syncMu,
    abandoned,            \* history: clients given up with a request in flight
    tries,                \* history: clients made since the connection was last stable
    faults

clientVars == <<conn, losses>>
flagVars == <<closed, closeDone>>
lossVars == <<reconnecting, signal, failedAttempts, connectedAt>>
supVars == <<cand, old>>
toolVars == <<tools, syncMu, exhausted>>
histVars == <<abandoned, tries>>
vars == <<clientVars, base, gen, flagVars, lossVars, req, pc, supVars, from, toolVars, histVars, faults>>

NoReq == [at |-> "none", gen |-> None, on |-> None]

Init ==
    /\ conn = [g \in Clients |-> IF g = 1 THEN "fresh" ELSE "closed"] /\ losses = {}
    /\ base = 1 /\ gen = 1 /\ closed = FALSE /\ closeDone = FALSE
    /\ reconnecting = FALSE /\ signal = FALSE /\ failedAttempts = 0 /\ connectedAt = "zero"
    /\ req = [p \in Requesters |-> NoReq] /\ cand = None /\ old = None /\ from = None
    /\ pc = [p \in Procs |-> IF p = Sup THEN "wait" ELSE "ready"]
    /\ tools = "none" /\ syncMu = None /\ exhausted = TRUE
    /\ abandoned = {} /\ tries = 0 /\ faults = 0

Goto(p, l) == pc' = [pc EXCEPT ![p] = l]
TimesOut == faults < MaxFaults /\ faults' = faults + 1

\* Faulty: every connection gives a new budget.
RequestReconnectForgiving ==
    IF closed \/ reconnecting THEN UNCHANGED lossVars
    ELSE /\ failedAttempts' = IF connectedAt # "zero" THEN 0 ELSE failedAttempts
         /\ connectedAt' = "zero" /\ reconnecting' = TRUE /\ signal' = TRUE

\* requestReconnect: ignored while a recovery is under way. The budget starts
\* again after a stable connection.
RequestReconnect ==
    IF closed \/ reconnecting THEN UNCHANGED lossVars
    ELSE /\ failedAttempts' = IF connectedAt = "stable" THEN 0 ELSE failedAttempts
         /\ connectedAt' = "zero" /\ reconnecting' = TRUE /\ signal' = TRUE

----------------------------------------------------------------------------
(* The clients.                                                            *)

\* The callback that disconnectLocked starts in a goroutine.
Lost(g) ==
    /\ g \in losses /\ losses' = losses \ {g} /\ RequestReconnect
    /\ UNCHANGED <<conn, base, gen, flagVars, req, pc, supVars, from, toolVars, histVars, faults>>

\* Close waits for the client's callbacks. closeClientWithin gives up after a
\* while and leaves the call behind.
CloseOk(g) == g \notin losses /\ from # g /\ conn' = [conn EXCEPT ![g] = "closed"] /\ UNCHANGED faults
CloseLate(g) ==
    /\ conn' = [conn EXCEPT ![g] = "stuck"]
    /\ IF conn[g] = "stuck" THEN UNCHANGED faults ELSE conn[g] # "closed" /\ TimesOut

\* A Close that was left behind comes to its end.
Unstick(g) ==
    /\ conn[g] = "stuck" /\ CloseOk(g)
    /\ UNCHANGED <<losses, base, gen, flagVars, lossVars, req, pc, supVars, from, toolVars, histVars>>

\* The connection has lasted for MaxDelay.
Age ==
    /\ connectedAt = "recent" /\ connectedAt' = "stable" /\ tries' = 0
    /\ UNCHANGED <<clientVars, base, gen, flagVars, reconnecting, signal, failedAttempts, req, pc,
                   supVars, from, toolVars, abandoned, faults>>

----------------------------------------------------------------------------
(* Requests: Call and ListTools.                                           *)

Begun == [at |-> "begun", gen |-> gen, on |-> None]
ReqAt(p, at) == req' = [req EXCEPT ![p].at = at, ![p].on = None]
\* A request ends. What comes of a tool call does not matter here.
ReqEnd(p, at) == IF p \in Callers THEN req' = [req EXCEPT ![p] = NoReq] ELSE ReqAt(p, at)
Done(p) == req[p].at \in {"ok", "error"}
Active == {p \in Requesters : req[p].at # "none"}

\* The client is read after the request was counted.
Pick(p) ==
    /\ req[p].at = "begun" /\ (p = Sup => pc[Sup] = "listing")
    /\ IF base = None THEN ReqEnd(p, "error")
       ELSE req' = [req EXCEPT ![p].at = "sent", ![p].on = base]
    /\ UNCHANGED <<clientVars, base, gen, flagVars, lossVars, pc, supVars, from, toolVars, histVars, faults>>

\* The server answers, with a result or a protocol error.
Answer(p) ==
    /\ req[p].at = "sent" /\ conn[req[p].on] = "up" /\ (ReqEnd(p, "ok") \/ ReqEnd(p, "error"))
    /\ UNCHANGED <<clientVars, base, gen, flagVars, lossVars, pc, supVars, from, toolVars, histVars, faults>>

\* The connection breaks under a request, or the request's context ends, which
\* is not reported as a loss by the request itself.
Break(p) ==
    LET g == req[p].on
    IN  /\ req[p].at = "sent" /\ conn[g] = "up" /\ conn' = [conn EXCEPT ![g] = "lost"]
        /\ losses' = losses \cup {g} /\ (ReqAt(p, "broken") \/ ReqEnd(p, "error"))
        /\ UNCHANGED <<base, gen, flagVars, lossVars, pc, supVars, from, toolVars, histVars, faults>>

\* ErrNotStarted or ErrClosed: no reason to reconnect.
Refuse(p) ==
    /\ req[p].at = "sent" /\ conn[req[p].on] # "up" /\ ReqEnd(p, "error")
    /\ UNCHANGED <<clientVars, base, gen, flagVars, lossVars, pc, supVars, from, toolVars, histVars, faults>>

Report(p) ==
    /\ req[p].at = "broken" /\ ReqEnd(p, "error") /\ RequestReconnect
    /\ UNCHANGED <<clientVars, base, gen, flagVars, pc, supVars, from, toolVars, histVars, faults>>

Request(p) == Pick(p) \/ Answer(p) \/ Break(p) \/ Refuse(p) \/ Report(p)

\* A bridged tool is called. A failed call is not repeated.
Call(c) ==
    /\ req[c].at = "none" /\ ~closed /\ tools # "none" /\ req' = [req EXCEPT ![c] = Begun]
    /\ UNCHANGED <<clientVars, base, gen, flagVars, lossVars, pc, supVars, from, toolVars, histVars, faults>>

----------------------------------------------------------------------------
(* The published tools.                                                    *)

After(p) == IF p = Sup THEN "wait" ELSE "ready"

\* dispatchToolListChanged: only for the current client, while nothing recovers.
\* The handler is set at the end of bridgeMcpServer.
Changed(g) ==
    /\ pc[Notice] = "ready" /\ pc[Boot] = "watching"
    /\ conn[g] = "up" /\ base = g /\ ~closed /\ ~reconnecting
    /\ from' = g /\ Goto(Notice, "sync")
    /\ UNCHANGED <<clientVars, base, gen, flagVars, lossVars, req, supVars, toolVars, histVars, faults>>

\* resyncMCPServer: mcpSyncMu, then ListTools.
SyncBegin(p) ==
    /\ pc[p] = "sync" /\ syncMu = None
    /\ IF closed THEN Goto(p, After(p)) /\ UNCHANGED <<req, syncMu>>
       ELSE Goto(p, "listing") /\ req' = [req EXCEPT ![p] = Begun] /\ syncMu' = p
    /\ from' = IF p = Notice /\ closed THEN None ELSE from
    /\ UNCHANGED <<clientVars, base, gen, flagVars, lossVars, supVars, tools, exhausted, histVars, faults>>

\* Tools that are published and not recorded are in the way of the new ones.
SyncEnd(p) ==
    /\ pc[p] = "listing" /\ Done(p)
    /\ tools' = IF req[p].at = "ok" /\ tools = "none" THEN "listed" ELSE tools
    /\ req' = [req EXCEPT ![p] = NoReq] /\ syncMu' = None /\ Goto(p, After(p))
    /\ from' = IF p = Notice THEN None ELSE from
    /\ UNCHANGED <<clientVars, base, gen, flagVars, lossVars, supVars, exhausted, histVars, faults>>

\* bridgeMcpServer: Start. Nobody else uses the client yet. A failure leaves the
\* rest to the supervisor; it comes before or after the process was started.
BootStart ==
    /\ pc[Boot] = "ready"
    /\ \/ /\ conn' = [conn EXCEPT ![1] = "up"] /\ connectedAt' = "recent" /\ Goto(Boot, "list")
          /\ UNCHANGED <<losses, reconnecting, signal, failedAttempts>>
       \/ /\ RequestReconnect /\ Goto(Boot, "failed")
          /\ \/ UNCHANGED clientVars
             \/ conn' = [conn EXCEPT ![1] = "lost"] /\ losses' = {1}
    /\ UNCHANGED <<base, gen, flagVars, req, supVars, from, toolVars, histVars, faults>>

BootList ==
    /\ pc[Boot] = "list" /\ req' = [req EXCEPT ![Boot] = Begun] /\ Goto(Boot, "listing")
    /\ UNCHANGED <<clientVars, base, gen, flagVars, lossVars, supVars, from, toolVars, histVars, faults>>

BootListed ==
    /\ pc[Boot] = "listing" /\ Done(Boot) /\ req' = [req EXCEPT ![Boot] = NoReq]
    /\ Goto(Boot, IF req[Boot].at = "ok" THEN "publish" ELSE "failed")
    /\ UNCHANGED <<clientVars, base, gen, flagVars, lossVars, supVars, from, toolVars, histVars, faults>>

\* The registration, without mcpSyncMu. It fails when a recovery has published
\* the tools already, drops the record of them and closes the client. A public
\* name that is taken closes the client with nothing published, as BootFailed
\* does.
BootPublish ==
    /\ pc[Boot] = "publish"
    /\ tools' = IF tools = "none" THEN "listed" ELSE "orphan"
    /\ Goto(Boot, IF tools = "none" THEN "watching" ELSE "closing")
    /\ UNCHANGED <<clientVars, base, gen, flagVars, lossVars, req, supVars, from, syncMu, exhausted, histVars, faults>>

\* adoptRecoveringMCPLifecycle keeps a client that is being recovered, unless the
\* server must be there at startup.
BootFailed ==
    /\ pc[Boot] = "failed"
    /\ (reconnecting /\ Goto(Boot, "adopted")) \/ Goto(Boot, "closing")
    /\ UNCHANGED <<clientVars, base, gen, flagVars, lossVars, req, supVars, from, toolVars, histVars, faults>>

BootStep == BootStart \/ BootList \/ BootListed \/ BootPublish \/ BootFailed

----------------------------------------------------------------------------
(* The supervisor.                                                         *)

\* reconnectPending
Pending == ~closed /\ reconnecting

Wake ==
    /\ pc[Sup] = "wait"
    /\ \/ signal /\ signal' = FALSE /\ Goto(Sup, IF Pending THEN "attempt" ELSE "wait")
       \/ closed /\ Goto(Sup, "gone") /\ UNCHANGED signal
    /\ UNCHANGED <<clientVars, base, gen, flagVars, reconnecting, failedAttempts, connectedAt, req,
                   supVars, from, toolVars, histVars, faults>>

\* One more attempt, or the end of the budget, where the counter stops.
Attempt ==
    LET over == failedAttempts >= MaxAttempts
    IN  /\ pc[Sup] = "attempt"
        /\ failedAttempts' = IF over THEN failedAttempts ELSE failedAttempts + 1
        /\ reconnecting' = IF over THEN FALSE ELSE reconnecting
        /\ Goto(Sup, IF over THEN "exhausted" ELSE "delay")
        /\ UNCHANGED <<clientVars, base, gen, flagVars, signal, connectedAt, req, supVars, from, toolVars,
                       histVars, faults>>

\* The backoff ends by its timer or by Close.
Delay ==
    /\ pc[Sup] = "delay"
    /\ \/ Goto(Sup, IF Pending THEN "begin" ELSE "wait") /\ UNCHANGED reconnecting
       \/ closed /\ reconnecting' = FALSE /\ Goto(Sup, "wait")
    /\ UNCHANGED <<clientVars, base, gen, flagVars, signal, failedAttempts, connectedAt, req, supVars, from,
                   toolVars, histVars, faults>>

\* startBase: an operation of its own, so that Close waits for it.
StartBegin ==
    /\ pc[Sup] = "begin"
    /\ IF closed \/ base = None THEN Goto(Sup, "attempt") /\ UNCHANGED <<req, old>>
       ELSE Goto(Sup, "start") /\ req' = [req EXCEPT ![Sup] = Begun] /\ old' = base
    /\ UNCHANGED <<clientVars, base, gen, flagVars, lossVars, cand, from, toolVars, histVars, faults>>

Unused(g) ==
    /\ conn[g] = "closed" /\ g \notin {base, gen, old, from} \cup abandoned
    /\ \A p \in Requesters : g \notin {req[p].gen, req[p].on}

\* A fresh client is made and started. A failure comes before or after its
\* process was started.
StartCandidate ==
    /\ pc[Sup] = "start" /\ tries' = tries + 1
    /\ \E g \in Clients :
          /\ Unused(g) /\ (\A h \in 1 .. g - 1 : ~Unused(h)) /\ cand' = g
          /\ \/ conn' = [conn EXCEPT ![g] = "up"] /\ Goto(Sup, "swap") /\ UNCHANGED losses
             \/ conn' = [conn EXCEPT ![g] = "fresh"] /\ Goto(Sup, "drop") /\ UNCHANGED losses
             \/ conn' = [conn EXCEPT ![g] = "lost"] /\ Goto(Sup, "drop") /\ losses' = losses \cup {g}
    /\ UNCHANGED <<base, gen, flagVars, lossVars, req, old, from, toolVars, abandoned, faults>>

\* startBase returns.
Return == cand' = None /\ old' = None

\* The candidate is not wanted. When it cannot be closed, the supervisor gives up.
Drop ==
    /\ pc[Sup] = "drop" /\ req' = [req EXCEPT ![Sup] = NoReq] /\ Return
    /\ (CloseOk(cand) /\ Goto(Sup, "attempt")) \/ (CloseLate(cand) /\ Goto(Sup, "giveUp"))
    /\ UNCHANGED <<losses, base, gen, flagVars, lossVars, from, toolVars, histVars>>

\* Faulty: a candidate that comes after Close is left alone.
SwapUnlessClosed ==
    /\ pc[Sup] = "swap" /\ req' = [req EXCEPT ![Sup] = NoReq]
    /\ IF closed THEN Goto(Sup, "attempt") /\ UNCHANGED <<base, gen>>
       ELSE base' = cand /\ gen' = cand /\ Goto(Sup, "drain")
    /\ UNCHANGED <<clientVars, flagVars, lossVars, supVars, from, toolVars, histVars, faults>>

\* Faulty: the supervisor's operation lasts as long as startBase.
SwapHolding ==
    /\ pc[Sup] = "swap"
    /\ IF closed THEN Goto(Sup, "drop") /\ UNCHANGED <<base, gen>>
       ELSE base' = cand /\ gen' = cand /\ Goto(Sup, "drain")
    /\ UNCHANGED <<clientVars, flagVars, lossVars, req, supVars, from, toolVars, histVars, faults>>

\* The candidate becomes current, and the supervisor's operation ends.
Swap ==
    /\ pc[Sup] = "swap"
    /\ IF closed THEN Goto(Sup, "drop") /\ UNCHANGED <<base, gen, req>>
       ELSE base' = cand /\ gen' = cand /\ Goto(Sup, "drain") /\ req' = [req EXCEPT ![Sup] = NoReq]
    /\ UNCHANGED <<clientVars, flagVars, lossVars, supVars, from, toolVars, histVars, faults>>

\* Faulty: the generation is read after the swap.
DrainingCurrent == gen

\* The generation whose requests have to end before its client is closed.
Draining == old
InFlight(g) == {p \in Active : req[p].gen = g}

\* waitGenerationIdle; without an end, the new client is taken back.
Drain ==
    /\ pc[Sup] = "drain"
    /\ \/ /\ InFlight(Draining) = {} /\ Goto(Sup, "retire") /\ UNCHANGED <<base, abandoned, faults>>
       \/ /\ InFlight(Draining) # {} /\ TimesOut /\ Goto(Sup, "undo")
          /\ base' = None /\ abandoned' = abandoned \cup {old}
    /\ UNCHANGED <<clientVars, gen, flagVars, lossVars, req, supVars, from, toolVars, tries>>

Retire ==
    /\ pc[Sup] = "retire"
    /\ \/ CloseOk(old) /\ connectedAt' = "recent" /\ Return /\ Goto(Sup, "connected") /\ UNCHANGED base
       \/ CloseLate(old) /\ base' = None /\ Goto(Sup, "undo") /\ UNCHANGED <<connectedAt, supVars>>
    /\ UNCHANGED <<losses, gen, flagVars, reconnecting, signal, failedAttempts, req, from, toolVars, histVars>>

Undo ==
    /\ pc[Sup] = "undo" /\ Goto(Sup, "giveUp") /\ (CloseOk(cand) \/ CloseLate(cand)) /\ Return
    /\ UNCHANGED <<losses, base, gen, flagVars, lossVars, req, from, toolVars, histVars>>

\* The recovery is over, well or not.
Conclude ==
    /\ pc[Sup] \in {"connected", "giveUp"} /\ reconnecting' = FALSE
    /\ Goto(Sup, IF pc[Sup] = "connected" THEN "sync" ELSE "exhausted")
    /\ UNCHANGED <<clientVars, base, gen, flagVars, signal, failedAttempts, connectedAt, req, supVars, from,
                   toolVars, histVars, faults>>

\* notifyExhausted, once: removeMCPServerTools withdraws the recorded tools.
Exhaust ==
    /\ pc[Sup] = "exhausted" /\ Goto(Sup, "wait") /\ exhausted' = FALSE
    /\ IF exhausted THEN syncMu = None /\ tools' = IF tools = "listed" THEN "none" ELSE tools
       ELSE UNCHANGED tools
    /\ UNCHANGED <<clientVars, base, gen, flagVars, lossVars, req, supVars, from, syncMu, histVars, faults>>

Supervise ==
    \/ Wake \/ Attempt \/ Delay \/ StartBegin \/ StartCandidate \/ Drop \/ Swap
    \/ Drain \/ Retire \/ Undo \/ Conclude \/ Exhaust

----------------------------------------------------------------------------
(* Close, called at shutdown and by a bridge that failed. A further call   *)
(* waits for closeDone and changes nothing.                                *)

CloseBegin(c) ==
    /\ pc[c] = IF c = Boot THEN "closing" ELSE "ready"
    /\ c = Boot \/ pc[Boot] \in {"watching", "adopted"}
    /\ ~closed /\ closed' = TRUE /\ Goto(c, "quiesce")
    /\ UNCHANGED <<clientVars, base, gen, closeDone, lossVars, req, supVars, from, toolVars, histVars, faults>>

Quiesce(c) ==
    /\ pc[c] = "quiesce" /\ Goto(c, "base")
    /\ (Active = {} /\ UNCHANGED faults) \/ (Active # {} /\ TimesOut)
    /\ UNCHANGED <<clientVars, base, gen, flagVars, lossVars, req, supVars, from, toolVars, histVars>>

CloseBase(c) ==
    /\ pc[c] = "base" /\ Goto(c, "join")
    /\ IF base = None THEN UNCHANGED <<conn, faults>> ELSE CloseOk(base) \/ CloseLate(base)
    /\ UNCHANGED <<losses, base, gen, flagVars, lossVars, req, supVars, from, toolVars, histVars>>

Join(c) ==
    /\ pc[c] = "join" /\ Goto(c, "returned") /\ closeDone' = TRUE
    /\ (pc[Sup] = "gone" /\ UNCHANGED faults) \/ (pc[Sup] # "gone" /\ TimesOut)
    /\ UNCHANGED <<clientVars, base, gen, closed, lossVars, req, supVars, from, toolVars, histVars>>

CloseStep(c) == Quiesce(c) \/ CloseBase(c) \/ Join(c)

Next ==
    \/ Age \/ BootStep \/ Supervise
    \/ \E g \in Clients : Lost(g) \/ Unstick(g) \/ Changed(g)
    \/ \E p \in Requesters : Request(p)
    \/ \E c \in Callers : Call(c)
    \/ \E p \in {Sup, Notice} : SyncBegin(p) \/ SyncEnd(p)
    \/ \E c \in Closers \cup {Boot} : CloseBegin(c) \/ CloseStep(c)

Spec == Init /\ [][Next]_vars

\* Goroutines go on, requests end because each has a deadline, and nobody has to
\* call, to notify or to close.
FairSpec ==
    /\ Spec /\ WF_vars(Supervise) /\ WF_vars(BootStep) /\ WF_vars(CloseBegin(Boot))
    /\ \A g \in Clients : WF_vars(Lost(g))
    /\ \A p \in Requesters : WF_vars(Request(p))
    /\ \A p \in {Sup, Notice} : SF_vars(SyncBegin(p)) /\ WF_vars(SyncEnd(p))
    /\ \A c \in Closers \cup {Boot} : WF_vars(CloseStep(c))

----------------------------------------------------------------------------
(* Properties.                                                             *)

Labels == {"ready", "list", "listing", "publish", "watching", "failed", "adopted", "closing",
           "wait", "attempt", "delay", "begin", "start", "drop", "swap", "drain", "retire", "undo",
           "connected", "giveUp", "exhausted", "sync", "gone", "quiesce", "base", "join", "returned"}

\* Every variable keeps its type.
TypeOK ==
    /\ conn \in [Clients -> {"fresh", "up", "lost", "closed", "stuck"}] /\ losses \subseteq Clients
    /\ base \in Clients \cup {None} /\ gen \in Clients /\ failedAttempts \in 0 .. MaxAttempts
    /\ closed \in BOOLEAN /\ closeDone \in BOOLEAN /\ reconnecting \in BOOLEAN
    /\ signal \in BOOLEAN /\ exhausted \in BOOLEAN
    /\ connectedAt \in {"zero", "recent", "stable"} /\ tools \in {"none", "listed", "orphan"}
    /\ req \in [Requesters -> [at : {"none", "begun", "sent", "broken", "ok", "error"},
                               gen : Clients \cup {None}, on : Clients \cup {None}]]
    /\ pc \in [Procs -> Labels] /\ cand \in Clients \cup {None} /\ old \in Clients \cup {None}
    /\ from \in Clients \cup {None} /\ syncMu \in {Sup, Notice, None}
    /\ abandoned \subseteq Clients /\ tries \in Nat /\ faults \in 0 .. MaxFaults

Running == {g \in Clients : conn[g] \in {"fresh", "up", "lost"}}

\* Every client that is not closed is still in somebody's hands, at every point of
\* a recovery that fails or that meets Close; after Close none is left but those
\* whose own Close hangs or that were given up with a request in flight.
NoClientLeaks ==
    /\ Running \subseteq abandoned \cup {base}
          \cup (IF pc[Sup] \in {"drop", "swap", "drain", "retire", "undo"} THEN {cand} ELSE {})
          \cup (IF pc[Sup] \in {"drain", "retire"} THEN {old} ELSE {})
    /\ closeDone /\ pc[Sup] = "gone" => Running \subseteq abandoned

\* startBase retires the old client only when none of its requests is in flight,
\* although a request is counted before it reads which client is current.
RetiresQuietClient ==
    pc[Sup] = "retire" => \A p \in Requesters : req[p].at = "sent" => req[p].on # old

\* "A server that reconnects successfully and immediately dies again must not
\* reset the outage budget": between two stable connections no more clients are
\* started than the budget allows.
OutageBudget == tries <= MaxAttempts

\* "must not wedge the reconnect goroutine forever": each recovery ends, and
\* Close returns (for every caller, who waits for closeDone), whatever hangs.
Busy == (reconnecting \/ closed) /\ ~closeDone
Unwedged == Busy ~> ~Busy

----------------------------------------------------------------------------
(* What the comments of the code say and the code does not keep.           *)

\* "restore a connection without waiting for the next model tool call"
\* (service.go): a lost connection is restored, or the recovery ends in Close or
\* exhaustion.
LossIsHandled ==
    \A g \in Clients : base = g /\ conn[g] = "lost" ~> base # g \/ closed \/ ~exhausted

\* "The registry must not keep stale MCP tools callable after the transport has
\* stopped retrying" (removeMCPServerTools).
ToolsWithdrawn ==
    pc[Sup] = "wait" /\ ~reconnecting /\ ~closed /\ connectedAt = "zero" /\ failedAttempts = MaxAttempts
       => tools = "none"

\* "Stop here rather than creating an overlapping child": no new client while one
\* that could not be closed may be alive.
NoOverlap == [][StartCandidate => \A g \in Clients : conn[g] # "stuck"]_vars

\* "so stale callbacks cannot affect the new generation" (startBase): the loss of
\* a client that is not current starts no recovery.
StaleLossIgnored == [][\A g \in Clients \ {base} : Lost(g) => UNCHANGED lossVars]_vars

\* "Close waits for both generations" (NewReconnectingClientWithFactory).
BothGenerationsClosed == closeDone /\ pc[Sup] = "gone" => Running = {}
=============================================================================
