# Verification of the Shutu Agent runtime

Shutu Agent is a coding agent written in Go. One process (`cmd/sta`) composes
the packages under `internal/` and serves a REPL, a web server, ACP and an SDK.
Its design rests on a few promises (`Agent.md`): the append-only session log is
the only authority; an external side effect happens at most once; publication,
disposal, the completion of a job and an approval are atomic. This directory
holds TLA+ models of the parts where those promises depend on the order of
concurrent steps, the TLC runs that check them and TLAPS proofs.

## Inventory

| Component | State | Operations | Interacts with | Correct when |
|---|---|---|---|---|
| durable inbox (`agent/inbox.go`) | two queues, id counter, wake channel of capacity one, journal | Send, Steer, Followup, Inject, Claim, ClaimStep, Remove, Clear, Wait, Close, rebuild | journal callback, driver | the journal always rebuilds the queues; no message is delivered twice; no wakeup is lost |
| agent driver (`agent/agent.go`) | lifecycle flags, status, active turn, waiters, maintenance, barrier | Start, driver loop, Run, Send, Steer, Cancel, RunMaintenance, WhenIdle, Close | inbox, runner (the loop), scope | each Run is answered once and truthfully; the scope outlives the work; Close ends |
| scope and registry (`agent/scope.go`, end of `agent.go`) | tree of scopes and agents, cleanups | create, fork, lookup, close | every owner of a resource | children close before parents, cleanups once, in reverse order |
| approval engine (`interact/engine.go`, `mem.go`) | requests, answer map, policies, closed | Request, Await, Resolve, Cancel, Restore, Close | tools, web, CLI, session log | a request is decided once; Await ends and tells the truth; the cap holds |
| approval callers (`interact/tools.go`, `cmd/sta/interacts.go`) | owner index, resolve mutex | ask, answer durably, roll back, cancel on disposal | engine, session log | decision and audit event agree |
| jobs (`jobs/local.go`) | job records, waiters, closing owners | Start, settle, Kill, Wait, Read, Close, CloseOwner | producers, completion observers | one terminal outcome; observers drained before disposal |
| completion wakes (`cmd/sta/jobs.go`, `agent_runtime.go`) | job/done events, notices in the inbox, wake budget | observe, deliver, repair, recover | jobs, inbox, registry, log | the end of a job reaches a turn once; the chain of turns without a user is bounded |
| session log (`session/`) | events, projections, turn lifecycle | Append, project, recover | every component | the projection is a function of the log; an interrupted tail is repaired once |
| JSONL persistence (`persistence/`) | file, lock | append batch, rollback, open, repair | session log | the durable prefix is never damaged |
| SQLite store (`store/`) | tables, fences | append, load, reserve id, approvals | session log, approvals | atomic with the audit event |
| loop (`loop/`) | the current step and its tool calls | steps, requests, tool calls, abort | model, tools, log | every tool call has exactly one result; every turn ends once |
| schedules (`schedule/durable.go`, `cmd/sta/schedules.go`) | live schedules, schedule events | create, delete, fire, dispatch, restore | log, inbox, turns | nothing fires twice, nothing due is forgotten |
| team (`team/`, `cmd/sta/team.go`) | tasks, mail, roster, lead's log | create, update, send, redeliver, provision, rebind | registry, log, inboxes | the board is what its log says; mail arrives once |
| MCP bridge (`mcp/reconnect.go`, `cmd/sta/mcps.go`) | current client and generation, recovery flags, published tools | start, list, call, reconnect, close | server processes, tool registry | one live client; recoveries and Close end |
| subagents, workflows, goals | records with owners | spawn, run | registry, log | limits hold |
| models, terminals, extensions, ACP, web, SDK | connections | connect, call | outside world | out of scope or planned last |

The hard behaviour is concurrency: every component is called from several
goroutines, and most operations take a mutex more than once, with a durable
commit or a callback in between. Failure enters through commits that fail,
through crashes between two commits, and through contexts that end.
`PROJECT.json` lists the hazards line by line.

## Modules

* `PendingWork` is what the inbox promises about one message: submitted once,
  then pending until it is delivered to one turn or dropped.
* `Inbox` models `internal/agent/inbox.go` with the part of the driver that
  consumes it. `inbox` is the live object and `durable` the one that a restart
  rebuilds from the journal; an operation computes its events, commits them (a
  commit may fail) and applies them, as the code does. `Crash` and `Restart`
  may come at any point. The refinement mapping `fate` reads the fate of each id
  off the two objects, and `ImplementsPendingWork` is `PendingWork`'s
  specification under it. `MCInbox` gives the submissions.
* `AgentDriver` models the `Agent` of `internal/agent/agent.go`. One action is
  one critical section of `mu`, one channel operation or one call that leaves
  the mutex; `pc` says between which two of them each caller is. The driver is
  one process; a Run, a Send, a Cancel, a maintenance call, a WhenIdle and a
  Close are one process each. `ran`, `turnOf` and `idleSeen` are history.
* `Approvals` models the approval engine over the in-memory provider with its
  callers: the tool that asks and awaits, the web or CLI answerer with its
  rollback, the cancellation of a session's requests, expiry, and Close. One
  action is one provider call or one critical section. The three parts of
  `findRequest` (list, expire, reread) are shared by everybody who calls it and
  end in `found` with what was seen. Approved, allowed once and rejected are one
  status, because no step treats them differently; the policy is a free choice
  when it is read, because it is read once and set by others at any time. A
  second `findRequest` directly after a first is not repeated.
* `JobRegistry` models `internal/jobs/local.go`. Each job has its goroutine;
  Kill, Close and CloseOwner are processes. One action is one critical section
  or one call of a hook or of the observers outside the mutex. Wait and Read
  only look, and have no action.
* `SessionLog` has the grammar of the session log as operators: nesting and
  numbering of turns and steps (`ValidateLifecycle`), torn tails, and the events
  that close an interrupted turn. An event keeps its type, turn, step, index and
  code.
* `TurnHistory` is what that log promises its readers: turns come one after the
  other, gain steps, and end once.
* `TurnLoop` models `RunMessages` of `internal/loop/loop.go` over `SessionLog`:
  the step loop, a request with its retries, exclusive and parallel tool calls,
  each append on the way, the load and repair after a crash, and loads by other
  components. `ImplementsTurnHistory` is `TurnHistory`'s specification under a
  mapping that reads the turns off the stored log. Finish reasons, refusals and
  token limits are one "completed" response; the compaction after an overflow is
  part of the request; the retry policy without a bound is left out.
* `Schedules` models the durable reminders: both delivery paths, the ticker's
  pass and the pre-step of a turn, with their three commits (follow-up, fire,
  dispatch), deletion, shutdown, crash and replay. An append fails cleanly; the
  reopening of a session in a running process is folded into the restart.
* `CompletionWakes` composes jobs, inbox and Agents as `cmd/sta` does: an
  observer records `job/done` and delivers a notice under the budget, and whoever
  asks for the session's Agent repairs the notices that the log lacks. The order
  of notices is left open. The notices of subagents follow the same scheme.
* `TeamBoard` models the board, the mail and the roster of one lead session over
  its log. The log is kept as the latest facts and a flag `ok` that falls with
  the first event that replay refuses. `damaged` marks the places where the code
  loses a committed fact (see below); the properties leave those out. Old
  snapshots, write scopes and sessions deleted by the user are not modelled.
* `AgentTree` models the scope tree and the Registry with their users
  `sessionAgent` and the roster. A call that closes something is the list of
  steps it still has to take, which is the call stack of the code: an Agent's
  Close reached from a cleanup of its parent's scope runs inside it. Cleanups
  that are added in a row are one `Setup`; the order in which CloseAll visits
  Agents is left open; the values that a scope provides are not modelled.
* `McpBridge` models `ReconnectingClient` with its supervisor, the stdio clients
  as far as it sees them, and the tools published for the server. A client is a
  transport generation; a request is counted for a generation, then reads the
  current client, then is answered, broken or refused. Reconnection is enabled.
  Numbers of clients that nobody refers to are used again.
* `AgentDriverProofs`, `McpBridgeProofs`, `SchedulesProofs`, `InboxProofs`,
  `TeamBoardProofs` and `AgentTreeProofs` hold the theorems about the module they
  are named after, `JobProofs` those about `JobRegistry` and `CompletionWakes`,
  and `TurnProofs` those about `Approvals` and `TurnLoop`.
* `MC...` modules instantiate these for TLC. `MCApprovals` has three casts, the
  callers that take part together; a behaviour begins with one of them.

Definitions that begin with `Faulty:` in their comment are wrong variants of
the definition that follows. They are used by nothing; replacing the definition
by one of them must make a named property fail, which shows that the property
speaks about that piece of code.

## Runs

| Run | Checks | Shows |
|---|---|---|
| `inbox` | `ReplayReconstructs`, `ImplementsPendingWork`, `PendingIsTaken` | three messages of the four kinds, one crash, one failing commit |
| `agent` | `RunResultHonest`, `NoLostWakeup`, `SettledOnce` | two Run callers, one of which gives up, and WhenIdle against Cancel, a cancelled owner and Close |
| `agent_live` | `ScopeOutlivesWork`, `CloseCompletes`, `RunReturns` | Run, Send, Steer, maintenance and Close, with a failing commit |
| `approvals` | `DecisionReported`, `PendingCap`, `DecidedOnce`, `AwaitEnds` | two answerers, a sweep and Close for one request; two askers for one slot and a rollback; two calls of Close |
| `jobs` | `CloseDrains`, `OwnerDrained`, `KillTakesEffect`, `CloseReturns` | two jobs, Kill, Close and two calls of CloseOwner, hooks that fail |
| `loop` | `Recoverable`, `CallsAnswered`, `TurnReturns`, `ImplementsTurnHistory` | two turns, three tool calls, one disturbance at any point and a crash during the recovery |
| `loop_steer` | `SessionLoads` | fails: a steer seen at the top of the step loop makes a gap in the step numbers, and the session cannot be opened again |
| `schedules` | `ReplayAccepts`, `NotRepeated`, `QueuedBeforeDispatch`, `EveryAdvances`, `CatchesUp` | two reminders, two failures or crashes |
| `wakes` | `WakeBudget`, `NotReplayed`, `NoticeReachesTurn` | a job, two visitors, two failures |
| `team` | `NoDeadBlockers`, `ReceivedOnce`, `BoardFollowsLog`, `MailArrives` | three calls, two tasks, two messages, a provisioning, two faults, a crash |
| `tree` | `NotLeftBehind`, `NobodyForgotten`, `Disposed` | a session and its teammate, created, failing, closed and swept at once |
| `mcp` | `NoClientLeaks`, `RetiresQuietClient`, `OutageBudget`, `Unwedged` | two attempts per outage, a tool call, a notice, Close, one wait that times out |

`loop_steer` is a disagreement between a comment and the code; the finding in
`PROJECT.json` quotes both. Each detailed module has a type invariant `TypeOK`,
proved in the modules that have proofs.

### Claims that do not hold

The modules state further claims of comments, docs and tests that TLC refutes.
No run repeats them; giving one to its module's configuration shows the
behaviour.

* `Inbox`: `RestartPossible` with `MaxTorn = 1`. When the second commit of a
  Claim or Clear fails, the journal can no longer be replayed.
* `AgentDriver`: `MaintenanceWhileIdle` and `CancelReachesTurn` (between claim
  and start a turn is invisible to both), `AbortsOnlyOwnTurn` (a Run that gives
  up can abort the next caller's turn), `RunReturns` when Cancel is called (it
  drops the message of a queued Run and leaves its waiter),
  `RunNeverTripsOnStart` (two first Runs both start the driver),
  `WhenIdleSawIdle` (two reads make an idleness that never was) and
  `CloseReturnsDisposed` (a second Close can return too early).
* `Approvals`: `AnswerReachesAwait` (the decision can be seen before the answer)
  and `CloseLeavesNonePending` (a request admitted after the sweep of Close).
* `TurnLoop`: `InterruptedMeansCrash`. A load by a query closes the running turn.
  And `Recoverable`, when `Faulty` has "turn/end" or "step/end" in it: the append
  of an end event fails cleanly, nobody writes it again, and the next turn/start
  or turn/end follows what is still open. The session is refused by the next load.
* `Schedules`: `RemindersSurvive` (the pre-step dispatches before it logs) and
  `QueuedOnce` (the key names the whole batch).
* `CompletionWakes`: `DoneOnce` and `Rematerialized`.
* `TeamBoard`: `QueuedFirst`. A reader can redeliver a message before its queue
  event is saved. The other places marked `damaged`: a Restore that refuses its
  snapshot, the rollback of a provisioning, and a teammate that goes from active
  to failed, which replay refuses.
* `AgentTree`: `TurnHasScope`, `Quiesced` (CloseAll does not wait for an Agent
  that another call has taken out), `DisposedIsUnregistered` (an Agent whose
  driver failed keeps its id for the rest of the process) and, with four
  instances, `ClosesOwnChild`. `NotLeftBehind`, which holds for a session and its
  teammates, fails below a third level: the close of the top scope has taken the
  middle Agent's cleanups over, and the middle Agent, failing meanwhile, is done
  before they run. `Create` takes any parent; its callers (`agent_runtime.go`,
  `acp.go`, `roster.go`) make two levels only, because the roster gives every
  teammate its lead as the parent and the lead is the root session. `TreeShape`
  states that, and the theorems about the tree assume it.
* `McpBridge`: `LossIsHandled` (a loss reported while the old client is retired
  is dropped, and the server stays lost), `ToolsWithdrawn` (the second
  exhaustion calls nobody), `NoOverlap` and `StaleLossIgnored` (the late callback
  of a client that could not be closed starts a recovery) and
  `BothGenerationsClosed` (a client given up with a request in flight is never
  closed).

### Bounds

Every bound is a constant whose comment begins with `bound:`, or `Max...` of
faults, crashes or troubles. Three ids in `Inbox` give a claimed, a queued and a
new message at once, which is what a wrong id counter or a wrong splice index
needs to show. One failing commit there is enough because the code returns after
it, and a second one meets the same code in the same state; `MaxTorn = 0` excludes
exactly the failure described above. In `AgentDriver` and `Approvals` callers act
once each, because every race listed under hazards is between two callers and the
driver, or for one request. `JobRegistry` needs a second job for a cap of one and
for an owner that is closed while a job starts. In `TurnLoop` three calls over a
pool of two leave one unstarted while another runs, a second turn shows that the
first one's end is final, and a second crash hits the recovery of the first;
`EarlyEvents` excludes the clean failure of the append of step/end and turn/end
described above; that such an append reports an error for an event that is
durable is in the run. `Schedules` runs for two
intervals, so that an occurrence is missed and caught up; two troubles put a
crash after a failed append. `CompletionWakes` has a budget of one, which a
second wake exceeds, and two visitors who repair at once. `TeamBoard` has two
tasks for a dependency and two messages for a queue of one. `AgentTree` has three
instances, one of which replaces another of the same id. `McpBridge` has two
attempts, so that an outage sees a failure and a success, and three clients: the
current, the next, and one that could not be closed.

`CHECK_DEADLOCK FALSE` stands in every configuration because a component that
has been closed, or that nobody calls, rests.

### Fairness

Each process that is inside a call and can go on does so (weak fairness): the Go
scheduler runs every goroutine that is ready. Mutexes for which others queue
again and again are strongly fair, since Go's mutex hands itself to a starving
waiter: the admission of an asker, `agentMu` in `Find` of `CompletionWakes`,
`mcpSyncMu` in `SyncBegin`. Nobody is obliged to call an operation, no context
has to end and no time has to pass. Beyond that:

* the runner of a turn, a maintenance task and the body of a tool end;
* a process that died is started again (`Inbox`, `TurnLoop`);
* a job whose context is cancelled returns, unless its cancel hook failed;
* the ticker comes round, and its pass goes on (`Schedules`);
* a session with notices is visited again (`CompletionWakes`), and a team's
  session is opened and each member's mail looked at again (`TeamBoard`, strongly
  fair, since a look may meet one that is under way);
* a request to an MCP server ends by its deadline.

## Proofs

A `...Proofs` module extends its component's module and proves, for every value
of the constants, what the runs check on a small instance. The constants are
restricted only by the named `ASSUME`s of the component: processes of different
kinds are different, `None` and its like are no process, bounds are natural
numbers, caps and intervals that the code never lets be zero are positive, the
tasks and messages of `TeamBoard` are finitely many, and the tree of Agents has
two levels (`TreeShape`, see above). TLC evaluates them in every run. `JobProofs`
extends both `JobRegistry` and `CompletionWakes`, and `TurnProofs` both `Approvals`
and `TurnLoop`, which is why the registry's and the loop's specifications have
names of their own (`RegistrySpec`, `RegistryTypeOK`; `LoopSpec`, `LoopTypeOK`).

All follow one argument. The safety property is not inductive, because it says
nothing about calls under way; `IInv` (in `AgentDriverProofs`, `IndInv`; for the turn loop, `LoopInvariant`) says
what each call in the middle of its work knows and holds. TLC checked every
`IInv` on the run's instance before it was proved. A lemma per conjunct, with a
step per action, shows that it is kept; `Init => IInv`, `IInv => Property` and
the temporal step come last. Action properties follow from `IInv` in one more
lemma over the actions.

| Module | Theorems beside `TypeCorrect` | What the invariant adds |
|---|---|---|
| `AgentDriverProofs` | `ScopeOutlivesWorkHolds`, `RunResultHonestHolds`, `NoLostWakeupHolds`, `SettledOnceHolds` | `MaintOwner`: the maintenance field names the one call whose task runs or is not yet cleared. `Disposal`: whoever is about to dispose holds the last maintenance call that was admitted. `WaiterOwnership`: a waiting Run is registered, or in the hands of the one process that took the waiters, or answered. `AnswerCounts`: a Run that has an answer has got one. `AnswersHonest`: an answer in a channel, or about to be put there, is true |
| `JobProofs`, the registry | `RegistryTypeCorrect`, `CloseDrainsHolds`, `OwnerDrainedHolds` (action) | `RecordInv` ties record, goroutine and observers of a job together; `NotifierInv`: one process notifies for a job, once; `CloseInv`, `OwnerInv`: a sweep under way has every job that it must drain in its records, or the job is over |
| `TurnProofs`, the approvals | `PendingCapHolds`, `DecisionReportedHolds`, `DecidedOnceHolds` (action) | `AnswerInv`: what the answerer under `interactionResolveMu` would restore is still the status, or nobody else has decided; `WinnerInv`: the request carries its winner's decision; `CapInv`: an admitted asker has room until it creates |
| `TurnProofs`, the turn loop | `LoopTypeCorrect`, `RecoverableHolds`, `CallsAnsweredHolds`, `ImplementsTurnHistoryHolds` | `StoredInv`: what is in the log, torn tail apart, is nested, its steps belong to their turn (`Within`, `Unique`), the results of a step are those of its first calls in order (`Ordered`), a turn is open when its end is missing (`Marked`), and what a result says of a body is true (`Truthful`). `PlaceInv`: the loop is where the log is. `BodyInv`, `ReplyInv`: the pool's committed calls are the log's results. `RanInv`: a body that ran is running or later in the pool
| `McpBridgeProofs` | `NoClientLeaksHolds`, `RetiresQuietClientHolds`, `OutageBudgetHolds` | `HandsInv`: which clients the supervisor has in its hands at each step; `ReqInv`: a request in flight is counted for the current generation or the one being drained; `BudgetInv`: every client was paid for with an attempt |
| `JobProofs`, the wakes | `WakeBudgetHolds`, `NotReplayedHolds` (action) | `BudgetInv`: wakes still to grant and wakes under way stay within the allowance, which is a count of queue positions and processes; `ReplayInv`: after a restart nobody is about to deliver an old notice |
| `SchedulesProofs` | `ReplayAcceptsHolds`, `NotRepeatedHolds`, `QueuedBeforeDispatchHolds`, `EveryAdvancesHolds` (action) | `LockInv`: one delivery at a time; `KindInv`: an id is created once; `BatchInv`: what the pass with the lock has read, queued and fired so far; `InboxInv`, `FiresInv`: no key and no occurrence twice |
| `InboxProofs` | `ReplayReconstructsHolds`, `ImplementsPendingWorkHolds` | `SyncInv`: live and durable queues are equal; `FollowupInv`, `PlaceInv`: a message is in one place, and its id is behind the durable counter |
| `TeamBoardProofs` | `NoDeadBlockersHolds`, `ReceivedOnceHolds`, `BoardFollowsLogHolds` | `AddressInv`, `ReceiptInv`, `DeliveredInv`: what dispatches, callers and snapshots know of a message; while nothing is `damaged`, `TaskInv`, `MsgInv`, `RowInv`: board, log and the snapshot of the running call differ by that call only |
| `AgentTreeProofs` | `NotLeftBehindHolds`, `NobodyForgottenHolds` | `Tied`: until its parent is done a registered child is among the cleanups of the parent's scope, or in the steps of whoever ends the parent, before the last of them; `Accounted`: an instance that is not done is registered, being created, or in the steps of a call; `EndedOnce`, `SessionScopes`: one call ends an Agent, and closes its scope first |

Notes on single theorems:

* `ReplayAcceptsHolds` and `ReplayReconstructsHolds` speak of folds over the
  log, and `NoDeadBlockersHolds` of reachability along any chain of tasks. The
  library's induction theorems take an operator as a parameter and cannot be
  used; the proofs do the induction over a set of positions instead, from the
  well-foundedness of the naturals (`LeastNumber`, `UpTo`). `ReachClosed` shows by
  counting that as many steps as there are tasks reach everything, and
  `SoundUpdate` that an update which `validateEdgesLocked` accepts keeps every
  other task's edges sound too, although the code looks only at the one it
  changes.
* `ReplayReconstructsHolds` is `Spec => [](torn = 0 => ReplayReconstructs)`: it
  holds up to the first operation torn between its two commits, after which
  `RestartPossible` (below the runs) fails. `ImplementsPendingWorkHolds` assumes
  `MaxTorn = 0`, as the run does, since a torn Claim refutes it. `TypeCorrect`
  covers torn operations.
* `BoardFollowsLogHolds` includes that replay accepts each event which the board
  accepted. For the cap on pending mail that needs `PendingFits`: the log has no
  more pending messages for a target than the snapshot of the call, since
  deliveries reach the log before the board.
* `LoopTypeCorrect` has no hypothesis. Its invariant `TypeInvariant` says of the log
  only that it is made of records (`Recorded`), which every append, load, crash and
  repair keeps, also in a log that the next load refuses. `RecoverableHolds`,
  `CallsAnsweredHolds` and `ImplementsTurnHistoryHolds` assume `EndsDurable`: no
  append of a turn/end or step/end fails cleanly. The code does not ensure it, and
  without it these three fail (see below the runs). Every other failure, the one after which the store is ahead of the live log
  included, is covered: `PlaceInv` and its like speak of a session that can still
  append (`Live`), and a session that cannot writes nothing. `ClosersAre` and
  `ClosersKeep` say what `InterruptedTurnClosers` returns and that each of its
  events keeps the log's invariant, which is what a crash in the middle of a
  repair needs; `ClosersFollow` that they are one step of the history.
* The proofs changed the models in two ways. Recursion that a proof meets is
  written as a recursive function or a comprehension (`OfKinds`, `Reach`,
  `Restored`); `Unanswered` of `SessionLog` is a set, to which `Nth` gives its
  order. And three `CASE`s whose arms overlapped (`fate` in `Inbox`,
  `CloseAgent`, `EndTurn`) are `IF`s now: TLC takes the first arm, the language
  any.

Only model-checked: liveness under fairness (`PendingIsTaken`, `CloseCompletes`,
`RunReturns`, `AwaitEnds`, `KillTakesEffect`, `CloseReturns`, `TurnReturns`,
`CatchesUp`, `NoticeReachesTurn`, `MailArrives`, `Disposed`, `Unwedged`), which
the temporal prover does not do. Every other property of the passing runs has a
theorem.

## Plan

1. Done: the modules above, and the proofs of all their safety properties and of
   both refinements.
2. The gate of sensitive tools and the startup recovery of approvals; the SQLite
   provider as a constant of `Approvals`.
3. Subagent limits, the lifecycle coordinator, the recorder of workflows.

## Not modelled

Some failure paths of the modelled code are folded together or left out:

* `Inbox`: a failing commit leaves nothing durable. `Log.Append` drops the event
  also when the store reports an error after it has committed (`sqlite.go:1713`,
  `session.go:618`); the live queues then lack what the journal has, and every
  later append conflicts. `TurnLoop` has that failure (`diverged`), `Inbox` not.
  `TeamBoard` likewise: its appends fail cleanly (`team.go:886`).
* `Approvals`: the check and the write of the provider's Restore (`engine.go:353`,
  `360`) are one step.
* `Schedules`: the errors of `sessionLogForAgent` and `sessionAgent`
  (`schedules.go:313`) have the effect of a failing append, and like it they are
  bounded. `CatchesUp` therefore assumes that the session's Agent can be had in the
  end; an Agent that stays registered after its driver failed refuses for good (see
  `DisposedIsUnregistered`), and that is not represented. The same holds for
  `NoticeReachesTurn`, which leaves out a closed Agent.
* `AgentTree`: `Create` always gets its Agent. The error return of `newAgent`
  (`agent.go:903`) leaves an empty scope among the children of the parent's, and an
  id that Create refuses has lost its memo entry (`agent_runtime.go:319`).
* `McpBridge`: the exits of the registration for a duplicate name and for a name
  that another server has (`mcps.go:164`, `195`) close the client with nothing
  published, which is where `BootFailed` goes too.

And these are left out as a whole: bodies of messages, prompts, answers and their validation, formatting and
logging; the model providers, tools, terminals, processes, HTTP and the web
interface, which are input and output around the components above. The list of
components in `PROJECT.json` gives the reason for each part.
