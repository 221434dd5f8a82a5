------------------------------ MODULE TurnLoop ------------------------------
(***************************************************************************)
(* One session's turn loop (internal/loop) over its durable log: the step  *)
(* loop of RunMessages, one model request with its retries, the tool phase *)
(* with its exclusive calls and its rolling pool of parallel ones, and     *)
(* every append of a lifecycle event on the way. Cancel and Steer arrive   *)
(* at any point, an append may fail, the process may die at any point and  *)
(* the next one repairs and validates the log before it goes on, and other *)
(* parts of the program load the session while it runs.                    *)
(***************************************************************************)
EXTENDS SessionLog, SequencesExt

CONSTANTS
    MaxParallel,   \* effectiveMaxParallelToolCalls
    MaxRetries,    \* the provider's retry policy
    MaxTurns,      \* bound: turns of the session
    MaxSteps,      \* bound: steps after which no turn starts and no call is made
    MaxCalls,      \* bound: tool calls that the model asks for in the session
    Troubles,      \* bound: cancels, steers, failed appends, crashes and loads;
                   \* one more crash may hit a recovery
    Disturbances,  \* which of them happen
    Faulty         \* the lifecycle events whose append may fail cleanly

ASSUME BoundsAssumption ==
    /\ {MaxParallel, MaxRetries, MaxTurns, MaxSteps, MaxCalls, Troubles} \subseteq Nat
    /\ MaxTurns > 0 /\ MaxSteps > 0
    /\ Disturbances \subseteq {"cancel", "steer", "fault", "crash", "load"}

VARIABLES
    stored,        \* the durable log: the committed events, perhaps a torn tail
    diverged,      \* the store went past the live log: every append conflicts
    at, turn, step,
    ctx,           \* the turn's context: live, cancelled, or WithoutCancel
    steering,      \* a Steer has queued its message and not yet called cancel
    steerPending,  \* Agent.steerPending
    queued,        \* a next-step message waits in the inbox
    supplied,      \* the next step already has messages
    err,           \* the error that step or RunMessages returns
    done,          \* step's first result
    blocked,       \* turnStatus is "blocked"
    calls,         \* the kinds of the calls of the current response
    next,          \* the first call that is not started
    body,          \* body[n]: how far call n of the response is
    attempt,       \* provider retries of this step
    ran,           \* history: the calls whose body has been started
    asked,         \* history: the calls requested so far
    troubles       \* disturbances so far

turnVars == <<turn, step, ctx, steering, steerPending, queued, supplied>>
stepVars == <<err, done, blocked>>
toolVars == <<calls, next, body>>
boundVars == <<ran, asked>>
logVars == <<stored, diverged, troubles>>
loopVars == <<logVars, at, turnVars, stepVars, toolVars, attempt, boundVars>>

Kinds == {"safe", "excl"}
Calls == 1 .. MaxCalls
StepStarts == Cardinality(Before(stored, Len(stored), {"step/start"}))
Stopped == {"idle", "down", "refused"}
NoBodies == [n \in Calls |-> "none"]

\* The volatile state of a session without a running turn.
AtRest ==
    /\ turn' = 0 /\ step' = 0 /\ ctx' = "live" /\ steering' = FALSE /\ steerPending' = FALSE
    /\ supplied' = FALSE /\ err' = "none" /\ done' = FALSE /\ blocked' = FALSE
    /\ calls' = <<>> /\ next' = 1 /\ body' = NoBodies /\ attempt' = 0

LoopInit ==
    /\ stored = <<>> /\ diverged = FALSE /\ at = "idle" /\ turn = 0 /\ step = 0
    /\ ctx = "live" /\ steering = FALSE /\ steerPending = FALSE /\ queued = FALSE
    /\ supplied = FALSE /\ err = "none" /\ done = FALSE /\ blocked = FALSE
    /\ calls = <<>> /\ next = 1 /\ body = NoBodies
    /\ attempt = 0 /\ ran = {} /\ asked = 0 /\ troubles = 0

----------------------------------------------------------------------------
(* Appends: Log.Append and the store behind its sink.                      *)

Trouble(kind) ==
    /\ kind \in Disturbances /\ troubles < Troubles
    /\ troubles' = troubles + 1

\* The event is durable and the live log keeps it.
Logs(e) ==
    /\ ~diverged
    /\ stored' = Append(stored, e) /\ UNCHANGED <<diverged, troubles>>

\* The append fails: the store holds another event at this sequence number,
\* or the write failed and was rolled back, or the store reported an error
\* for an event that is durable. The live log drops the event in each case.
Refuses(e) ==
    \/ diverged /\ UNCHANGED logVars
    \/ ~diverged /\ e.type \in Faulty /\ Trouble("fault") /\ UNCHANGED <<stored, diverged>>
    \/ ~diverged /\ Trouble("fault") /\ stored' = Append(stored, e) /\ diverged' = TRUE

\* The same for the events that are not part of the lifecycle: messages,
\* request headers and ends, retries, inbox claims.
Notes == ~diverged /\ UNCHANGED logVars
NoteFails ==
    \/ diverged /\ UNCHANGED logVars
    \/ ~diverged /\ Trouble("fault") /\ diverged' \in BOOLEAN /\ UNCHANGED stored

Goes(l) == at' = l

\* step returns an error: its deferred step/end runs next.
Fails(e) == err' = e /\ done' = FALSE /\ Goes("endStep") /\ UNCHANGED blocked
\* RunMessages returns an error: its deferred turn/end runs next.
Aborts(e) == err' = e /\ Goes("endTurn") /\ UNCHANGED <<done, blocked>>

----------------------------------------------------------------------------
(* RunMessages.                                                            *)

StartTurn ==
    LET t == TurnStarts(stored, Len(stored)) + 1
        e == Event("turn/start", t, 0, 0, "")
    IN  /\ at = "idle" /\ t <= MaxTurns /\ StepStarts < MaxSteps
        /\ \/ /\ Logs(e) /\ Goes("top") /\ turn' = t /\ step' = 1 /\ supplied' = TRUE
           \/ /\ Refuses(e) /\ UNCHANGED <<at, turn, step, supplied>>
        /\ queued' = FALSE
        /\ UNCHANGED <<ctx, steering, steerPending, stepVars, toolVars, attempt, boundVars>>

\* continueOnCancel: a pending steer whose message is still in the inbox
\* resumes the same turn, in a context that can no longer be cancelled.
Resume ==
    /\ steerPending /\ queued /\ Notes
    /\ ctx' = "masked" /\ steerPending' = FALSE /\ queued' = FALSE
    /\ supplied' = TRUE /\ step' = step + 1 /\ err' = "none" /\ Goes("top")
    /\ UNCHANGED <<turn, steering, done, blocked>>

ContinueOnCancel ==
    \/ Resume
    \/ /\ steerPending /\ queued /\ NoteFails /\ Aborts("failed")
       /\ steerPending' = FALSE /\ queued' \in {queued, FALSE}
       /\ UNCHANGED <<turn, step, ctx, steering, supplied>>
    \/ /\ ~(steerPending /\ queued) /\ Aborts("cancelled")
       /\ steerPending' = FALSE
       /\ UNCHANGED <<logVars, turn, step, ctx, steering, queued, supplied>>

\* The context check at the top of the step loop.
Top ==
    /\ at = "top"
    /\ \/ ctx = "cancelled" /\ ContinueOnCancel
       \/ ctx # "cancelled" /\ Goes("preStep") /\ UNCHANGED <<logVars, turnVars, stepVars>>
    /\ UNCHANGED <<toolVars, attempt, boundVars>>

\* The pre-step hooks, which claim the inbox when the step has no messages,
\* and the injectors: enter the step, reject it, or fail.
PreStep ==
    /\ at = "preStep"
    /\ \/ /\ IF ~supplied /\ queued THEN Notes /\ queued' = FALSE
                                    ELSE UNCHANGED <<logVars, queued>>
          /\ \/ Goes("openStep") /\ UNCHANGED stepVars
             \/ blocked' = TRUE /\ Goes("endTurn") /\ UNCHANGED <<err, done>>
             \/ ctx = "cancelled" /\ Aborts("cancelled")
       \/ NoteFails /\ UNCHANGED queued /\ Aborts("failed")
    /\ supplied' = FALSE
    /\ UNCHANGED <<turn, step, ctx, steering, steerPending, toolVars, attempt, boundVars>>

\* What RunMessages does with the step's result.
Stepped ==
    /\ at = "stepped"
    /\ \/ err = "failed" /\ Goes("endTurn") /\ UNCHANGED <<logVars, turnVars, stepVars>>
       \/ err = "cancelled" /\ ContinueOnCancel
       \/ err = "none" /\ done /\ ctx = "cancelled" /\ ContinueOnCancel
       \/ /\ err = "none" /\ done /\ ctx # "cancelled" /\ Goes("stopping")
          /\ UNCHANGED <<logVars, turnVars, stepVars>>
       \/ /\ err = "none" /\ ~done /\ step' = step + 1 /\ Goes("top")
          /\ UNCHANGED <<logVars, turn, ctx, steering, steerPending, queued, supplied, stepVars>>
    /\ UNCHANGED <<toolVars, attempt, boundVars>>

\* The turn-stopping hooks: a waiting message opens another step.
Stopping ==
    /\ at = "stopping"
    /\ \/ /\ queued /\ Notes /\ queued' = FALSE /\ supplied' = TRUE
          /\ step' = step + 1 /\ Goes("top") /\ UNCHANGED stepVars
       \/ queued /\ NoteFails /\ Aborts("failed") /\ UNCHANGED <<queued, supplied, step>>
       \/ ~queued /\ Goes("endTurn") /\ UNCHANGED <<logVars, queued, supplied, step, stepVars>>
    /\ UNCHANGED <<turn, ctx, steering, steerPending, toolVars, attempt, boundVars>>

\* Faulty: the turn's own status is lost.
EndTurnRaw ==
    LET e == Event("turn/end", turn, 0, 0, err)
    IN  /\ at = "endTurn" /\ (Logs(e) \/ Refuses(e))
        /\ Goes("idle") /\ AtRest /\ UNCHANGED <<queued, boundVars>>

\* The deferred turn/end. A failed append leaves the turn open.
EndTurn ==
    LET e == Event("turn/end", turn, 0, 0, IF err # "none" THEN err ELSE IF blocked THEN "blocked" ELSE "completed")
    IN  /\ at = "endTurn" /\ (Logs(e) \/ Refuses(e))
        /\ Goes("idle") /\ AtRest /\ UNCHANGED <<queued, boundVars>>

----------------------------------------------------------------------------
(* step: one model request and its tool calls.                             *)

OpenStep ==
    LET e == Event("step/start", turn, step, 0, "")
    IN  /\ at = "openStep"
        /\ \/ Logs(e) /\ Goes("request") /\ err' = "none"
           \/ Refuses(e) /\ Goes("stepped") /\ err' = "failed"
        /\ done' = FALSE
        /\ UNCHANGED <<turnVars, blocked, toolVars, attempt, boundVars>>

\* A failed attempt: the policy allows another one, or the step fails.
\* Cancellation wins over both.
RequestFails ==
    \/ /\ attempt < MaxRetries /\ ctx # "cancelled" /\ Notes
       /\ attempt' = attempt + 1 /\ Goes("request") /\ UNCHANGED stepVars
    \/ /\ Notes /\ Fails(IF ctx = "cancelled" THEN "cancelled" ELSE "failed")
       /\ UNCHANGED attempt

\* Log the entered messages and the request header, open the stream. An
\* overflow of the context is compacted and reopened within this action.
Request ==
    /\ at = "request"
    /\ \/ Notes /\ Goes("stream") /\ UNCHANGED <<attempt, stepVars>>
       \/ RequestFails
       \/ NoteFails /\ Fails("failed") /\ UNCHANGED attempt
    /\ UNCHANGED <<turnVars, toolVars, boundVars>>

\* The stream ends with a response: text alone, or tool calls as well.
Respond ==
    /\ at = "stream"
    /\ \E k \in 0 .. (IF StepStarts < MaxSteps THEN MaxCalls - asked ELSE 0) : \E kinds \in [1 .. k -> Kinds] :
        LET e == Event("assistant", turn, step, k, "")
        IN  \/ /\ Logs(e) /\ Goes("answered") /\ calls' = kinds /\ asked' = asked + k
               /\ UNCHANGED stepVars
            \/ Refuses(e) /\ Fails("failed") /\ UNCHANGED <<calls, asked>>
    /\ attempt' = 0 /\ UNCHANGED <<turnVars, next, body, ran>>

\* The stream breaks: what it produced is kept as an interrupted message, which
\* asks for no calls, because calls come with the finish event and the readers
\* return io.EOF after it. Or it ends with a failure, which the retry policy may
\* repeat.
StreamBreaks ==
    LET e == Event("assistant", turn, step, 0, "interrupted")
        reason == IF ctx = "cancelled" THEN "cancelled" ELSE "failed"
    IN  /\ at = "stream"
        /\ \/ (Notes \/ Logs(e)) /\ Fails(reason) /\ UNCHANGED attempt
           \/ (NoteFails \/ Refuses(e)) /\ Fails("failed") /\ UNCHANGED attempt
           \/ RequestFails
        /\ UNCHANGED <<turnVars, toolVars, boundVars>>

\* The request/end record, then the tool phase if there are calls.
Answered ==
    /\ at = "answered"
    /\ \/ /\ Notes
          /\ \/ calls = <<>> /\ done' = TRUE /\ Goes("endStep")
             \/ calls # <<>> /\ Goes("tools") /\ UNCHANGED done
          /\ UNCHANGED <<err, blocked>>
       \/ NoteFails /\ Fails("failed")
    /\ UNCHANGED <<turnVars, toolVars, attempt, boundVars>>

\* Faulty: a cancelled step is not closed.
EndStepUncancelled ==
    LET e == Event("step/end", turn, step, 0, IF err = "none" THEN "completed" ELSE err)
    IN  /\ at = "endStep" /\ (IF err = "cancelled" THEN UNCHANGED logVars ELSE Logs(e))
        /\ Goes("stepped") /\ calls' = <<>> /\ next' = 1 /\ body' = NoBodies /\ attempt' = 0
        /\ UNCHANGED <<turnVars, stepVars, boundVars>>

\* The deferred step/end.
EndStep ==
    LET e == Event("step/end", turn, step, 0, IF err = "none" THEN "completed" ELSE err)
    IN  /\ at = "endStep"
        /\ \/ Logs(e) /\ UNCHANGED <<err, done>>
           \/ Refuses(e) /\ err' = (IF err = "none" THEN "failed" ELSE err) /\ done' = FALSE
        /\ Goes("stepped") /\ calls' = <<>> /\ next' = 1 /\ body' = NoBodies /\ attempt' = 0
        /\ UNCHANGED <<turnVars, blocked, boundVars>>

----------------------------------------------------------------------------
(* executeCalls and executeParallelGroup.                                  *)

CallEvent(n) == Event("call", turn, step, n, "")
ResultEvent(n, code) == Event("result", turn, step, n, code)

\* Calls that are in the group and not committed, and the one commitReady
\* looks at.
InFlight == {n \in 1 .. Len(calls) : body[n] \in {"running", "settled", "ready", "denied"}}
Running == {n \in 1 .. Len(calls) : body[n] \in {"running", "settled"}}
HeadReady == InFlight # {} /\ body[Min(InFlight)] \in {"ready", "denied"}

\* tool/call is logged, then the call is prepared: it runs or it is denied.
Start(n, label) ==
    /\ Logs(CallEvent(n)) /\ Goes(label) /\ UNCHANGED stepVars
    /\ \/ body' = [body EXCEPT ![n] = "running"] /\ ran' = ran \cup {<<turn, step, n>>}
       \/ body' = [body EXCEPT ![n] = "denied"] /\ UNCHANGED ran

\* commitToolOutcome: the result and the contexts that follow it.
Commit(n) ==
    /\ Logs(ResultEvent(n, IF body[n] = "denied" THEN "denied" ELSE "ok"))
    /\ body' = [body EXCEPT ![n] = "committed"] /\ UNCHANGED stepVars
CommitFails(n, label) ==
    LET e == ResultEvent(n, IF body[n] = "denied" THEN "denied" ELSE "ok")
    IN  /\ \/ Refuses(e)
           \/ ~diverged /\ Trouble("fault") /\ stored' = Append(stored, e) /\ UNCHANGED diverged
        /\ err' = "failed" /\ Goes(label)
        /\ UNCHANGED <<done, blocked, body>>

\* The loop of executeCalls between two groups.
Tools ==
    /\ at = "tools"
    /\ \/ /\ next > Len(calls) /\ Goes("endStep")
          /\ \/ UNCHANGED stepVars
             \/ /\ \E n \in 1 .. Len(calls) : <<turn, step, n>> \in ran
                /\ done' = TRUE /\ UNCHANGED <<err, blocked>>
          /\ UNCHANGED <<logVars, body, ran>>
       \/ /\ next <= Len(calls) /\ ctx = "cancelled"
          /\ Goes("abort") /\ UNCHANGED <<logVars, stepVars, body, ran>>
       \/ /\ next <= Len(calls) /\ ctx # "cancelled"
          /\ IF calls[next] = "safe" /\ MaxParallel > 1
             THEN Goes("fill") /\ UNCHANGED <<logVars, stepVars, body, ran>>
             ELSE \/ Start(next, "exclusive")
                  \/ Refuses(CallEvent(next)) /\ Fails("failed") /\ UNCHANGED <<body, ran>>
    /\ UNCHANGED <<turnVars, calls, next, attempt, asked>>

\* An exclusive call runs in the loop's own goroutine.
Exclusive ==
    /\ at = "exclusive" /\ body[next] \in {"settled", "denied"}
    /\ \/ Commit(next) /\ next' = next + 1 /\ Goes("tools")
       \/ CommitFails(next, "endStep") /\ UNCHANGED next
    /\ UNCHANGED <<turnVars, calls, attempt, boundVars>>

\* fill: start the next call while the pool has room and it is safe.
CanFill ==
    /\ ctx # "cancelled" /\ next <= Len(calls) /\ calls[next] = "safe"
    /\ Cardinality(InFlight) < MaxParallel

Fill ==
    /\ at = "fill"
    /\ \/ CanFill /\ Start(next, "filled") /\ next' = next + 1
       \/ /\ CanFill /\ Refuses(CallEvent(next)) /\ err' = "failed" /\ Goes("drain")
          /\ UNCHANGED <<next, body, ran, done, blocked>>
       \/ ~CanFill /\ Goes("settle") /\ UNCHANGED <<logVars, stepVars, next, body, ran>>
    /\ UNCHANGED <<turnVars, calls, attempt, asked>>

\* commitReady, from fill ("filled") and after it ("settle").
CommitReady ==
    /\ at \in {"filled", "settle"} /\ HeadReady
    /\ \/ Commit(Min(InFlight)) /\ UNCHANGED at
       \/ CommitFails(Min(InFlight), "drain")
    /\ UNCHANGED <<turnVars, calls, next, attempt, boundVars>>

\* Nothing to commit: go on filling; or, after fill, drain on cancellation,
\* leave the group when nothing runs, or wait for a body.
Committed ==
    /\ at \in {"filled", "settle"} /\ ~HeadReady
    /\ Goes(CASE at = "filled" -> "fill"
              [] at = "settle" /\ ctx = "cancelled" -> "drain"
              [] at = "settle" /\ ctx # "cancelled" /\ Running = {} -> "tools"
              [] OTHER -> "wait")
    /\ UNCHANGED <<logVars, turnVars, stepVars, toolVars, attempt, boundVars>>

\* Faulty: drain does not receive.
ReceiveWaiting ==
    /\ at = "wait"
    /\ \E n \in Calls : body[n] = "settled" /\ body' = [body EXCEPT ![n] = "ready"]
    /\ Goes("fill")
    /\ UNCHANGED <<logVars, turnVars, stepVars, calls, next, attempt, boundVars>>

\* A body's outcome is received from the channel.
Receive ==
    /\ at \in {"wait", "drain"}
    /\ \E n \in Calls : body[n] = "settled" /\ body' = [body EXCEPT ![n] = "ready"]
    /\ Goes(IF at = "wait" THEN "fill" ELSE at)
    /\ UNCHANGED <<logVars, turnVars, stepVars, calls, next, attempt, boundVars>>

\* drain has received every body: give up, or commit and abort the rest.
Drained ==
    /\ at = "drain" /\ Running = {}
    /\ \/ err = "failed" /\ Goes("endStep") /\ UNCHANGED <<logVars, stepVars, body>>
       \/ err = "none" /\ HeadReady /\ Commit(Min(InFlight)) /\ UNCHANGED at
       \/ err = "none" /\ HeadReady /\ CommitFails(Min(InFlight), "endStep")
       \/ err = "none" /\ ~HeadReady /\ Goes("abort") /\ UNCHANGED <<logVars, stepVars, body>>
    /\ UNCHANGED <<turnVars, calls, next, attempt, boundVars>>

\* Faulty: the calls that were not started are forgotten.
AbortSilently ==
    /\ at = "abort" /\ Fails("cancelled")
    /\ UNCHANGED <<logVars, next, body, turnVars, calls, attempt, boundVars>>

\* appendAbortedCalls: the calls that were not started get a call and an
\* aborted result each.
Abort ==
    /\ at = "abort"
    /\ \/ /\ next > Len(calls) /\ Fails("cancelled") /\ UNCHANGED <<logVars, next, body>>
       \/ /\ next <= Len(calls) /\ body[next] = "none"
          /\ \/ Logs(CallEvent(next)) /\ body' = [body EXCEPT ![next] = "aborted"] /\ UNCHANGED <<at, stepVars>>
             \/ Refuses(CallEvent(next)) /\ Fails("failed") /\ UNCHANGED body
          /\ UNCHANGED next
       \/ /\ next <= Len(calls) /\ body[next] = "aborted"
          /\ \/ Logs(ResultEvent(next, "aborted")) /\ next' = next + 1 /\ UNCHANGED <<at, stepVars>>
             \/ Refuses(ResultEvent(next, "aborted")) /\ Fails("failed") /\ UNCHANGED next
          /\ UNCHANGED body
    /\ UNCHANGED <<turnVars, calls, attempt, boundVars>>

\* A tool's body returns.
BodySettles(n) ==
    /\ body[n] = "running" /\ at \notin Stopped
    /\ body' = [body EXCEPT ![n] = "settled"]
    /\ UNCHANGED <<logVars, at, turnVars, stepVars, calls, next, attempt, boundVars>>

----------------------------------------------------------------------------
(* The environment.                                                        *)

\* Agent.Cancel withdraws a pending steer and cancels the turn's context.
Cancel ==
    /\ at \notin Stopped /\ Trouble("cancel")
    /\ ctx' = (IF ctx = "live" THEN "cancelled" ELSE ctx) /\ steerPending' = FALSE
    /\ UNCHANGED <<stored, diverged, at, turn, step, steering, queued, supplied, stepVars, toolVars,
                   attempt, boundVars>>

\* Agent.Steer queues its message under the Agent's lock and cancels after it.
Steer ==
    /\ at \notin Stopped /\ ~steering /\ Trouble("steer")
    /\ queued' = TRUE /\ steerPending' = TRUE /\ steering' = TRUE
    /\ UNCHANGED <<stored, diverged, at, turn, step, ctx, supplied, stepVars, toolVars, attempt, boundVars>>

SteerCancels ==
    /\ steering /\ steering' = FALSE
    /\ ctx' = (IF ctx = "live" THEN "cancelled" ELSE ctx)
    /\ UNCHANGED <<logVars, at, turn, step, steerPending, queued, supplied, stepVars, toolVars, attempt,
                   boundVars>>

\* Another part of the program calls LoadSession on the live session.
Load ==
    /\ at \notin {"down", "refused"} /\ InterruptedTurnClosers(stored) # <<>> /\ Trouble("load")
    /\ stored' = stored \o InterruptedTurnClosers(stored) /\ diverged' = TRUE
    /\ UNCHANGED <<at, turnVars, stepVars, toolVars, attempt, boundVars>>

\* The process dies, perhaps in the middle of writing a record.
Crash ==
    /\ at \notin {"down", "refused"} /\ Trouble("crash")
    /\ stored' \in {stored, Append(stored, Torn)} /\ diverged' = FALSE
    /\ Goes("down") /\ AtRest /\ queued' = FALSE /\ UNCHANGED boundVars

\* The next process loads the session: drop a torn record, append the
\* closers, validate. It may die between two of the closers' records.
Recover ==
    LET base == Complete(stored)
        closers == InterruptedTurnClosers(base)
    IN  /\ at = "down"
        /\ \/ /\ stored' = base \o closers /\ UNCHANGED troubles
              /\ Goes(IF ValidateLifecycle(stored') THEN "idle" ELSE "refused")
           \/ /\ "crash" \in Disturbances /\ troubles <= Troubles
              /\ troubles' = troubles + 1 /\ UNCHANGED at
              /\ \E k \in 0 .. Len(closers) : stored' = base \o SubSeq(closers, 1, k) \o <<Torn>>
        /\ UNCHANGED <<diverged, turnVars, stepVars, toolVars, attempt, boundVars>>

LoopStep ==
    \/ Top \/ PreStep \/ OpenStep \/ Request \/ Respond \/ StreamBreaks \/ Answered \/ EndStep
    \/ Stepped \/ Stopping \/ EndTurn
    \/ Tools \/ Exclusive \/ Fill \/ CommitReady \/ Committed \/ Receive \/ Drained \/ Abort

LoopNext ==
    \/ StartTurn \/ LoopStep \/ \E n \in Calls : BodySettles(n)
    \/ Cancel \/ Steer \/ SteerCancels \/ Load \/ Crash \/ Recover

LoopSpec == LoopInit /\ [][LoopNext]_loopVars

\* The loop's goroutine runs, tools return and a dead process is restarted.
LoopFairSpec ==
    /\ LoopSpec /\ WF_loopVars(LoopStep) /\ WF_loopVars(Recover)
    /\ \A n \in Calls : WF_loopVars(BodySettles(n))

----------------------------------------------------------------------------
(* Properties.                                                             *)

LoopTypeOK ==
    /\ diverged \in BOOLEAN /\ turn \in 0 .. MaxTurns /\ step \in Nat
    /\ at \in Stopped \cup {"top", "preStep", "openStep", "request", "stream", "answered", "tools",
           "exclusive", "fill", "filled", "settle", "wait", "drain", "abort", "endStep", "stepped",
           "stopping", "endTurn"}
    /\ ctx \in {"live", "cancelled", "masked"}
    /\ {steering, steerPending, queued, supplied, done, blocked} \subseteq BOOLEAN
    /\ err \in {"none", "failed", "cancelled"}
    /\ calls \in Seq(Kinds) /\ Len(calls) <= MaxCalls /\ next \in 1 .. Len(calls) + 1
    /\ body \in [Calls -> {"none", "running", "settled", "ready", "denied", "committed", "aborted"}]
    /\ attempt \in 0 .. MaxRetries /\ asked \in 0 .. MaxCalls /\ troubles \in 0 .. Troubles + 1
    /\ \A i \in DOMAIN stored : stored[i].type \in Anchors \cup {"assistant", "call", "result", "torn"}

\* Whenever the process dies, the log it leaves is a balanced prefix and at
\* most its last record is torn, so that the next load can repair it.
Recoverable ==
    /\ Nested(Complete(stored))
    /\ \A i \in DOMAIN stored : stored[i] = Torn => i = Len(stored) /\ at = "down"

\* The events of the step that the step/end at index i closes.
StepOf(log, i) == LastBefore(log, i, {"step/start"}) .. i

\* A step that did not end "failed" has one result for each call of its
\* assistant message, and no step has two for one call: completed, cancelled
\* and recovered steps alike. However the bodies finish, the results appear in
\* the order of the calls.
AnsweredOnce ==
    \A i \in DOMAIN stored : stored[i].type = "step/end" =>
        LET events == StepOf(stored, i)
        IN  \A j \in events : stored[j].type = "assistant" =>
            \A n \in 1 .. stored[j].n :
                LET results == {k \in events : stored[k].type = "result" /\ stored[k].n = n}
                IN  /\ Cardinality(results) <= 1
                    /\ stored[i].code # "failed" => Cardinality(results) = 1
                    /\ \A k \in results : \A l \in events :
                           stored[l].type = "result" /\ l < k => stored[l].n < n

\* A result that says that a call was not started, aborted or denied is true:
\* its body never ran, not before and not after the result was written. The
\* model is told to retry such a call.
NotStartedHonest ==
    \A i \in DOMAIN stored :
        stored[i].type = "result" /\ stored[i].code \in {"not-started", "aborted", "denied"}
            => <<stored[i].turn, stored[i].step, stored[i].n>> \notin ran

\* The log answers each call of a step once, in order and truthfully, however the
\* step ended (Loop.Run, InterruptedTurnClosers).
CallsAnswered == AnsweredOnce /\ NotStartedHonest

\* The session can be opened at every moment at which no turn is open.
SessionLoads ==
    Open(Complete(stored)) = "none" => ValidateLifecycle(Complete(stored))

\* Only a crash closes a turn as interrupted: InterruptedTurnClosers repairs
\* what a dead process left, it never ends the turn of a live one.
InterruptedMeansCrash ==
    \A i \in DOMAIN stored :
        stored[i].type = "turn/end" /\ stored[i].code = "interrupted" => "crash" \in Disturbances

\* Every turn returns, and a session that went down comes back or is refused.
TurnReturns == (at \notin {"idle", "refused"}) ~> (at \in {"idle", "refused"})

\* The session's turns as its log shows them.
TurnsOf(log) ==
    [k \in 1 .. TurnStarts(log, Len(log)) |->
        LET Of(type) == {i \in DOMAIN log : log[i].type = type /\ TurnStarts(log, i) = k}
        IN  [status |-> IF Of("turn/end") = {} THEN "open" ELSE log[Min(Of("turn/end"))].code,
             steps |-> Cardinality(Of("step/end"))]]

History == INSTANCE TurnHistory WITH
    turns <- TurnsOf(stored),
    Statuses <- {"completed", "blocked", "failed", "cancelled", "interrupted"}

\* TurnLoop implements TurnHistory.
ImplementsTurnHistory == History!Spec
=============================================================================
