----------------------------- MODULE AgentDriver -----------------------------
(***************************************************************************)
(* One Agent and everybody who calls it (internal/agent/agent.go): the     *)
(* driver goroutine, synchronous Run callers, Send and Steer, Cancel,      *)
(* maintenance, WhenIdle and Close. One action is one critical section of  *)
(* Agent.mu (or one step between two of them); the goroutines interleave.  *)
(*                                                                         *)
(* The inbox is reduced to the set of queued messages and its wake token;  *)
(* Inbox.tla has its queues. A message is named by the process that        *)
(* submitted it, so a Run caller and its message share a name.             *)
(***************************************************************************)
EXTENDS Naturals, FiniteSets

CONSTANTS
    Runs,         \* callers of Run
    Senders,      \* callers of Send and Steer
    Cancellers,   \* callers of Cancel
    Maintainers,  \* callers of RunMaintenance
    Idlers,       \* callers of WhenIdle
    Closers,      \* callers of Close
    Impatient,    \* the Run callers whose context may be cancelled
    Keyed,        \* the Run callers that share one dedupe key
    Driver,       \* the driver goroutine
    None,         \* nil
    MaxFaults     \* bound: journal commits that fail

ASSUME ActorsAssumption ==
    /\ Impatient \subseteq Runs /\ Keyed \subseteq Runs
    /\ Runs \cap Senders = {} /\ Runs \cap Cancellers = {} /\ Runs \cap Maintainers = {}
    /\ Runs \cap Idlers = {} /\ Runs \cap Closers = {} /\ Senders \cap Cancellers = {}
    /\ Senders \cap Maintainers = {} /\ Senders \cap Idlers = {} /\ Senders \cap Closers = {}
    /\ Cancellers \cap Maintainers = {} /\ Cancellers \cap Idlers = {}
    /\ Cancellers \cap Closers = {} /\ Maintainers \cap Idlers = {}
    /\ Maintainers \cap Closers = {} /\ Idlers \cap Closers = {}
    /\ Driver \notin Runs \cup Senders \cup Cancellers \cup Maintainers \cup Idlers \cup Closers
    /\ None \notin Runs \cup Senders \cup Cancellers \cup Maintainers \cup Idlers \cup Closers \cup {Driver}

ASSUME FaultsAssumption == MaxFaults \in Nat

Procs == Runs \cup Senders \cup Cancellers \cup Maintainers \cup Idlers \cup Closers \cup {Driver}

Messages == Runs \cup Senders

VARIABLES
    pc,             \* where each goroutine is
    status, started, closed, disposed, turnClaimed, steerPending,
    parented,       \* the driver's context descends from one its owner may cancel
    turn,           \* the number of turns claimed (nextTurn - 1)
    turnCancel,     \* the turn whose cancel function is stored, 0 for nil
    cancelled,      \* the turns whose context has been cancelled
    runCancelled,   \* the driver's own context has been cancelled
    maintenance,    \* the caller that owns the maintenance phase, or None
    maintDone,      \* the maintenance calls whose done channel is closed
    maintCancelled, \* the maintenance calls whose context has been cancelled
    waiters,        \* message -> the Run caller registered for it, or None
    queued,         \* the messages in the inbox
    wake,           \* the inbox's wake token
    scopeClosed,    \* Scope.Close has run
    closeDone,      \* the closeDone channel is closed
    input,          \* driver: the messages of the claimed turn
    seenMaint,      \* maintenance call whose channels a process has read
    seenTurn,       \* turn whose cancel function a process has read
    taken,          \* Run callers a process must tell that the Agent closed
    msg,            \* Run caller -> its message
    reply,          \* Run caller -> what is in its waiter channel
    answers,        \* Run caller -> the number of times its channel has been answered
    result,         \* Run caller -> what Run returned
    faults,         \* journal commits that have failed
    turnOf,         \* history: the turn that claimed a message, 0 if none
    ran,            \* history: the messages handed to the runner
    idleSeen        \* history: the WhenIdle callers that found the Agent quiescent at
                    \* one of the two looks of their last poll

lifecycle == <<status, started, parented, closed, disposed, scopeClosed, closeDone>>
turnVars == <<turn, turnClaimed, turnCancel, cancelled, runCancelled, steerPending, input>>
maintVars == <<maintenance, maintDone, maintCancelled>>
inboxVars == <<queued, wake, waiters, msg, faults>>
runVars == <<reply, answers, result, taken>>
history == <<turnOf, ran, idleSeen>>

vars == <<pc, lifecycle, turnVars, maintVars, inboxVars, runVars, seenMaint, seenTurn, history>>

HasWork == queued # {}

\* No turn is claimed or running, no work waits and no maintenance runs.
Quiescent == ~turnClaimed /\ status # "running" /\ maintenance = None /\ ~HasWork

Goto(p, label) == pc' = [pc EXCEPT ![p] = label]

\* Run of caller p returns r.
Return(p, r) == result' = [result EXCEPT ![p] = r] /\ Goto(p, "returned")

Init ==
    /\ pc = [p \in Procs |-> IF p = Driver THEN "off" ELSE "begin"]
    /\ status = "idle" /\ started = FALSE /\ parented = FALSE /\ closed = FALSE /\ disposed = FALSE
    /\ turnClaimed = FALSE /\ steerPending = FALSE
    /\ turn = 0 /\ turnCancel = 0 /\ cancelled = {} /\ runCancelled = FALSE
    /\ maintenance = None /\ maintDone = {} /\ maintCancelled = {}
    /\ waiters = [m \in Messages |-> None]
    /\ queued = {} /\ wake = FALSE
    /\ scopeClosed = FALSE /\ closeDone = FALSE
    /\ input = {}
    /\ seenMaint = [p \in Procs |-> None] /\ seenTurn = [p \in Procs |-> 0]
    /\ taken = [p \in Procs |-> {}]
    /\ msg = [r \in Runs |-> None] /\ reply = [r \in Runs |-> "none"]
    /\ answers = [r \in Runs |-> 0]
    /\ result = [r \in Runs |-> "none"]
    /\ faults = 0
    /\ turnOf = [m \in Messages |-> 0] /\ ran = {} /\ idleSeen = {}

JournalFails == faults < MaxFaults /\ faults' = faults + 1

-----------------------------------------------------------------------------
(* The driver goroutine, run.                                              *)

\* The maintenance gate at the top of the loop.
DriverGate ==
    /\ pc[Driver] = "gate"
    /\ Goto(Driver, IF maintenance # None THEN "barrier" ELSE "claim")
    /\ seenMaint' = [seenMaint EXCEPT ![Driver] = maintenance]
    /\ UNCHANGED <<lifecycle, turnVars, maintVars, inboxVars, runVars, seenTurn, history>>

\* select on the maintenance barrier and the driver's context.
DriverBarrier ==
    /\ pc[Driver] = "barrier"
    /\ \/ seenMaint[Driver] \in maintDone /\ Goto(Driver, "gate")
       \/ runCancelled /\ Goto(Driver, "exit")
    /\ UNCHANGED <<lifecycle, turnVars, maintVars, inboxVars, runVars, seenMaint, seenTurn, history>>

\* The claim, under claimMu and mu: all next-step messages, one Run message.
ClaimInput(S) ==
    /\ S \subseteq queued /\ S # {}
    /\ queued \cap Senders \subseteq S
    /\ Cardinality(S \cap Runs) = IF queued \cap Runs = {} THEN 0 ELSE 1

DriverClaim ==
    /\ pc[Driver] = "claim" /\ maintenance = None
    /\ \E S \in SUBSET queued :
          /\ ClaimInput(S)
          /\ input' = S /\ queued' = queued \ S
          /\ turnOf' = [m \in Messages |-> IF m \in S THEN turn + 1 ELSE turnOf[m]]
    /\ turn' = turn + 1 /\ turnClaimed' = TRUE
    /\ Goto(Driver, "claimed")
    /\ UNCHANGED <<lifecycle, turnCancel, cancelled, runCancelled, steerPending, maintVars,
                   wake, waiters, msg, faults, runVars, seenMaint, seenTurn, ran, idleSeen>>

\* The other ways out of the claim section: a maintenance phase that began
\* since the gate, an empty inbox, or a failing commit.
DriverNoClaim ==
    /\ pc[Driver] = "claim"
    /\ \/ /\ maintenance # None
          /\ Goto(Driver, "barrier2")
          /\ seenMaint' = [seenMaint EXCEPT ![Driver] = maintenance]
          /\ UNCHANGED faults
       \/ /\ maintenance = None /\ ~HasWork
          /\ Goto(Driver, "wait") /\ UNCHANGED <<seenMaint, faults>>
       \/ /\ maintenance = None /\ HasWork /\ JournalFails
          /\ Goto(Driver, "exit") /\ UNCHANGED seenMaint
    /\ UNCHANGED <<lifecycle, turnVars, maintVars, queued, wake, waiters, msg, runVars,
                   seenTurn, history>>

\* This wait does not watch the driver's context.
DriverBarrier2 ==
    /\ pc[Driver] = "barrier2" /\ seenMaint[Driver] \in maintDone
    /\ Goto(Driver, "gate")
    /\ UNCHANGED <<lifecycle, turnVars, maintVars, inboxVars, runVars, seenMaint, seenTurn, history>>

\* Inbox.Wait.
DriverWait ==
    /\ pc[Driver] = "wait"
    /\ \/ wake /\ wake' = FALSE /\ Goto(Driver, "gate")
       \/ runCancelled /\ Goto(Driver, "exit") /\ UNCHANGED wake
    /\ UNCHANGED <<lifecycle, turnVars, maintVars, queued, waiters, msg, faults, runVars,
                   seenMaint, seenTurn, history>>

\* The second critical section: publish the turn, or give it up if closed.
DriverBegin ==
    /\ pc[Driver] = "claimed"
    /\ IF closed
       THEN /\ turnClaimed' = FALSE /\ Goto(Driver, "exit")
            /\ UNCHANGED <<turnCancel, status, ran>>
       ELSE /\ turnCancel' = turn /\ status' = "running"
            /\ ran' = ran \cup input
            /\ Goto(Driver, "running") /\ UNCHANGED turnClaimed
    /\ UNCHANGED <<started, parented, closed, disposed, scopeClosed, closeDone, turn, cancelled,
                   runCancelled, steerPending, input, maintVars, inboxVars, runVars,
                   seenMaint, seenTurn, turnOf, idleSeen>>

TurnAborted == turn \in cancelled \/ runCancelled

\* Step input claimed by the running turn: ClaimStepWithError at any step
\* boundary, ClaimSteerStepWithError after a Steer interrupted the runner.
TakeStepInput ==
    /\ queued' = queued \ Senders
    /\ ran' = ran \cup (queued \cap Senders)
    /\ turnOf' = [m \in Messages |-> IF m \in queued \cap Senders THEN turn ELSE turnOf[m]]
    /\ UNCHANGED <<pc, lifecycle, turn, turnClaimed, turnCancel, cancelled, runCancelled, input,
                   maintVars, wake, waiters, msg, faults, runVars, seenMaint, seenTurn, idleSeen>>

RunnerClaimStep ==
    /\ pc[Driver] = "running" /\ queued \cap Senders # {}
    /\ TakeStepInput /\ UNCHANGED steerPending

RunnerClaimSteer ==
    /\ pc[Driver] = "running" /\ TurnAborted /\ steerPending
    /\ TakeStepInput /\ steerPending' = FALSE

\* The Run callers with a channel in the waiters map for one of the messages.
WaitersOf(messages) == {waiters[m] : m \in messages} \ {None}

\* One more answer to each of the callers: a send on its channel, then close.
Answer(callers, err) ==
    /\ reply' = [r \in Runs |-> IF r \in callers THEN err ELSE reply[r]]
    /\ answers' = [r \in Runs |-> IF r \in callers THEN answers[r] + 1 ELSE answers[r]]

\* Faulty: answers every registered caller, not only those of this turn.
CompleteEverybody(err) ==
    Answer(WaitersOf(Messages), err) /\ waiters' = [m \in Messages |-> None]

\* Faulty: forgets the channels without answering.
CompleteSilently(err) ==
    /\ waiters' = [m \in Messages |-> IF m \in input THEN None ELSE waiters[m]]
    /\ UNCHANGED <<reply, answers>>

\* completeWaitersLocked: answer and forget the Run callers of this turn.
completeWaitersLocked(err) ==
    /\ Answer(WaitersOf(input), err)
    /\ waiters' = [m \in Messages |-> IF m \in input THEN None ELSE waiters[m]]

\* The runner returns and the turn settles under mu.
DriverSettle(err) ==
    /\ pc[Driver] = "running"
    /\ err = "canceled" => TurnAborted
    /\ turnCancel' = 0 /\ turnClaimed' = FALSE /\ steerPending' = FALSE
    /\ cancelled' = cancelled \cup {turn}
    /\ completeWaitersLocked(err)
    /\ input' = {}
    /\ status' = IF closed THEN status ELSE "idle"
    /\ Goto(Driver, "settled")
    /\ UNCHANGED <<started, parented, closed, disposed, scopeClosed, closeDone, turn, runCancelled,
                   maintVars, queued, wake, msg, faults, result, taken, seenMaint, seenTurn, history>>

DriverLoop ==
    /\ pc[Driver] = "settled"
    /\ Goto(Driver, IF closed \/ runCancelled THEN "exit" ELSE "gate")
    /\ UNCHANGED <<lifecycle, turnVars, maintVars, inboxVars, runVars, seenMaint, seenTurn, history>>

\* Faulty: leaves the waiters in the map.
TakeAndKeep(p) ==
    /\ taken' = [taken EXCEPT ![p] = WaitersOf(Messages)]
    /\ UNCHANGED waiters

\* Collect the waiters of the Agent that p closes and empty the map.
TakeWaiters(p) ==
    /\ taken' = [taken EXCEPT ![p] = WaitersOf(Messages)]
    /\ waiters' = [m \in Messages |-> None]

\* The deferred exit: close the Agent, collect the waiters, ...
DriverExit ==
    /\ pc[Driver] = "exit"
    /\ closed' = TRUE /\ status' = "closed"
    /\ TakeWaiters(Driver)
    /\ seenMaint' = [seenMaint EXCEPT ![Driver] = maintenance]
    /\ Goto(Driver, "release")
    /\ UNCHANGED <<started, parented, disposed, scopeClosed, closeDone, turnVars, maintVars, queued, wake,
                   msg, faults, reply, answers, result, seenTurn, history>>

\* ... cancel maintenance, close the inbox and answer the waiters, ...
Release(p) ==
    /\ maintCancelled' = maintCancelled \cup ({seenMaint[p]} \ {None})
    /\ wake' = TRUE
    /\ Answer(taken[p], "closed")
    /\ taken' = [taken EXCEPT ![p] = {}]

DriverRelease ==
    /\ pc[Driver] = "release"
    /\ Release(Driver)
    /\ Goto(Driver, "drain")
    /\ UNCHANGED <<lifecycle, turnVars, maintenance, maintDone, queued, waiters, msg, faults,
                   result, seenMaint, seenTurn, history>>

\* Faulty: disposes without waiting for maintenance.
DisposeUnderMaintenance ==
    /\ pc[Driver] = "drain"
    /\ scopeClosed' = TRUE /\ disposed' = TRUE /\ closeDone' = TRUE
    /\ Goto(Driver, "done")
    /\ UNCHANGED <<status, started, parented, closed, turnVars, maintVars, inboxVars, runVars,
                   seenMaint, seenTurn, history>>

\* ... wait for maintenance and dispose the scope.
DriverDispose ==
    /\ pc[Driver] = "drain"
    /\ seenMaint[Driver] # None => seenMaint[Driver] \in maintDone
    /\ scopeClosed' = TRUE /\ disposed' = TRUE /\ closeDone' = TRUE
    /\ Goto(Driver, "done")
    /\ UNCHANGED <<status, started, parented, closed, turnVars, maintVars, inboxVars, runVars,
                   seenMaint, seenTurn, history>>

\* Start, called by the owner of the Agent with a context it may cancel ...
Start ==
    /\ ~closed /\ ~started
    /\ started' = TRUE /\ parented' = TRUE
    /\ Goto(Driver, "gate")
    /\ UNCHANGED <<status, closed, disposed, scopeClosed, closeDone, turnVars, maintVars,
                   inboxVars, runVars, seenMaint, seenTurn, history>>

\* ... and does.
ParentCancel ==
    /\ parented /\ ~runCancelled
    /\ runCancelled' = TRUE
    /\ UNCHANGED <<pc, lifecycle, turn, turnClaimed, turnCancel, cancelled, steerPending, input,
                   maintVars, inboxVars, runVars, seenMaint, seenTurn, history>>

-----------------------------------------------------------------------------
(* Run: submit one next-turn message and wait for its turn.                *)

\* The first look at started and closed.
RunBegin(r) ==
    /\ pc[r] = "begin"
    /\ IF closed THEN Return(r, "closed")
       ELSE Goto(r, IF started THEN "submit" ELSE "start") /\ UNCHANGED result
    /\ UNCHANGED <<lifecycle, turnVars, maintVars, inboxVars, reply, answers, taken, seenMaint,
                   seenTurn, history>>

\* Start, called because the Agent was not started when Run looked.
RunStart(r) ==
    /\ pc[r] = "start"
    /\ IF closed \/ started
       THEN /\ Return(r, IF closed THEN "closed" ELSE "alreadyStarted")
            /\ UNCHANGED started
       ELSE /\ started' = TRUE
            /\ pc' = [pc EXCEPT ![r] = "submit", ![Driver] = "gate"]
            /\ UNCHANGED result
    /\ UNCHANGED <<status, parented, closed, disposed, scopeClosed, closeDone, turnVars, maintVars,
                   inboxVars, reply, answers, taken, seenMaint, seenTurn, history>>

\* The message Followup returns: a pending one with the same dedupe key, else
\* a new one.
Submitted(r) ==
    IF r \in Keyed /\ queued \cap Keyed # {} THEN CHOOSE m \in queued \cap Keyed : TRUE ELSE r

\* Faulty: submits without signalling.
WakeNobody(r) == wake

\* A new message signals the driver, a duplicate does not.
WakeAfter(r) == wake \/ Submitted(r) = r

RunSubmit(r) ==
    /\ pc[r] = "submit"
    /\ \/ /\ closed /\ Return(r, "closed")
          /\ UNCHANGED <<queued, wake, waiters, msg, faults>>
       \/ /\ ~closed /\ Submitted(r) = r /\ JournalFails /\ Return(r, "failed")
          /\ UNCHANGED <<queued, wake, waiters, msg>>
       \/ /\ ~closed
          /\ queued' = queued \cup {Submitted(r)}
          /\ wake' = WakeAfter(r)
          /\ msg' = [msg EXCEPT ![r] = Submitted(r)]
          /\ waiters' = [waiters EXCEPT ![Submitted(r)] = r]
          /\ Goto(r, "waiting") /\ UNCHANGED <<faults, result>>
    /\ UNCHANGED <<lifecycle, turnVars, maintVars, reply, answers, taken, seenMaint, seenTurn, history>>

\* select: the waiter has an answer, or the caller's context is done.
RunReceive(r) ==
    /\ pc[r] = "waiting" /\ reply[r] # "none"
    /\ Return(r, reply[r])
    /\ UNCHANGED <<lifecycle, turnVars, maintVars, inboxVars, reply, answers, taken, seenMaint,
                   seenTurn, history>>

RunContextDone(r) ==
    /\ pc[r] = "waiting" /\ r \in Impatient
    /\ Goto(r, "abandon")
    /\ UNCHANGED <<lifecycle, turnVars, maintVars, inboxVars, runVars, seenMaint, seenTurn, history>>

\* Remove the message; if it is gone, cancel the Agent's turn.
RunAbandon(r) ==
    /\ pc[r] = "abandon"
    /\ \/ /\ msg[r] \in queued
          /\ queued' = queued \ {msg[r]}
          /\ Goto(r, "forget") /\ UNCHANGED <<result, faults>>
       \/ /\ msg[r] \in queued /\ JournalFails
          /\ Return(r, "canceled") /\ UNCHANGED queued
       \/ /\ msg[r] \notin queued
          /\ Goto(r, "cancel") /\ UNCHANGED <<queued, result, faults>>
    /\ UNCHANGED <<lifecycle, turnVars, maintVars, wake, waiters, msg, reply, answers, taken, seenMaint,
                   seenTurn, history>>

RunForget(r) ==
    /\ pc[r] = "forget"
    /\ waiters' = [waiters EXCEPT ![msg[r]] = None]
    /\ Return(r, "canceled")
    /\ UNCHANGED <<lifecycle, turnVars, maintVars, queued, wake, msg, faults, reply, answers, taken,
                   seenMaint, seenTurn, history>>

-----------------------------------------------------------------------------
(* Cancel. A Run caller that found its message gone calls it as well.      *)

\* Read the two cancel functions.
CancelGrab(p) ==
    /\ pc[p] = "cancel" \/ (p \in Cancellers /\ pc[p] = "begin")
    /\ IF closed
       THEN Goto(p, "returned") /\ UNCHANGED <<seenTurn, seenMaint>>
       ELSE /\ seenTurn' = [seenTurn EXCEPT ![p] = turnCancel]
            /\ seenMaint' = [seenMaint EXCEPT ![p] = maintenance]
            /\ \/ Goto(p, "unsteer")
               \/ p \in Cancellers /\ Goto(p, "abort")   \* KeepInbox
    /\ result' = IF closed /\ p \in Runs THEN [result EXCEPT ![p] = "canceled"] ELSE result
    /\ UNCHANGED <<lifecycle, turnVars, maintVars, inboxVars, reply, answers, taken, history>>

CancelUnsteer(p) ==
    /\ pc[p] = "unsteer"
    /\ steerPending' = FALSE
    /\ Goto(p, "clear")
    /\ UNCHANGED <<lifecycle, turn, turnClaimed, turnCancel, cancelled, runCancelled, input,
                   maintVars, inboxVars, runVars, seenMaint, seenTurn, history>>

\* ClearWithError. When it fails only the turn is cancelled.
CancelClear(p) ==
    /\ pc[p] = "clear"
    /\ \/ queued' = {} /\ UNCHANGED <<faults, seenMaint>>
       \/ /\ HasWork /\ JournalFails /\ UNCHANGED queued
          /\ seenMaint' = [seenMaint EXCEPT ![p] = None]
    /\ Goto(p, "abort")
    /\ UNCHANGED <<lifecycle, turnVars, maintVars, wake, waiters, msg, runVars, seenTurn, history>>

CancelAbort(p) ==
    /\ pc[p] = "abort"
    /\ cancelled' = cancelled \cup ({seenTurn[p]} \ {0})
    /\ maintCancelled' = maintCancelled \cup ({seenMaint[p]} \ {None})
    /\ Goto(p, "returned")
    /\ result' = IF p \in Runs THEN [result EXCEPT ![p] = "canceled"] ELSE result
    /\ UNCHANGED <<lifecycle, turn, turnClaimed, turnCancel, runCancelled, steerPending, input,
                   maintenance, maintDone, inboxVars, reply, answers, taken, seenMaint, seenTurn, history>>

-----------------------------------------------------------------------------
(* Send and Steer.                                                         *)

Send(s) ==
    /\ pc[s] = "begin" /\ ~closed
    /\ queued' = queued \cup {s} /\ wake' = TRUE
    /\ Goto(s, "returned")
    /\ UNCHANGED <<lifecycle, turnVars, maintVars, waiters, msg, faults, runVars, seenMaint,
                   seenTurn, history>>

\* Steer queues the message and reads the cancel function in one section.
Steer(s) ==
    /\ pc[s] = "begin" /\ ~closed
    /\ queued' = queued \cup {s} /\ wake' = TRUE
    /\ seenTurn' = [seenTurn EXCEPT ![s] = turnCancel]
    /\ steerPending' = (steerPending \/ turnCancel # 0)
    /\ Goto(s, IF turnCancel # 0 THEN "abort" ELSE "returned")
    /\ UNCHANGED <<lifecycle, turn, turnClaimed, turnCancel, cancelled, runCancelled, input,
                   maintVars, waiters, msg, faults, runVars, seenMaint, history>>

-----------------------------------------------------------------------------
(* RunMaintenance.                                                         *)

\* Admission, under claimMu and mu.
MaintBegin(m) ==
    /\ pc[m] = "begin"
    /\ IF closed \/ status = "running" \/ maintenance # None \/ HasWork
       THEN Goto(m, "returned") /\ UNCHANGED maintenance
       ELSE maintenance' = m /\ Goto(m, "task")
    /\ UNCHANGED <<lifecycle, turnVars, maintDone, maintCancelled, inboxVars, runVars, seenMaint,
                   seenTurn, history>>

\* The task returns and done is closed ...
MaintDone(m) ==
    /\ pc[m] = "task"
    /\ maintDone' = maintDone \cup {m}
    /\ Goto(m, "published")
    /\ UNCHANGED <<lifecycle, turnVars, maintenance, maintCancelled, inboxVars, runVars, seenMaint,
                   seenTurn, history>>

\* ... before the fields are cleared.
MaintClear(m) ==
    /\ pc[m] = "published"
    /\ maintenance' = None
    /\ Goto(m, "returned")
    /\ UNCHANGED <<lifecycle, turnVars, maintDone, maintCancelled, inboxVars, runVars, seenMaint,
                   seenTurn, history>>

-----------------------------------------------------------------------------
(* WhenIdle: a snapshot under mu, then Inbox.HasWork, polled.              *)

IdleSnapshot(w) ==
    /\ pc[w] = "begin"
    /\ maintenance = None /\ ~turnClaimed /\ status \in {"idle", "closed"}
    /\ Goto(w, "check")
    /\ idleSeen' = IF Quiescent THEN idleSeen \cup {w} ELSE idleSeen \ {w}
    /\ UNCHANGED <<lifecycle, turnVars, maintVars, inboxVars, runVars, seenMaint, seenTurn,
                   turnOf, ran>>

IdleCheck(w) ==
    /\ pc[w] = "check"
    /\ Goto(w, IF HasWork THEN "begin" ELSE "returned")
    /\ idleSeen' = IF Quiescent THEN idleSeen \cup {w} ELSE idleSeen
    /\ UNCHANGED <<lifecycle, turnVars, maintVars, inboxVars, runVars, seenMaint, seenTurn,
                   turnOf, ran>>

-----------------------------------------------------------------------------
(* Close.                                                                  *)

\* Faulty: relies on the inbox being closed.
LeaveDriver == UNCHANGED runCancelled

\* Close cancels the driver's context if there is a driver, ...
CancelDriver == runCancelled' = (runCancelled \/ started)

\* ... which then disposes; otherwise Close does.
CloseRoute == IF started THEN "release" ELSE "releaseIdle"

CloseBegin(c) ==
    /\ pc[c] = "begin"
    /\ IF closed
       THEN /\ Goto(c, IF disposed THEN "returned" ELSE "await")
            /\ UNCHANGED <<closed, status, cancelled, runCancelled, seenMaint, taken, waiters>>
       ELSE /\ closed' = TRUE /\ status' = "closed"
            /\ cancelled' = cancelled \cup ({turnCancel} \ {0})
            /\ CancelDriver
            /\ seenMaint' = [seenMaint EXCEPT ![c] = maintenance]
            /\ TakeWaiters(c)
            /\ Goto(c, CloseRoute)
    /\ UNCHANGED <<started, parented, disposed, scopeClosed, closeDone, turn, turnClaimed, turnCancel,
                   steerPending, input, maintVars, queued, wake, msg, faults, reply, answers, result,
                   seenTurn, history>>

CloseRelease(c) ==
    /\ c \in Closers /\ pc[c] \in {"release", "releaseIdle"}
    /\ Release(c)
    /\ Goto(c, IF pc[c] = "release" THEN "await" ELSE "drain")
    /\ UNCHANGED <<lifecycle, turnVars, maintenance, maintDone, queued, waiters, msg, faults,
                   result, seenMaint, seenTurn, history>>

CloseAwait(c) ==
    /\ pc[c] = "await" /\ closeDone
    /\ Goto(c, "returned")
    /\ UNCHANGED <<lifecycle, turnVars, maintVars, inboxVars, runVars, seenMaint, seenTurn, history>>

\* An Agent that was never started is disposed by Close itself, which marks it
\* disposed ...
CloseMark(c) ==
    /\ c \in Closers /\ pc[c] = "drain"
    /\ seenMaint[c] # None => seenMaint[c] \in maintDone
    /\ disposed' = TRUE
    /\ Goto(c, "dispose")
    /\ UNCHANGED <<status, started, parented, closed, scopeClosed, closeDone, turnVars, maintVars, inboxVars,
                   runVars, seenMaint, seenTurn, history>>

\* ... and then disposes it.
CloseDispose(c) ==
    /\ pc[c] = "dispose"
    /\ scopeClosed' = TRUE /\ closeDone' = TRUE
    /\ Goto(c, "returned")
    /\ UNCHANGED <<status, started, parented, closed, disposed, turnVars, maintVars, inboxVars, runVars,
                   seenMaint, seenTurn, history>>

-----------------------------------------------------------------------------

Settle == \E err \in {"ok", "failed", "canceled"} : DriverSettle(err)

DriverStep ==
    \/ DriverGate \/ DriverBarrier \/ DriverClaim \/ DriverNoClaim \/ DriverBarrier2
    \/ DriverWait \/ DriverBegin \/ Settle \/ DriverLoop
    \/ DriverExit \/ DriverRelease \/ DriverDispose

RunStep(r) ==
    \/ RunBegin(r) \/ RunStart(r) \/ RunSubmit(r) \/ RunReceive(r)
    \/ RunAbandon(r) \/ RunForget(r)

CancelStep(p) == CancelGrab(p) \/ CancelUnsteer(p) \/ CancelClear(p) \/ CancelAbort(p)

MaintStep(m) == MaintDone(m) \/ MaintClear(m)

CloseStep(c) ==
    CloseRelease(c) \/ CloseAwait(c) \/ CloseMark(c) \/ CloseDispose(c)

Next ==
    \/ DriverStep
    \/ RunnerClaimStep \/ RunnerClaimSteer
    \/ Start \/ ParentCancel
    \/ \E r \in Runs : RunStep(r) \/ RunContextDone(r)
    \/ \E p \in Runs \cup Cancellers : CancelStep(p)
    \/ \E s \in Senders : Send(s) \/ Steer(s) \/ CancelAbort(s)
    \/ \E m \in Maintainers : MaintBegin(m) \/ MaintStep(m)
    \/ \E w \in Idlers : IdleSnapshot(w) \/ IdleCheck(w)
    \/ \E c \in Closers : CloseBegin(c) \/ CloseStep(c)

Spec == Init /\ [][Next]_vars

\* Goroutines that can run do run; runners and maintenance tasks return. No
\* caller is obliged to call anything, and no context need be cancelled; WhenIdle
\* is polling from the start.
Fairness ==
    /\ WF_vars(DriverStep)
    /\ \A r \in Runs : WF_vars(pc[r] # "begin" /\ RunStep(r))
    /\ \A p \in Runs \cup Cancellers : WF_vars(pc[p] # "begin" /\ CancelStep(p))
    /\ \A m \in Maintainers : WF_vars(MaintStep(m))
    /\ \A w \in Idlers : WF_vars(IdleSnapshot(w) \/ IdleCheck(w))
    /\ \A c \in Closers : WF_vars(CloseStep(c))

FairSpec == Spec /\ Fairness

-----------------------------------------------------------------------------
(* Properties that hold.                                                   *)

Labels == {"off", "begin", "gate", "barrier", "claim", "barrier2", "wait", "claimed", "running",
           "settled", "exit", "release", "releaseIdle", "drain", "done", "start", "submit",
           "waiting", "abandon", "forget", "cancel", "unsteer", "clear", "abort", "task",
           "published", "check", "await", "dispose", "returned"}

Outcomes == {"none", "ok", "failed", "canceled", "closed", "alreadyStarted"}

DriverLabels == {"off", "gate", "barrier", "claim", "barrier2", "wait", "claimed", "running",
                 "settled", "exit", "release", "drain", "done"}

FlagsType ==
    /\ started \in BOOLEAN /\ parented \in BOOLEAN /\ closed \in BOOLEAN /\ disposed \in BOOLEAN
    /\ scopeClosed \in BOOLEAN /\ closeDone \in BOOLEAN
    /\ turnClaimed \in BOOLEAN /\ steerPending \in BOOLEAN
    /\ runCancelled \in BOOLEAN /\ wake \in BOOLEAN

DataType ==
    /\ pc \in [Procs -> Labels] /\ pc[Driver] \in DriverLabels
    /\ status \in {"idle", "running", "closed"}
    /\ turn \in Nat /\ turnCancel \in Nat /\ cancelled \subseteq Nat
    /\ maintenance \in Maintainers \cup {None}
    /\ maintDone \subseteq Maintainers /\ maintCancelled \subseteq Maintainers
    /\ waiters \in [Messages -> Runs \cup {None}]
    /\ queued \subseteq Messages /\ input \subseteq Messages
    /\ seenMaint \in [Procs -> Maintainers \cup {None}]
    /\ seenTurn \in [Procs -> Nat]
    /\ taken \in [Procs -> SUBSET Runs]
    /\ msg \in [Runs -> Runs \cup {None}]
    /\ answers \in [Runs -> Nat]
    /\ reply \in [Runs -> Outcomes] /\ result \in [Runs -> Outcomes]
    /\ faults \in 0 .. MaxFaults
    /\ turnOf \in [Messages -> Nat] /\ ran \subseteq Messages
    /\ idleSeen \subseteq Idlers

\* Every variable keeps its type, and the driver stays inside its loop.
TypeOK == FlagsType /\ DataType

\* Disposal never overtakes work: once the Agent's scope has been closed,
\* no runner and no maintenance task is executing, on the started path (the
\* driver disposes) and on the never-started one (Close does).
ScopeOutlivesWork ==
    scopeClosed => /\ pc[Driver] \notin {"claimed", "running"}
                   /\ \A m \in Maintainers : pc[m] # "task"

\* A Run is answered at most once: by its settling turn, by the Close call that
\* takes its waiter or by the exiting driver, and by no two of them, also when
\* they would say the same. The channel is closed with the first answer, so the
\* next one, from a process that still finds it registered, would panic.
SettledOnce == \A r \in Runs : answers[r] <= 1

\* Run returns nil only if a turn received its message, and reports a closed
\* Agent only if the Agent is closed.
RunResultHonest ==
    \A r \in Runs : /\ result[r] = "ok" => msg[r] \in ran
                    /\ result[r] = "closed" => closed

\* A driver blocked in Inbox.Wait while work is queued has a token to take.
NoLostWakeup == pc[Driver] = "wait" /\ HasWork => wake

\* Close completes: once the Agent is closed its driver (if any) winds down,
\* the scope is disposed and every Close call returns.
CloseCompletes ==
    /\ closed ~> closeDone
    /\ \A c \in Closers : pc[c] = "await" ~> pc[c] = "returned"

\* A Run call that has submitted its message eventually returns.
RunReturns == \A r \in Runs : pc[r] = "waiting" ~> pc[r] = "returned"

-----------------------------------------------------------------------------
(* The invariants that make the ones above inductive.                      *)

\* The maintenance field names the one call whose task is running or whose
\* completion is published and not yet cleared, and done is closed before the
\* field is cleared.
MaintOwner ==
    /\ \A m \in Maintainers :
          /\ pc[m] \in {"begin", "task", "published", "returned"}
          /\ pc[m] \in {"task", "published"} <=> maintenance = m
          /\ pc[m] = "published" => m \in maintDone
          /\ m \in maintDone => pc[m] \in {"published", "returned"}

\* p has closed the Agent and has read the maintenance field since: nothing
\* but the call it has read can still be running.
HoldsLastMaint(p) == closed /\ maintenance \in {seenMaint[p], None}

\* What the two disposal paths know.
Disposal ==
    /\ started <=> pc[Driver] # "off"
    /\ pc[Driver] \in {"release", "drain", "done"} => HoldsLastMaint(Driver)
    /\ \A c \in Closers :
          /\ pc[c] \in {"releaseIdle", "drain", "dispose"} => HoldsLastMaint(c) /\ ~started
          /\ pc[c] = "dispose" => seenMaint[c] = None \/ seenMaint[c] \in maintDone
    /\ scopeClosed => /\ closed /\ pc[Driver] \in {"off", "done"}
                      /\ maintenance = None \/ maintenance \in maintDone

\* A Run caller is registered for at most one message, and is at any time
\* registered, or held by one closing process, or answered, or none of them.
WaiterOwnership ==
    /\ \A m \in Messages : waiters[m] # None =>
          /\ msg[waiters[m]] = m
          /\ reply[waiters[m]] = "none"
          /\ \A p \in Procs : waiters[m] \notin taken[p]
    /\ \A p \in Procs : \A r \in taken[p] :
          reply[r] = "none" /\ \A q \in Procs : r \in taken[q] => q = p
    /\ \A r \in Runs : msg[r] = None =>
          reply[r] = "none" /\ (\A p \in Procs : r \notin taken[p])
    /\ \A r \in Runs : pc[r] \in {"begin", "start", "submit"} => msg[r] = None

\* A channel holds an answer exactly when it has been answered, once.
AnswerCounts == \A r \in Runs : answers[r] = IF reply[r] = "none" THEN 0 ELSE 1

\* Answers tell the truth, also while they are on their way.
AnswersHonest ==
    /\ pc[Driver] = "running" => input \subseteq ran
    /\ \A p \in Procs : taken[p] # {} => closed
    /\ \A r \in Runs : /\ reply[r] = "ok" => msg[r] \in ran
                       /\ reply[r] = "closed" => closed

\* A Run call has a result only when it has returned, and never calls again.
ResultsFinal == \A r \in Runs : result[r] # "none" => pc[r] = "returned"

-----------------------------------------------------------------------------
(* What the comments and tests of the code say and the code does not keep. *)

\* "RunMaintenance runs one Agent-owned non-turn operation while the Agent is
\* idle": no turn is claimed or running during a maintenance task.
MaintenanceWhileIdle ==
    \A m \in Maintainers : pc[m] = "task" => ~turnClaimed

\* "A caller cancelling a queued Run owns only that submitted message. Do not
\* cancel an unrelated active turn": the turn an abandoning Run aborts is the
\* one that claimed its message.
AbortsOnlyOwnTurn ==
    [][\A r \in Runs : pc[r] = "abort" /\ pc'[r] = "returned" /\ cancelled' # cancelled
           => seenTurn[r] = turnOf[msg[r]]]_vars

\* "It is safe for concurrent use": Run starts the Agent when it must and so
\* never fails because somebody else has just started it.
RunNeverTripsOnStart == \A r \in Runs : result[r] # "alreadyStarted"

\* "WhenIdle waits until the Agent has no active turn": when it returns it
\* has found the Agent idle, with nothing queued, at one of its two looks.
WhenIdleSawIdle == \A w \in Idlers : pc[w] = "returned" => w \in idleSeen

\* "Cancel aborts the active turn": a Cancel that begins while a turn is
\* claimed gets hold of that turn's cancel function.
CancelReachesTurn ==
    [][\A p \in Cancellers : pc[p] = "begin" /\ pc'[p] \in {"unsteer", "abort"} /\ turnClaimed
           => seenTurn'[p] = turn]_vars

\* "Close stops the Agent, waits for its driver, closes its inbox and disposes
\* its owned scope": the scope is disposed when a Close call returns.
CloseReturnsDisposed == \A c \in Closers : pc[c] = "returned" => scopeClosed
=============================================================================
