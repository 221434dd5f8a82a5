------------------------------ MODULE Approvals ------------------------------
(***************************************************************************)
(* The approval engine (internal/interact/engine.go) over its in-memory    *)
(* provider, with its callers: tools that ask and await a decision         *)
(* (tools.go), the Web and CLI answerer that decides durably and rolls     *)
(* back when the session log refuses the decision (cmd/sta/interacts.go),  *)
(* the cancellation of a session's requests, expiry, and Close.            *)
(*                                                                         *)
(* One action is one provider call or one critical section of the engine.  *)
(* Every asker makes one request, which carries its name.                  *)
(***************************************************************************)
EXTENDS Naturals, FiniteSets

CONSTANTS
    Askers,     \* tool calls that need a decision; also the request ids
    Answerers,  \* Web or CLI answers
    Sessions,   \* sessions
    Sweepers,   \* sessions that CancelForSession is called for
    Closers,    \* callers of Close
    Owner,      \* asker or answerer -> its session
    Limit,      \* pendingLimit
    None,       \* no answer, no mutex holder, no request
    MaxFaults   \* bound: session log operations that fail

ASSUME LimitAssumption == Limit \in Nat /\ MaxFaults \in Nat

ASSUME OwnerAssumption ==
    Owner \in [Askers \cup Answerers -> Sessions] /\ Sweepers \subseteq Sessions

Finders == Askers \cup Answerers \cup Sweepers

Procs == Finders \cup Closers

\* A process is of one kind.
ASSUME ProcsAssumption ==
    /\ None \notin Procs
    /\ Askers \cap (Answerers \cup Sweepers \cup Closers) = {}
    /\ Answerers \cap (Sweepers \cup Closers) = {}
    /\ Sweepers \cap Closers = {}

VARIABLES
    pc,
    req,         \* provider: the status of each request
    provClosed,  \* provider: closed
    due,         \* requests whose ExpiresAt has passed
    closed, closeDone,
    requestMu,   \* the process that holds the admission mutex, or None
    resolveMu,   \* the answerer that holds interactionResolveMu, or None
    answers,     \* the engine's side map: request -> answerer whose answer it holds
    on,          \* finder -> the request it looks up
    seen,        \* finder -> what its findRequest came to
    result,      \* asker -> what its call came to
    got,         \* asker -> the answer Await returned with the decision
    before,      \* answerer -> the status it would restore
    todo,        \* sweep or Close -> the requests of its snapshot still to settle
    winner,      \* history: the answerer whose decision a request carries
    restored,    \* history: requests a rollback has written
    faults

provVars == <<req, provClosed, due>>
muVars == <<requestMu, resolveMu>>
closeVars == <<closed, closeDone>>
findVars == <<on, seen>>
askVars == <<result, got>>
history == <<winner, restored>>

vars == <<pc, provVars, closeVars, muVars, answers, findVars, askVars, before, todo, history, faults>>

\* "answered" stands for approved, allowed once and rejected alike.
Decisions == {"answered", "canceled", "unavailable", "expired"}

Pending == {a \in Askers : req[a] = "pending"}

Goto(p, label) == pc' = [pc EXCEPT ![p] = label]

Return(a, r) == result' = [result EXCEPT ![a] = r] /\ Goto(a, "returned")

Saw(p, s) == seen' = [seen EXCEPT ![p] = s]

Forget(p) == Saw(p, "none")

AppendFails == faults < MaxFaults /\ faults' = faults + 1

\* Faulty: the provider overwrites whatever status it finds.
Overwrite(a, status) == ~provClosed /\ req' = [req EXCEPT ![a] = status]

\* The provider's compare-and-set.
Resolve(a, status) ==
    ~provClosed /\ req[a] = "pending" /\ req' = [req EXCEPT ![a] = status]

\* ... and the two ways it fails.
AlreadyResolved(a) == ~provClosed /\ req[a] # "pending"

\* No request has been made.
Empty ==
    /\ req = [a \in Askers |-> "none"] /\ provClosed = FALSE /\ due = {}
    /\ closed = FALSE /\ closeDone = FALSE
    /\ requestMu = None /\ resolveMu = None /\ answers = [a \in Askers |-> None]
    /\ on = [p \in Finders |-> IF p \in Askers THEN p ELSE None]
    /\ seen = [p \in Finders |-> "none"]
    /\ result = [a \in Askers |-> "none"] /\ got = [a \in Askers |-> None]
    /\ before = [p \in Answerers |-> "none"] /\ todo = [p \in Sweepers \cup Closers |-> {}]
    /\ winner = [a \in Askers |-> None] /\ restored = {} /\ faults = 0

Init == pc = [p \in Procs |-> "begin"] /\ Empty

-----------------------------------------------------------------------------
(* findRequest. It ends at "found" with what it saw: a status, "lost" when *)
(* the expiry it attempted came after another decision, or "error".        *)

FindList(p) ==
    /\ pc[p] = "find"
    /\ IF provClosed THEN Saw(p, "error") /\ Goto(p, "found")
       ELSE /\ Saw(p, req[on[p]])
            /\ Goto(p, IF on[p] \in Pending \cap due THEN "expire" ELSE "found")
    /\ UNCHANGED <<provVars, closeVars, muVars, answers, on, askVars, before, todo, history, faults>>

\* Faulty: takes a lost race for the expiry it attempted.
ExpireBlindly(p) ==
    /\ Goto(p, "found") /\ Saw(p, "expired") /\ UNCHANGED faults
    /\ req' = [req EXCEPT ![on[p]] = IF @ = "pending" /\ ~provClosed THEN "expired" ELSE @]

\* Faulty: a reader leaves a request past its time as it is.
ExpireNever(p) == Goto(p, "found") /\ UNCHANGED <<req, seen, faults>>

\* expireOne: the compare-and-set and the expiry auditor's append.
ExpireOne(p) ==
    \/ Resolve(on[p], "expired") /\ Goto(p, "reread") /\ UNCHANGED <<seen, faults>>
    \/ Resolve(on[p], "expired") /\ AppendFails /\ Saw(p, "error") /\ Goto(p, "found")
    \/ AlreadyResolved(on[p]) /\ Saw(p, "lost") /\ Goto(p, "found") /\ UNCHANGED <<req, faults>>
    \/ provClosed /\ Saw(p, "error") /\ Goto(p, "found") /\ UNCHANGED <<req, faults>>

FindExpire(p) ==
    /\ pc[p] = "expire"
    /\ ExpireOne(p)
    /\ UNCHANGED <<provClosed, due, closeVars, muVars, answers, on, askVars, before, todo, history>>

FindReread(p) ==
    /\ pc[p] = "reread"
    /\ Saw(p, IF provClosed THEN "error" ELSE req[on[p]])
    /\ Goto(p, "found")
    /\ UNCHANGED <<provVars, closeVars, muVars, answers, on, askVars, before, todo, history, faults>>

\* ListForSession: every request of s that is past its time is expired first.
\* A lost race is ignored here; the append of the expiry may fail.
ExpireDue(S) == req' = [a \in Askers |-> IF a \in S THEN "expired" ELSE req[a]]

DueOf(s) == {a \in Pending \cap due : Owner[a] = s}

ListFails(s) ==
    \/ provClosed /\ UNCHANGED <<req, faults>>
    \/ ~provClosed /\ AppendFails /\ \E S \in (SUBSET DueOf(s)) \ {{}} : ExpireDue(S)

ListForSession(s) == ~provClosed /\ ExpireDue(DueOf(s)) /\ UNCHANGED faults

-----------------------------------------------------------------------------
(* Asking: validation and policy, admission under requestMu, the asked     *)
(* event. The policy is read once and set by others at any time, so either *)
(* value may be met.                                                       *)

AskBegin(a) ==
    /\ pc[a] = "begin"
    /\ \/ closed /\ Return(a, "closed")
       \/ ~closed /\ Return(a, "denied")
       \/ ~closed /\ Goto(a, "admit") /\ UNCHANGED result
    /\ UNCHANGED <<provVars, closeVars, muVars, answers, findVars, got, before, todo, history,
                   faults>>

\* Faulty: the count and the creation are not serialised.
AskUnlocked(a) == UNCHANGED requestMu

AskLock(a) == requestMu' = a

\* List under requestMu, and the cap.
AskAdmit(a) ==
    /\ pc[a] = "admit" /\ requestMu = None
    /\ IF provClosed \/ Cardinality(Pending) >= Limit
       THEN Return(a, "refused") /\ UNCHANGED requestMu
       ELSE Goto(a, "create") /\ AskLock(a) /\ UNCHANGED result
    /\ UNCHANGED <<provVars, closeVars, resolveMu, answers, findVars, got, before, todo, history,
                   faults>>

AskCreate(a) ==
    /\ pc[a] = "create"
    /\ requestMu' = None
    /\ IF provClosed THEN Return(a, "refused") /\ UNCHANGED req
       ELSE req' = [req EXCEPT ![a] = "pending"] /\ Goto(a, "emit") /\ UNCHANGED result
    /\ UNCHANGED <<provClosed, due, closeVars, resolveMu, answers, findVars, got, before, todo,
                   history, faults>>

\* The caller withdraws its request: Cancel checks the engine and then finds it.
Withdraw(a) ==
    /\ result' = [result EXCEPT ![a] = "aborted"]
    /\ Goto(a, IF closed THEN "returned" ELSE "find")

\* The asked event; without it the request is withdrawn.
AskEmit(a) ==
    /\ pc[a] = "emit"
    /\ \/ Goto(a, "await") /\ UNCHANGED <<result, faults>>
       \/ AppendFails /\ Withdraw(a)
    /\ UNCHANGED <<provVars, closeVars, muVars, answers, findVars, got, before, todo, history>>

AwaitBegin(a) ==
    /\ pc[a] = "await"
    /\ IF closed THEN Return(a, "error") ELSE Goto(a, "find") /\ UNCHANGED result
    /\ UNCHANGED <<provVars, closeVars, muVars, answers, findVars, got, before, todo, history,
                   faults>>

\* What Await makes of what findRequest came to.
AwaitOutcome(a) == IF seen[a] \in {"lost", "error"} THEN "error" ELSE seen[a]

\* The answer is read from the side map after the status from the provider.
AwaitFound(a) ==
    /\ pc[a] = "found" /\ result[a] = "none" /\ Forget(a)
    /\ IF seen[a] = "pending" THEN Goto(a, "find") /\ UNCHANGED askVars
       ELSE /\ Return(a, AwaitOutcome(a))
            /\ got' = [got EXCEPT ![a] = IF seen[a] \in Decisions THEN answers[a] ELSE None]
    /\ UNCHANGED <<provVars, closeVars, muVars, answers, on, before, todo, history, faults>>

\* The caller's context ends between two polls.
AwaitGiveUp(a) ==
    /\ pc[a] = "find" /\ result[a] = "none"
    /\ Withdraw(a)
    /\ UNCHANGED <<provVars, closeVars, muVars, answers, findVars, got, before, todo, history,
                   faults>>

\* The end of Cancel by the asker; its error is ignored.
WithdrawFound(a) ==
    /\ pc[a] = "found" /\ result[a] = "aborted" /\ Forget(a)
    /\ Goto(a, "returned")
    /\ \/ seen[a] = "pending" /\ Resolve(a, "canceled")
       \/ (seen[a] # "pending" \/ provClosed \/ AlreadyResolved(a)) /\ UNCHANGED req
    /\ UNCHANGED <<provClosed, due, closeVars, muVars, answers, on, askVars, before, todo,
                   history, faults>>

TimePasses(a) ==
    /\ req[a] # "none" /\ a \notin due
    /\ due' = due \cup {a}
    /\ UNCHANGED <<pc, req, provClosed, closeVars, muVars, answers, findVars, askVars, before, todo,
                   history, faults>>

-----------------------------------------------------------------------------
(* Answering: resolveInteractionDurablyAs.                                 *)

Unlock(p) == resolveMu = p /\ resolveMu' = None

\* The snapshot of the request that a rollback would restore.
AnswerBegin(p) ==
    LET s == Owner[p] IN
    /\ pc[p] = "begin" /\ resolveMu = None
    /\ \E a \in Askers :
          /\ Owner[a] = s /\ req[a] # "none"
          /\ on' = [on EXCEPT ![p] = a]
          /\ \/ ListFails(s) /\ Goto(p, "returned") /\ UNCHANGED <<before, resolveMu>>
             \/ /\ ListForSession(s) /\ resolveMu' = p
                /\ before' = [before EXCEPT ![p] = req'[a]]
                /\ Goto(p, "route")
    /\ UNCHANGED <<provClosed, due, closeVars, requestMu, answers, seen, askVars, todo, history>>

\* The session's log is looked up, and without it the snapshot is restored;
\* then the engine is checked.
AnswerRoute(p) ==
    /\ pc[p] = "route"
    /\ \/ AppendFails /\ Goto(p, "rollback") /\ UNCHANGED resolveMu
       \/ closed /\ Goto(p, "returned") /\ Unlock(p) /\ UNCHANGED faults
       \/ ~closed /\ Goto(p, "find") /\ UNCHANGED <<resolveMu, faults>>
    /\ UNCHANGED <<provVars, closeVars, requestMu, answers, findVars, askVars, before, todo, history>>

AnswerFound(p) ==
    LET a == on[p] IN
    /\ pc[p] = "found" /\ Forget(p)
    /\ \/ /\ seen[p] = "pending" /\ Resolve(a, "answered")
          /\ winner' = [winner EXCEPT ![a] = p]
          /\ Goto(p, "note") /\ UNCHANGED resolveMu
       \/ /\ seen[p] # "pending" \/ provClosed \/ AlreadyResolved(a)
          /\ Goto(p, "returned") /\ Unlock(p) /\ UNCHANGED <<req, winner>>
    /\ UNCHANGED <<provClosed, due, closeVars, requestMu, answers, on, askVars, before, todo,
                   restored, faults>>

\* The engine keeps the answer after the provider has resolved.
AnswerNote(p) ==
    /\ pc[p] = "note"
    /\ answers' = [answers EXCEPT ![on[p]] = p]
    /\ Goto(p, "append")
    /\ UNCHANGED <<provVars, closeVars, muVars, findVars, askVars, before, todo, history, faults>>

\* The request is read back, and the decision appended to the session log.
AnswerAppend(p) ==
    /\ pc[p] = "append"
    /\ \/ provClosed /\ Goto(p, "returned") /\ Unlock(p) /\ UNCHANGED faults
       \/ ~provClosed /\ Goto(p, "won") /\ Unlock(p) /\ UNCHANGED faults
       \/ ~provClosed /\ AppendFails /\ Goto(p, "rollback") /\ UNCHANGED resolveMu
    /\ UNCHANGED <<provVars, closeVars, requestMu, answers, findVars, askVars, before, todo, history>>

\* Restore writes the snapshot, first in the provider (its checkOpen and the
\* write are one step here) ...
AnswerRollback(p) ==
    LET a == on[p] IN
    /\ pc[p] = "rollback"
    /\ IF closed \/ provClosed
       THEN Goto(p, "returned") /\ Unlock(p) /\ UNCHANGED <<req, history>>
       ELSE /\ req' = [req EXCEPT ![a] = before[p]]
            /\ winner' = [winner EXCEPT ![a] = IF before[p] = "pending" THEN None ELSE @]
            /\ restored' = restored \cup {a}
            /\ Goto(p, "forget") /\ UNCHANGED resolveMu
    /\ UNCHANGED <<provClosed, due, closeVars, requestMu, answers, findVars, askVars, before, todo,
                   faults>>

\* ... and then in the side map.
AnswerForget(p) ==
    /\ pc[p] = "forget"
    /\ answers' = IF before[p] = "pending" THEN [answers EXCEPT ![on[p]] = None] ELSE answers
    /\ Unlock(p) /\ Goto(p, "returned")
    /\ UNCHANGED <<provVars, closeVars, requestMu, findVars, askVars, before, todo, history, faults>>

-----------------------------------------------------------------------------
(* CancelForSession.                                                       *)

SweepList(s) ==
    /\ pc[s] = "begin"
    /\ \/ /\ closed /\ Goto(s, "returned") /\ UNCHANGED <<req, todo, faults>>
       \/ /\ ~closed /\ ListFails(s) /\ Goto(s, "returned") /\ UNCHANGED todo
       \/ /\ ~closed /\ ListForSession(s) /\ Goto(s, "sweep")
          /\ todo' = [todo EXCEPT ![s] = {a \in Pending \ due : Owner[a] = s}]
    /\ UNCHANGED <<provClosed, due, closeVars, muVars, answers, findVars, askVars, before, history>>

SweepNext(s) ==
    /\ pc[s] = "sweep"
    /\ \/ todo[s] = {} /\ Goto(s, "returned") /\ UNCHANGED <<on, todo>>
       \/ \E a \in todo[s] : /\ on' = [on EXCEPT ![s] = a]
                             /\ todo' = [todo EXCEPT ![s] = @ \ {a}]
                             /\ Goto(s, "find")
    /\ UNCHANGED <<provVars, closeVars, muVars, answers, seen, askVars, before, history, faults>>

\* A request decided meanwhile is skipped, any other failure ends the sweep.
SweepFound(s) ==
    LET a == on[s] IN
    /\ pc[s] = "found" /\ Forget(s) /\ on' = [on EXCEPT ![s] = None]
    /\ \/ seen[s] = "pending" /\ ~closed /\ Resolve(a, "canceled") /\ Goto(s, "sweep")
       \/ /\ \/ seen[s] = "lost"
             \/ ~closed /\ (seen[s] \in Decisions \/ (seen[s] = "pending" /\ AlreadyResolved(a)))
          /\ Goto(s, "sweep") /\ UNCHANGED req
       \/ /\ seen[s] = "error" \/ (closed /\ seen[s] # "lost") \/ (seen[s] = "pending" /\ provClosed)
          /\ Goto(s, "returned") /\ UNCHANGED req
    /\ UNCHANGED <<provClosed, due, closeVars, muVars, answers, askVars, before, todo,
                   history, faults>>

-----------------------------------------------------------------------------
(* Close.                                                                  *)

\* Under requestMu: closed, then the provider's List.
CloseBegin(c) ==
    /\ pc[c] = "begin" /\ requestMu = None
    /\ IF closed THEN Goto(c, "wait") /\ UNCHANGED <<closed, requestMu, todo>>
       ELSE /\ closed' = TRUE /\ requestMu' = c
            /\ todo' = [todo EXCEPT ![c] = Pending]
            /\ Goto(c, "closing")
    /\ UNCHANGED <<provVars, closeDone, resolveMu, answers, findVars, askVars, before, history,
                   faults>>

CloseSweep(c) ==
    /\ pc[c] = "closing"
    /\ \/ /\ todo[c] = {} /\ requestMu' = None /\ Goto(c, "release") /\ UNCHANGED <<req, todo>>
       \/ \E a \in todo[c] :
             /\ Resolve(a, "unavailable") \/ (AlreadyResolved(a) /\ UNCHANGED req)
             /\ todo' = [todo EXCEPT ![c] = @ \ {a}]
             /\ UNCHANGED <<pc, requestMu>>
    /\ UNCHANGED <<provClosed, due, closeVars, resolveMu, answers, findVars, askVars, before,
                   history, faults>>

CloseRelease(c) ==
    /\ pc[c] = "release"
    /\ provClosed' = TRUE /\ closeDone' = TRUE
    /\ Goto(c, "returned")
    /\ UNCHANGED <<req, due, closed, muVars, answers, findVars, askVars, before, todo, history,
                   faults>>

CloseWait(c) ==
    /\ pc[c] = "wait" /\ closeDone
    /\ Goto(c, "returned")
    /\ UNCHANGED <<provVars, closeVars, muVars, answers, findVars, askVars, before, todo, history,
                   faults>>

-----------------------------------------------------------------------------

FindStep(p) == FindList(p) \/ FindExpire(p) \/ FindReread(p)

AskStep(a) ==
    \/ AskAdmit(a) \/ AskCreate(a) \/ AskEmit(a) \/ AwaitBegin(a)
    \/ FindStep(a) \/ AwaitFound(a) \/ WithdrawFound(a)

AnswerStep(p) ==
    \/ AnswerRoute(p) \/ FindStep(p) \/ AnswerFound(p) \/ AnswerNote(p)
    \/ AnswerAppend(p) \/ AnswerRollback(p) \/ AnswerForget(p)

SweepStep(s) == SweepNext(s) \/ FindStep(s) \/ SweepFound(s)

CloseStep(c) == CloseSweep(c) \/ CloseRelease(c) \/ CloseWait(c)

Next ==
    \/ \E a \in Askers : AskBegin(a) \/ AskStep(a) \/ AwaitGiveUp(a) \/ TimePasses(a)
    \/ \E p \in Answerers : AnswerBegin(p) \/ AnswerStep(p)
    \/ \E s \in Sweepers : SweepList(s) \/ SweepStep(s)
    \/ \E c \in Closers : CloseBegin(c) \/ CloseStep(c)

Spec == Init /\ [][Next]_vars

\* Goroutines that can run do run, and a mutex is granted to a waiting asker.
\* Nobody has to call anything, and no time has to pass.
Fairness ==
    /\ \A a \in Askers : WF_vars(AskStep(a)) /\ SF_vars(AskAdmit(a))
    /\ \A p \in Answerers : WF_vars(AnswerStep(p))
    /\ \A s \in Sweepers : WF_vars(SweepStep(s))
    /\ \A c \in Closers : WF_vars(CloseStep(c))

FairSpec == Spec /\ Fairness

-----------------------------------------------------------------------------
(* Properties.                                                             *)

Labels == {"begin", "admit", "create", "emit", "await", "find", "expire", "reread", "found",
           "route", "note", "append", "rollback", "forget", "won", "sweep", "closing",
           "release", "wait", "returned"}

Statuses == Decisions \cup {"none", "pending"}

\* Every variable keeps its type.
TypeOK ==
    /\ pc \in [Procs -> Labels]
    /\ req \in [Askers -> Statuses] /\ provClosed \in BOOLEAN /\ due \subseteq Askers
    /\ closed \in BOOLEAN /\ closeDone \in BOOLEAN
    /\ requestMu \in Askers \cup Closers \cup {None}
    /\ resolveMu \in Answerers \cup {None}
    /\ answers \in [Askers -> Answerers \cup {None}]
    /\ on \in [Finders -> Askers \cup {None}]
    /\ seen \in [Finders -> Statuses \cup {"lost", "error"}]
    /\ result \in [Askers -> Decisions \cup {"none", "closed", "denied", "refused", "error", "aborted"}]
    /\ got \in [Askers -> Answerers \cup {None}]
    /\ before \in [Answerers -> Statuses]
    /\ todo \in [Sweepers \cup Closers -> SUBSET Askers]
    /\ winner \in [Askers -> Answerers \cup {None}]
    /\ restored \subseteq Askers /\ faults \in 0 .. MaxFaults

\* Concurrent askers never exceed the pending cap together; only a rollback,
\* which revives a request whose place may have been given away, can.
PendingCap == Cardinality(Pending \ restored) <= Limit

\* A decision is final: whatever answer, expiry, cancellation and Close race
\* for a request, one of them decides it, and only the rollback of an answer
\* writes it again. The rollback never undoes another answer's decision.
DecidedOnce ==
    [][\A a \in Askers : req[a] \in Decisions /\ req'[a] # req[a] =>
          \E p \in Answerers :
              pc[p] = "rollback" /\ on[p] = a /\ req'[a] = before[p] /\ winner[a] \in {p, None}]_vars

\* Await returns the decision the request carries, whoever made it and
\* however the reads of its poll interleave, unless that decision was rolled
\* back after Await had read it.
AwaitHonest ==
    \A a \in Askers : result[a] \in Decisions => result[a] = req[a] \/ a \in restored

\* Two answerers never both report success for one request.
OneWinner ==
    \A p, q \in Answerers : pc[p] = "won" /\ pc[q] = "won" /\ on[p] = on[q] => p = q

\* The engine tells both sides the same decision: Await and the answerers learn
\* of one and the same (Await, ResolveForSessionWithAnswerAndEvent).
DecisionReported == AwaitHonest /\ OneWinner

\* An asker blocked in Await is released once its request is past its time or
\* the engine has closed, whatever became of the request.
AwaitEnds ==
    \A a \in Askers : pc[a] = "find" /\ (a \in due \/ closeDone) ~> pc[a] = "returned"

-----------------------------------------------------------------------------
(* What the comments of the code say and the code does not keep.           *)

\* "ResolveWithAnswer resolves a request and retains its structured answer for
\* the blocked tool path to observe through Await": an Await that returns an
\* answerer's decision returns the answer with it.
AnswerReachesAwait ==
    \A a \in Askers : result[a] = "answered" => got[a] # None

\* "No request can be admitted after the engine becomes closed": none is
\* pending when Close has finished.
CloseLeavesNonePending == closeDone => Pending = {}
=============================================================================
