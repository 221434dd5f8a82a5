----------------------------- MODULE JobRegistry -----------------------------
(***************************************************************************)
(* The registry of background jobs (internal/jobs/local.go).               *)
(*                                                                         *)
(* Every job has a goroutine of its own, named here by the job. Kill,      *)
(* Close and CloseOwner are called from others. One action is one          *)
(* critical section of the registry mutex or one call of a producer's hook *)
(* or of the completion observers, which run outside the mutex. Wait, Read *)
(* and the other queries change nothing but the flag reported and the      *)
(* waiter count, which no other code reads, and have no action here.       *)
(***************************************************************************)
EXTENDS Naturals, FiniteSets

CONSTANTS
    JobIds,        \* the identifiers the registry issues
    Owners,        \* owning sessions
    Unowned,       \* the shared bucket of jobs without an owner
    OwnerOf,       \* the owner of each job
    Cap,           \* maxConcurrentJobsPerOwner
    Killers, Closers, OwnerClosers,   \* callers, one call each
    None

Sweepers == Closers \cup OwnerClosers
Callers == Killers \cup Sweepers
Processes == JobIds \cup Callers

\* Every job has an owner, and each call has a goroutine of its own.
ASSUME RegistryAssumption ==
    /\ OwnerOf \in [JobIds -> Owners \cup {Unowned}] /\ Unowned \notin Owners
    /\ JobIds \cap Callers = {} /\ None \notin Processes \cup Owners
    /\ Killers \cap Sweepers = {} /\ Closers \cap OwnerClosers = {}
    /\ Cap \in Nat \ {0}

VARIABLES
    status,        \* jobRecord.status, "none" before Start
    table,         \* Local.jobs
    cancelled,     \* jobs whose context is cancelled
    observerDone,  \* jobRecord.observerDone is closed
    closed,        \* Local.closed
    closeDone,     \* Local.closeDone is closed
    closing,       \* Local.closingOwners: who closes the owner, or None
    place,         \* where each process is
    at,            \* the job (or, for a CloseOwner, the owner's closer) it is about
    ownerOfCall,   \* the argument of a CloseOwner
    recs,          \* the records a Close or CloseOwner has collected
    unswept,       \* those it has not cancelled yet
    notified,      \* history: how often the observers of a job were called
    orphaned       \* history: jobs whose cancel hook failed in a Close

registry == <<status, table, cancelled, observerDone>>
closeVars == <<closed, closeDone, closing>>
sweep == <<ownerOfCall, recs, unswept>>
history == <<notified, orphaned>>
registryVars == <<registry, closeVars, place, at, sweep, history>>

\* The terminal status is what Run brought (completed, killed or failed) or the
\* failure that a sweep forced on the record.
Outcomes == {"finished", "force-failed"}
isTerminal(s) == s \in Outcomes
Settled(j) == isTerminal(status[j])

-----------------------------------------------------------------------------
(* Start and the job's own goroutine.                                      *)

activeCount(owner) ==
    Cardinality({j \in table : OwnerOf[j] = owner /\ status[j] \in {"running", "stopping"}})

\* Faulty: a closed registry is not noticed.
AdmitsWhenClosed(owner) ==
    (owner \in Owners => closing[owner] = None) /\ activeCount(owner) < Cap

\* Faulty: an owner that is being closed is not noticed.
AdmitsClosingOwner(owner) == ~closed /\ activeCount(owner) < Cap

Admits(owner) ==
    /\ ~closed
    /\ owner \in Owners => closing[owner] = None
    /\ activeCount(owner) < Cap

\* Start registers the record and, after OnStarted, launches its goroutine.
Start(j) ==
    /\ place[j] = "ready" /\ Admits(OwnerOf[j])
    /\ place' = [place EXCEPT ![j] = "running"]
    /\ status' = [status EXCEPT ![j] = "running"]
    /\ table' = table \cup {j}
    /\ UNCHANGED <<cancelled, observerDone, closeVars, at, sweep, history>>

\* settle: the first terminal outcome wins, and who brings it notifies.
settle(p, j, outcome, next) ==
    IF Settled(j)
    THEN place' = [place EXCEPT ![p] = next] /\ UNCHANGED <<status, at>>
    ELSE /\ status' = [status EXCEPT ![j] = outcome]
         /\ place' = [place EXCEPT ![p] = "notify"]
         /\ at' = [at EXCEPT ![p] = j]

\* runJob: Run returns, with an error or a panic too, and the record settles.
runJob(j) ==
    /\ place[j] = "running"
    /\ settle(j, j, "finished", "gone")
    /\ UNCHANGED <<table, cancelled, observerDone, closeVars, sweep, history>>

\* notifySettled: the observers are called ...
notifySettled(p) ==
    /\ place[p] = "notify"
    /\ notified' = [notified EXCEPT ![at[p]] = @ + 1]
    /\ place' = [place EXCEPT ![p] = "observing"]
    /\ UNCHANGED <<registry, closeVars, at, sweep, orphaned>>

\* ... and have returned, which closes observerDone.
ObserversReturn(p) ==
    /\ place[p] = "observing"
    /\ observerDone' = observerDone \cup {at[p]}
    /\ place' = [place EXCEPT ![p] = IF p \in JobIds THEN "gone" ELSE "sweep"]
    /\ UNCHANGED <<status, table, cancelled, closeVars, at, sweep, history>>

-----------------------------------------------------------------------------
(* Kill.                                                                   *)

Kill(k, j) ==
    /\ place[k] = "ready" /\ j \in table
    /\ at' = [at EXCEPT ![k] = j]
    /\ place' = [place EXCEPT ![k] = IF Settled(j) THEN "already-finished" ELSE "killing"]
    /\ UNCHANGED <<status, table, cancelled, observerDone, closeVars, sweep, history>>

\* Faulty: the job's context is left alone.
KillHookOnly(k) ==
    /\ place[k] = "killing"
    /\ \E result \in {"refused", "marking"} : place' = [place EXCEPT ![k] = result]
    /\ UNCHANGED <<registry, closeVars, at, sweep, history>>

\* The producer's cancel hook, outside the mutex: an error ends the call,
\* otherwise the context is cancelled.
KillHook(k) ==
    /\ place[k] = "killing"
    /\ \/ place' = [place EXCEPT ![k] = "refused"] /\ UNCHANGED cancelled
       \/ /\ place' = [place EXCEPT ![k] = "marking"]
          /\ cancelled' = cancelled \cup {at[k]}
    /\ UNCHANGED <<status, table, observerDone, closeVars, at, sweep, history>>

\* The status is marked unless the job has settled; the answer is the same.
KillMark(k) ==
    /\ place[k] = "marking"
    /\ place' = [place EXCEPT ![k] = "requested"]
    /\ IF Settled(at[k])
       THEN UNCHANGED status
       ELSE status' = [status EXCEPT ![at[k]] = "stopping"]
    /\ UNCHANGED <<table, cancelled, observerDone, closeVars, at, sweep, history>>

-----------------------------------------------------------------------------
(* Close and CloseOwner.                                                   *)

\* The live records of a sweep are marked under the mutex.
MarkStopping(S) ==
    LET live == {j \in S : ~Settled(j)}
    IN status' = [j \in JobIds |-> IF j \in live THEN "stopping" ELSE status[j]]

Close(c) ==
    /\ place[c] = "ready"
    /\ IF closed
       THEN /\ place' = [place EXCEPT ![c] = "joining"]
            /\ UNCHANGED <<closed, recs, unswept, status>>
       ELSE /\ closed' = TRUE
            /\ place' = [place EXCEPT ![c] = "sweep"]
            /\ recs' = [recs EXCEPT ![c] = table]
            /\ unswept' = [unswept EXCEPT ![c] = {j \in table : ~Settled(j)}]
            /\ MarkStopping(table)
    /\ UNCHANGED <<table, cancelled, observerDone, closeDone, closing, at, ownerOfCall, history>>

CloseOwner(c, o) ==
    LET mine == {j \in table : OwnerOf[j] = o}
    IN /\ place[c] = "ready"
       /\ ownerOfCall' = [ownerOfCall EXCEPT ![c] = o]
       /\ IF closing[o] # None
          THEN /\ place' = [place EXCEPT ![c] = "joining"]
               /\ at' = [at EXCEPT ![c] = closing[o]]
               /\ UNCHANGED <<closing, recs, unswept, status>>
          ELSE /\ closing' = [closing EXCEPT ![o] = c]
               /\ place' = [place EXCEPT ![c] = "sweep"]
               /\ recs' = [recs EXCEPT ![c] = mine]
               /\ unswept' = [unswept EXCEPT ![c] = mine]
               /\ MarkStopping(mine)
               /\ UNCHANGED at
       /\ UNCHANGED <<table, cancelled, observerDone, closed, closeDone, history>>

\* The next record of the loop. CloseOwner looks at it again and skips it when
\* it has settled; Close has collected the live ones beforehand.
SweepNext(c, j) ==
    /\ place[c] = "sweep" /\ j \in unswept[c]
    /\ unswept' = [unswept EXCEPT ![c] = @ \ {j}]
    /\ IF c \in OwnerClosers /\ Settled(j)
       THEN UNCHANGED <<place, at>>
       ELSE place' = [place EXCEPT ![c] = "hook"] /\ at' = [at EXCEPT ![c] = j]
    /\ UNCHANGED <<registry, closeVars, ownerOfCall, recs, history>>

SweepHookWorks(c) ==
    /\ place[c] = "hook"
    /\ cancelled' = cancelled \cup {at[c]}
    /\ place' = [place EXCEPT ![c] = "sweep"]
    /\ UNCHANGED <<status, table, observerDone, closeVars, at, sweep, history>>

\* Faulty: a failing hook is only remembered.
SweepHookIgnored(c) ==
    /\ place[c] = "hook"
    /\ cancelled' = cancelled \cup {at[c]} /\ orphaned' = orphaned \cup {at[c]}
    /\ place' = [place EXCEPT ![c] = "sweep"]
    /\ UNCHANGED <<status, table, observerDone, closeVars, at, sweep, notified>>

\* A failing hook: the context is cancelled and the record force-failed; the
\* work itself may never end.
SweepHookFails(c) ==
    /\ place[c] = "hook"
    /\ cancelled' = cancelled \cup {at[c]} /\ orphaned' = orphaned \cup {at[c]}
    /\ settle(c, at[c], "force-failed", "sweep")
    /\ UNCHANGED <<table, observerDone, closeVars, sweep, notified>>

Drained(S) == \A j \in S : Settled(j) /\ j \in observerDone

\* Every record has settled and its observers have returned.
SweepEnds(c) ==
    /\ place[c] = "sweep" /\ unswept[c] = {} /\ Drained(recs[c])
    /\ place' = [place EXCEPT ![c] = "returned"]
    /\ IF c \in Closers
       THEN closeDone' = TRUE /\ UNCHANGED <<table, closing>>
       ELSE /\ table' = table \ recs[c]
            /\ closing' = [closing EXCEPT ![ownerOfCall[c]] = None]
            /\ UNCHANGED closeDone
    /\ at' = [at EXCEPT ![c] = None] /\ recs' = [recs EXCEPT ![c] = {}]
    /\ UNCHANGED <<status, cancelled, observerDone, closed, ownerOfCall, unswept, history>>

\* A second Close or CloseOwner waits for the first.
Join(c) ==
    /\ place[c] = "joining"
    /\ IF c \in Closers THEN closeDone ELSE place[at[c]] = "returned"
    /\ place' = [place EXCEPT ![c] = "returned"]
    /\ UNCHANGED <<registry, closeVars, at, sweep, history>>

-----------------------------------------------------------------------------
RegistryInit ==
    /\ status = [j \in JobIds |-> "none"]
    /\ table = {} /\ cancelled = {} /\ observerDone = {}
    /\ closed = FALSE /\ closeDone = FALSE
    /\ closing = [o \in Owners |-> None]
    /\ place = [p \in Processes |-> "ready"]
    /\ at = [p \in Processes |-> None]
    /\ ownerOfCall = [c \in OwnerClosers |-> None]
    /\ recs = [c \in Sweepers |-> {}] /\ unswept = [c \in Sweepers |-> {}]
    /\ notified = [j \in JobIds |-> 0] /\ orphaned = {}

\* What a process that is inside a call does next.
Step(p) ==
    \/ notifySettled(p) \/ ObserversReturn(p)
    \/ p \in Killers /\ (KillHook(p) \/ KillMark(p))
    \/ /\ p \in Sweepers
       /\ \/ \E j \in JobIds : SweepNext(p, j)
          \/ SweepHookWorks(p) \/ SweepHookFails(p) \/ SweepEnds(p) \/ Join(p)

RegistryNext ==
    \/ \E j \in JobIds : Start(j) \/ runJob(j)
    \/ \E k \in Killers, j \in JobIds : Kill(k, j)
    \/ \E c \in Closers : Close(c)
    \/ \E c \in OwnerClosers, o \in Owners : CloseOwner(c, o)
    \/ \E p \in Processes : Step(p)

RegistrySpec == RegistryInit /\ [][RegistryNext]_registryVars

\* Goroutines that can run do; observers return; a Run whose context is
\* cancelled returns, unless its own cancel hook has failed.
RegistryFairSpec ==
    /\ RegistrySpec
    /\ \A p \in Processes : WF_registryVars(Step(p))
    /\ \A j \in JobIds : WF_registryVars(j \in cancelled \ orphaned /\ runJob(j))

-----------------------------------------------------------------------------
(* Properties.                                                             *)

\* Every variable keeps its type.
RegistryTypeOK ==
    /\ status \in [JobIds -> Outcomes \cup {"none", "running", "stopping"}]
    /\ table \subseteq JobIds /\ cancelled \subseteq JobIds
    /\ observerDone \subseteq JobIds /\ orphaned \subseteq JobIds
    /\ closed \in BOOLEAN /\ closeDone \in BOOLEAN
    /\ closing \in [Owners -> OwnerClosers \cup {None}]
    /\ place \in [Processes -> {"ready", "running", "notify", "observing", "gone",
                             "killing", "marking", "refused", "requested", "already-finished",
                             "sweep", "hook", "joining", "returned"}]
    /\ at \in [Processes -> JobIds \cup OwnerClosers \cup {None}]
    /\ ownerOfCall \in [OwnerClosers -> Owners \cup {None}]
    /\ recs \in [Sweepers -> SUBSET JobIds] /\ unswept \in [Sweepers -> SUBSET JobIds]
    /\ notified \in [JobIds -> Nat]

\* After Close no goroutine of a job is left, except the work whose own cancel
\* hook failed, and the observers were called once and have returned.
CloseDrains ==
    closeDone => \A j \in JobIds : place[j] # "ready" =>
                    /\ Settled(j) /\ j \in observerDone /\ notified[j] = 1
                    /\ place[j] = "gone" \/ j \in orphaned

\* When CloseOwner returns, no job of that owner is left in the registry, not
\* even one that was started meanwhile, and their observers have returned.
OwnerDrained ==
    [][\A c \in OwnerClosers :
          place[c] = "sweep" /\ place'[c] = "returned"
             => \A j \in JobIds : OwnerOf[j] = ownerOfCall[c] /\ place'[j] # "ready"
                                  => j \notin table' /\ j \in observerDone']_registryVars

\* A job whose Kill is answered "requested" settles.
KillTakesEffect ==
    \A k \in Killers, j \in JobIds : (place[k] = "requested" /\ at[k] = j) ~> Settled(j)

\* Close and CloseOwner neither hang nor wait for each other for ever.
CloseReturns == \A c \in Sweepers : place[c] # "ready" ~> place[c] = "returned"
=============================================================================
