------------------------------ MODULE JobProofs ------------------------------
(***************************************************************************)
(* Proofs about background jobs: JobRegistry, for any set of jobs, owners  *)
(* and callers, and CompletionWakes, for any set of jobs and visitors, any *)
(* budget of wakes and any number of troubles.                             *)
(***************************************************************************)
EXTENDS JobRegistry, CompletionWakes, FiniteSetTheorems, TLAPS

----------------------------------------------------------------------------
(* The registry: the inductive invariant.                                  *)

Started(j) == place[j] # "ready"
Notifying(p) == place[p] \in {"notify", "observing"}
Sweeping(c) == place[c] \in {"sweep", "hook", "notify", "observing"}

\* A job that is over: settled, and its observers have returned.
Over(j) == Settled(j) /\ j \in observerDone

\* Where the processes of each kind can be.
LabelsInv ==
    /\ \A j \in JobIds : place[j] \in {"ready", "running", "notify", "observing", "gone"}
    /\ \A k \in Killers : place[k] \in {"ready", "killing", "marking", "refused", "requested",
                                     "already-finished"}
    /\ \A c \in Sweepers : place[c] \in {"ready", "sweep", "hook", "notify", "observing",
                                      "joining", "returned"}

\* How a job's record, its goroutine and its observers go together. A job that
\* left the table is over, and one that has not settled is still running.
RecordInv ==
    \A j \in JobIds :
        /\ Started(j) <=> status[j] # "none"
        /\ j \in table => Started(j)
        /\ Started(j) /\ j \notin table => Over(j)
        /\ Started(j) /\ ~Settled(j) => place[j] = "running"
        /\ Settled(j) /\ place[j] = "running" => j \in orphaned
        /\ Notifying(j) => at[j] = j
        /\ ~Settled(j) => notified[j] = 0 /\ j \notin observerDone
        /\ j \in observerDone => notified[j] = 1

\* Who notifies does it for a settled job, alone, and has done it at most once.
NotifierInv ==
    \A p \in Processes : Notifying(p) =>
        /\ at[p] \in JobIds /\ Settled(at[p]) /\ at[p] \notin observerDone
        /\ place[p] = "notify" => notified[at[p]] = 0
        /\ place[p] = "observing" => notified[at[p]] = 1
        /\ \A q \in Processes : Notifying(q) /\ at[q] = at[p] => q = p

\* Hooks run for jobs that were started.
TargetInv ==
    /\ \A k \in Killers : place[k] \in {"killing", "marking"} => at[k] \in JobIds /\ Started(at[k])
    /\ \A c \in Sweepers :
          /\ place[c] = "hook" => at[c] \in JobIds /\ Started(at[c])
          /\ \A j \in recs[c] \cup unswept[c] : Started(j)

\* A Close that is under way has every started job in its records, or it is over.
CloseInv ==
    /\ \A c \in Closers : Sweeping(c) =>
          closed /\ \A j \in JobIds : Started(j) => j \in recs[c] \/ Over(j)
    /\ closeDone => closed /\ \A j \in JobIds : Started(j) => Over(j)

\* So has a CloseOwner, for the jobs of the owner that it has marked as closing.
OwnerInv ==
    \A c \in OwnerClosers : Sweeping(c) =>
        /\ ownerOfCall[c] \in Owners /\ closing[ownerOfCall[c]] = c
        /\ \A j \in JobIds : Started(j) /\ OwnerOf[j] = ownerOfCall[c]
              => j \in recs[c] \/ j \notin table

RegistryInv == LabelsInv /\ RecordInv /\ NotifierInv /\ TargetInv /\ CloseInv /\ OwnerInv

USE DEF registry, closeVars, sweep, history, Processes, Callers, Sweepers, Outcomes,
        isTerminal, Settled

-----------------------------------------------------------------------------
\* Every step keeps the types.
LEMMA NextType ==
    RegistryTypeOK /\ LabelsInv /\ TargetInv /\ NotifierInv /\ OwnerInv /\ [RegistryNext]_registryVars
        => RegistryTypeOK'
<1> SUFFICES ASSUME RegistryTypeOK, LabelsInv, TargetInv, NotifierInv, OwnerInv, [RegistryNext]_registryVars
             PROVE  RegistryTypeOK'
    OBVIOUS
<1> USE RegistryAssumption
    DEF RegistryTypeOK, LabelsInv, TargetInv, NotifierInv, OwnerInv, Notifying, Sweeping,
        Started
<1>1. ASSUME NEW j \in JobIds, Start(j) PROVE RegistryTypeOK'
    BY <1>1 DEF Start, Admits
<1>2. ASSUME NEW j \in JobIds, runJob(j) PROVE RegistryTypeOK'
    BY <1>2 DEF runJob, settle
<1>3. ASSUME NEW k \in Killers, NEW j \in JobIds, Kill(k, j) PROVE RegistryTypeOK'
    BY <1>3 DEF Kill
<1>4. ASSUME NEW c \in Closers, Close(c) PROVE RegistryTypeOK'
    <2>1. CASE closed  BY <1>4, <2>1 DEF Close
    <2>2. CASE ~closed
        <3>1. status' \in [JobIds -> Outcomes \cup {"none", "running", "stopping"}]
            BY <1>4, <2>2 DEF Close, MarkStopping
        <3>2. recs' \in [Sweepers -> SUBSET JobIds] /\ unswept' \in [Sweepers -> SUBSET JobIds]
            BY <1>4, <2>2 DEF Close
        <3> QED
            BY <1>4, <2>2, <3>1, <3>2 DEF Close
    <2> QED
        BY <2>1, <2>2
<1>5. ASSUME NEW c \in OwnerClosers, NEW o \in Owners, CloseOwner(c, o) PROVE RegistryTypeOK'
    <2>1. CASE closing[o] # None  BY <1>5, <2>1 DEF CloseOwner
    <2>2. CASE closing[o] = None
        <3>1. status' \in [JobIds -> Outcomes \cup {"none", "running", "stopping"}]
            BY <1>5, <2>2 DEF CloseOwner, MarkStopping
        <3>2. recs' \in [Sweepers -> SUBSET JobIds] /\ unswept' \in [Sweepers -> SUBSET JobIds]
            <4> DEFINE mine == {j \in table : OwnerOf[j] = o}
            <4>1. mine \in SUBSET JobIds
                OBVIOUS
            <4>2. recs' = [recs EXCEPT ![c] = mine] /\ unswept' = [unswept EXCEPT ![c] = mine]
                BY <1>5, <2>2 DEF CloseOwner
            <4> QED
                BY <4>1, <4>2
        <3>3. closing' \in [Owners -> OwnerClosers \cup {None}]
            BY <1>5, <2>2 DEF CloseOwner
        <3>4. ownerOfCall' \in [OwnerClosers -> Owners \cup {None}]
            BY <1>5 DEF CloseOwner
        <3>5. place' = [place EXCEPT ![c] = "sweep"]
            BY <1>5, <2>2 DEF CloseOwner
        <3>6. UNCHANGED <<at, table, cancelled, observerDone, closed, closeDone, history>>
            BY <1>5, <2>2 DEF CloseOwner
        <3> QED
            BY <3>1, <3>2, <3>3, <3>4, <3>5, <3>6
    <2> QED
        BY <2>1, <2>2
<1>6. ASSUME NEW p \in Processes, notifySettled(p) PROVE RegistryTypeOK'
    BY <1>6 DEF notifySettled
<1>7. ASSUME NEW p \in Processes, ObserversReturn(p) PROVE RegistryTypeOK'
    BY <1>7 DEF ObserversReturn
<1>8. ASSUME NEW k \in Killers, KillHook(k) PROVE RegistryTypeOK'
    BY <1>8 DEF KillHook
<1>9. ASSUME NEW k \in Killers, KillMark(k) PROVE RegistryTypeOK'
    BY <1>9 DEF KillMark
<1>10. ASSUME NEW c \in Sweepers, NEW j \in JobIds, SweepNext(c, j) PROVE RegistryTypeOK'
    BY <1>10 DEF SweepNext
<1>11. ASSUME NEW c \in Sweepers, SweepHookWorks(c) PROVE RegistryTypeOK'
    BY <1>11 DEF SweepHookWorks
<1>12. ASSUME NEW c \in Sweepers, SweepHookFails(c) PROVE RegistryTypeOK'
    <2>1. at[c] \in JobIds /\ c \in Processes
        BY <1>12 DEF SweepHookFails
    <2>2. cancelled' \subseteq JobIds /\ orphaned' \subseteq JobIds
        BY <1>12, <2>1 DEF SweepHookFails
    <2>3. CASE Settled(at[c])
        BY <1>12, <2>1, <2>2, <2>3 DEF SweepHookFails, settle
    <2>4. CASE ~Settled(at[c])
        BY <1>12, <2>1, <2>2, <2>4 DEF SweepHookFails, settle
    <2> QED
        BY <2>3, <2>4
<1>13. ASSUME NEW c \in Sweepers, SweepEnds(c) PROVE RegistryTypeOK'
    <2>1. recs' \in [Sweepers -> SUBSET JobIds] /\ at' \in [Processes -> JobIds \cup OwnerClosers \cup {None}]
        BY <1>13 DEF SweepEnds
    <2>2. CASE c \in Closers
        BY <1>13, <2>1, <2>2 DEF SweepEnds
    <2>3. CASE c \in OwnerClosers
        <3>1. table' \subseteq JobIds /\ closing' \in [Owners -> OwnerClosers \cup {None}]
            BY <1>13, <2>3 DEF SweepEnds
        <3> QED
            BY <1>13, <2>1, <2>3, <3>1 DEF SweepEnds
    <2> QED
        BY <2>2, <2>3
<1>14. ASSUME NEW c \in Sweepers, Join(c) PROVE RegistryTypeOK'
    BY <1>14 DEF Join
<1>15. CASE UNCHANGED registryVars  BY <1>15 DEF registryVars
<1> QED
    BY <1>1, <1>2, <1>3, <1>4, <1>5, <1>6, <1>7, <1>8, <1>9, <1>10, <1>11, <1>12,
       <1>13, <1>14, <1>15
    DEF RegistryNext, Step

\* Every step keeps the processes at labels of their kind.
LEMMA NextLabels == RegistryTypeOK /\ LabelsInv /\ [RegistryNext]_registryVars => LabelsInv'
<1> SUFFICES ASSUME RegistryTypeOK, LabelsInv, [RegistryNext]_registryVars PROVE LabelsInv'
    OBVIOUS
<1> USE RegistryAssumption DEF RegistryTypeOK, LabelsInv
<1>1. ASSUME NEW j \in JobIds, Start(j) PROVE LabelsInv'
    BY <1>1 DEF Start, Admits
<1>2. ASSUME NEW j \in JobIds, runJob(j) PROVE LabelsInv'
    BY <1>2 DEF runJob, settle
<1>3. ASSUME NEW k \in Killers, NEW j \in JobIds, Kill(k, j) PROVE LabelsInv'
    BY <1>3 DEF Kill
<1>4. ASSUME NEW c \in Closers, Close(c) PROVE LabelsInv'
    BY <1>4 DEF Close, MarkStopping
<1>5. ASSUME NEW c \in OwnerClosers, NEW o \in Owners, CloseOwner(c, o) PROVE LabelsInv'
    BY <1>5 DEF CloseOwner, MarkStopping
<1>6. ASSUME NEW p \in Processes, notifySettled(p) PROVE LabelsInv'
    BY <1>6 DEF notifySettled
<1>7. ASSUME NEW p \in Processes, ObserversReturn(p) PROVE LabelsInv'
    BY <1>7 DEF ObserversReturn
<1>8. ASSUME NEW k \in Killers, KillHook(k) PROVE LabelsInv'
    BY <1>8 DEF KillHook
<1>9. ASSUME NEW k \in Killers, KillMark(k) PROVE LabelsInv'
    BY <1>9 DEF KillMark
<1>10. ASSUME NEW c \in Sweepers, NEW j \in JobIds, SweepNext(c, j) PROVE LabelsInv'
    BY <1>10 DEF SweepNext
<1>11. ASSUME NEW c \in Sweepers, SweepHookWorks(c) PROVE LabelsInv'
    BY <1>11 DEF SweepHookWorks
<1>12. ASSUME NEW c \in Sweepers, SweepHookFails(c) PROVE LabelsInv'
    BY <1>12 DEF SweepHookFails, settle
<1>13. ASSUME NEW c \in Sweepers, SweepEnds(c) PROVE LabelsInv'
    BY <1>13 DEF SweepEnds, Drained
<1>14. ASSUME NEW c \in Sweepers, Join(c) PROVE LabelsInv'
    BY <1>14 DEF Join
<1>15. CASE UNCHANGED registryVars  BY <1>15 DEF registryVars
<1> QED
    BY <1>1, <1>2, <1>3, <1>4, <1>5, <1>6, <1>7, <1>8, <1>9, <1>10, <1>11, <1>12,
       <1>13, <1>14, <1>15
    DEF RegistryNext, Step

\* Every step keeps the records in order.
LEMMA NextRecord == RegistryTypeOK /\ RegistryInv /\ [RegistryNext]_registryVars => RecordInv'
<1> SUFFICES ASSUME RegistryTypeOK, RegistryInv, [RegistryNext]_registryVars PROVE RecordInv'
    OBVIOUS
<1> USE RegistryAssumption
    DEF RegistryInv, RegistryTypeOK, LabelsInv, RecordInv, NotifierInv, TargetInv, Started, Notifying,
        Over
<1>1. ASSUME NEW j \in JobIds, Start(j) PROVE RecordInv'
    BY <1>1 DEF Start, Admits
<1>2. ASSUME NEW j \in JobIds, runJob(j) PROVE RecordInv'
    BY <1>2 DEF runJob, settle
<1>3. ASSUME NEW k \in Killers, NEW j \in JobIds, Kill(k, j) PROVE RecordInv'
    BY <1>3 DEF Kill
<1>4. ASSUME NEW c \in Closers, Close(c) PROVE RecordInv'
    BY <1>4 DEF Close, MarkStopping
<1>5. ASSUME NEW c \in OwnerClosers, NEW o \in Owners, CloseOwner(c, o) PROVE RecordInv'
    BY <1>5 DEF CloseOwner, MarkStopping
<1>6. ASSUME NEW p \in Processes, notifySettled(p) PROVE RecordInv'
    BY <1>6 DEF notifySettled
<1>7. ASSUME NEW p \in Processes, ObserversReturn(p) PROVE RecordInv'
    BY <1>7 DEF ObserversReturn
<1>8. ASSUME NEW k \in Killers, KillHook(k) PROVE RecordInv'
    BY <1>8 DEF KillHook
<1>9. ASSUME NEW k \in Killers, KillMark(k) PROVE RecordInv'
    BY <1>9 DEF KillMark
<1>10. ASSUME NEW c \in Sweepers, NEW j \in JobIds, SweepNext(c, j) PROVE RecordInv'
    BY <1>10 DEF SweepNext
<1>11. ASSUME NEW c \in Sweepers, SweepHookWorks(c) PROVE RecordInv'
    BY <1>11 DEF SweepHookWorks
<1>12. ASSUME NEW c \in Sweepers, SweepHookFails(c) PROVE RecordInv'
    BY <1>12 DEF SweepHookFails, settle
<1>13. ASSUME NEW c \in Sweepers, SweepEnds(c) PROVE RecordInv'
    BY <1>13 DEF SweepEnds, Drained
<1>14. ASSUME NEW c \in Sweepers, Join(c) PROVE RecordInv'
    BY <1>14 DEF Join
<1>15. CASE UNCHANGED registryVars  BY <1>15 DEF registryVars
<1> QED
    BY <1>1, <1>2, <1>3, <1>4, <1>5, <1>6, <1>7, <1>8, <1>9, <1>10, <1>11, <1>12,
       <1>13, <1>14, <1>15
    DEF RegistryNext, Step

\* Every step leaves a job at most one notifier.
LEMMA NextNotifier == RegistryTypeOK /\ RegistryInv /\ [RegistryNext]_registryVars => NotifierInv'
<1> SUFFICES ASSUME RegistryTypeOK, RegistryInv, [RegistryNext]_registryVars PROVE NotifierInv'
    OBVIOUS
<1> USE RegistryAssumption
    DEF RegistryInv, RegistryTypeOK, LabelsInv, RecordInv, NotifierInv, TargetInv, Started, Notifying,
        Over
<1>1. ASSUME NEW j \in JobIds, Start(j) PROVE NotifierInv'
    BY <1>1 DEF Start, Admits
<1>2. ASSUME NEW j \in JobIds, runJob(j) PROVE NotifierInv'
    BY <1>2 DEF runJob, settle
<1>3. ASSUME NEW k \in Killers, NEW j \in JobIds, Kill(k, j) PROVE NotifierInv'
    BY <1>3 DEF Kill
<1>4. ASSUME NEW c \in Closers, Close(c) PROVE NotifierInv'
    BY <1>4 DEF Close, MarkStopping
<1>5. ASSUME NEW c \in OwnerClosers, NEW o \in Owners, CloseOwner(c, o) PROVE NotifierInv'
    BY <1>5 DEF CloseOwner, MarkStopping
<1>6. ASSUME NEW p \in Processes, notifySettled(p) PROVE NotifierInv'
    BY <1>6 DEF notifySettled
<1>7. ASSUME NEW p \in Processes, ObserversReturn(p) PROVE NotifierInv'
    BY <1>7 DEF ObserversReturn
<1>8. ASSUME NEW k \in Killers, KillHook(k) PROVE NotifierInv'
    BY <1>8 DEF KillHook
<1>9. ASSUME NEW k \in Killers, KillMark(k) PROVE NotifierInv'
    BY <1>9 DEF KillMark
<1>10. ASSUME NEW c \in Sweepers, NEW j \in JobIds, SweepNext(c, j) PROVE NotifierInv'
    BY <1>10 DEF SweepNext
<1>11. ASSUME NEW c \in Sweepers, SweepHookWorks(c) PROVE NotifierInv'
    BY <1>11 DEF SweepHookWorks
<1>12. ASSUME NEW c \in Sweepers, SweepHookFails(c) PROVE NotifierInv'
    BY <1>12 DEF SweepHookFails, settle
<1>13. ASSUME NEW c \in Sweepers, SweepEnds(c) PROVE NotifierInv'
    BY <1>13 DEF SweepEnds, Drained
<1>14. ASSUME NEW c \in Sweepers, Join(c) PROVE NotifierInv'
    BY <1>14 DEF Join
<1>15. CASE UNCHANGED registryVars  BY <1>15 DEF registryVars
<1> QED
    BY <1>1, <1>2, <1>3, <1>4, <1>5, <1>6, <1>7, <1>8, <1>9, <1>10, <1>11, <1>12,
       <1>13, <1>14, <1>15
    DEF RegistryNext, Step

\* Hooks keep running for started jobs.
LEMMA NextTarget == RegistryTypeOK /\ RegistryInv /\ [RegistryNext]_registryVars => TargetInv'
<1> SUFFICES ASSUME RegistryTypeOK, RegistryInv, [RegistryNext]_registryVars PROVE TargetInv'
    OBVIOUS
<1> USE RegistryAssumption
    DEF RegistryInv, RegistryTypeOK, LabelsInv, RecordInv, TargetInv, Started
<1>1. ASSUME NEW j \in JobIds, Start(j) PROVE TargetInv'
    BY <1>1 DEF Start, Admits
<1>2. ASSUME NEW j \in JobIds, runJob(j) PROVE TargetInv'
    BY <1>2 DEF runJob, settle
<1>3. ASSUME NEW k \in Killers, NEW j \in JobIds, Kill(k, j) PROVE TargetInv'
    BY <1>3 DEF Kill
<1>4. ASSUME NEW c \in Closers, Close(c) PROVE TargetInv'
    BY <1>4 DEF Close, MarkStopping
<1>5. ASSUME NEW c \in OwnerClosers, NEW o \in Owners, CloseOwner(c, o) PROVE TargetInv'
    BY <1>5 DEF CloseOwner, MarkStopping
<1>6. ASSUME NEW p \in Processes, notifySettled(p) PROVE TargetInv'
    BY <1>6 DEF notifySettled
<1>7. ASSUME NEW p \in Processes, ObserversReturn(p) PROVE TargetInv'
    BY <1>7 DEF ObserversReturn
<1>8. ASSUME NEW k \in Killers, KillHook(k) PROVE TargetInv'
    BY <1>8 DEF KillHook
<1>9. ASSUME NEW k \in Killers, KillMark(k) PROVE TargetInv'
    BY <1>9 DEF KillMark
<1>10. ASSUME NEW c \in Sweepers, NEW j \in JobIds, SweepNext(c, j) PROVE TargetInv'
    BY <1>10 DEF SweepNext
<1>11. ASSUME NEW c \in Sweepers, SweepHookWorks(c) PROVE TargetInv'
    BY <1>11 DEF SweepHookWorks
<1>12. ASSUME NEW c \in Sweepers, SweepHookFails(c) PROVE TargetInv'
    BY <1>12 DEF SweepHookFails, settle
<1>13. ASSUME NEW c \in Sweepers, SweepEnds(c) PROVE TargetInv'
    BY <1>13 DEF SweepEnds, Drained
<1>14. ASSUME NEW c \in Sweepers, Join(c) PROVE TargetInv'
    BY <1>14 DEF Join
<1>15. CASE UNCHANGED registryVars  BY <1>15 DEF registryVars
<1> QED
    BY <1>1, <1>2, <1>3, <1>4, <1>5, <1>6, <1>7, <1>8, <1>9, <1>10, <1>11, <1>12,
       <1>13, <1>14, <1>15
    DEF RegistryNext, Step

\* No step adds a job behind the back of a Close.
LEMMA NextClose == RegistryTypeOK /\ RegistryInv /\ [RegistryNext]_registryVars => CloseInv'
<1> SUFFICES ASSUME RegistryTypeOK, RegistryInv, [RegistryNext]_registryVars PROVE CloseInv'
    OBVIOUS
<1> USE RegistryAssumption
    DEF RegistryInv, RegistryTypeOK, LabelsInv, RecordInv, TargetInv, CloseInv, Started, Sweeping,
        Over
<1>1. ASSUME NEW j \in JobIds, Start(j) PROVE CloseInv'
    BY <1>1 DEF Start, Admits
<1>2. ASSUME NEW j \in JobIds, runJob(j) PROVE CloseInv'
    BY <1>2 DEF runJob, settle
<1>3. ASSUME NEW k \in Killers, NEW j \in JobIds, Kill(k, j) PROVE CloseInv'
    BY <1>3 DEF Kill
<1>4. ASSUME NEW c \in Closers, Close(c) PROVE CloseInv'
    BY <1>4 DEF Close, MarkStopping
<1>5. ASSUME NEW c \in OwnerClosers, NEW o \in Owners, CloseOwner(c, o) PROVE CloseInv'
    BY <1>5 DEF CloseOwner, MarkStopping
<1>6. ASSUME NEW p \in Processes, notifySettled(p) PROVE CloseInv'
    BY <1>6 DEF notifySettled
<1>7. ASSUME NEW p \in Processes, ObserversReturn(p) PROVE CloseInv'
    BY <1>7 DEF ObserversReturn
<1>8. ASSUME NEW k \in Killers, KillHook(k) PROVE CloseInv'
    BY <1>8 DEF KillHook
<1>9. ASSUME NEW k \in Killers, KillMark(k) PROVE CloseInv'
    BY <1>9 DEF KillMark
<1>10. ASSUME NEW c \in Sweepers, NEW j \in JobIds, SweepNext(c, j) PROVE CloseInv'
    BY <1>10 DEF SweepNext
<1>11. ASSUME NEW c \in Sweepers, SweepHookWorks(c) PROVE CloseInv'
    BY <1>11 DEF SweepHookWorks
<1>12. ASSUME NEW c \in Sweepers, SweepHookFails(c) PROVE CloseInv'
    BY <1>12 DEF SweepHookFails, settle
<1>13. ASSUME NEW c \in Sweepers, SweepEnds(c) PROVE CloseInv'
    BY <1>13 DEF SweepEnds, Drained
<1>14. ASSUME NEW c \in Sweepers, Join(c) PROVE CloseInv'
    BY <1>14 DEF Join
<1>15. CASE UNCHANGED registryVars  BY <1>15 DEF registryVars
<1> QED
    BY <1>1, <1>2, <1>3, <1>4, <1>5, <1>6, <1>7, <1>8, <1>9, <1>10, <1>11, <1>12,
       <1>13, <1>14, <1>15
    DEF RegistryNext, Step

\* No step adds a job behind the back of a CloseOwner.
LEMMA NextOwner == RegistryTypeOK /\ RegistryInv /\ [RegistryNext]_registryVars => OwnerInv'
<1> SUFFICES ASSUME RegistryTypeOK, RegistryInv, [RegistryNext]_registryVars PROVE OwnerInv'
    OBVIOUS
<1> USE RegistryAssumption
    DEF RegistryInv, RegistryTypeOK, LabelsInv, RecordInv, TargetInv, OwnerInv, Started, Sweeping
<1>1. ASSUME NEW j \in JobIds, Start(j) PROVE OwnerInv'
    BY <1>1 DEF Start, Admits
<1>2. ASSUME NEW j \in JobIds, runJob(j) PROVE OwnerInv'
    BY <1>2 DEF runJob, settle
<1>3. ASSUME NEW k \in Killers, NEW j \in JobIds, Kill(k, j) PROVE OwnerInv'
    BY <1>3 DEF Kill
<1>4. ASSUME NEW c \in Closers, Close(c) PROVE OwnerInv'
    BY <1>4 DEF Close, MarkStopping
<1>5. ASSUME NEW c \in OwnerClosers, NEW o \in Owners, CloseOwner(c, o) PROVE OwnerInv'
    BY <1>5 DEF CloseOwner, MarkStopping
<1>6. ASSUME NEW p \in Processes, notifySettled(p) PROVE OwnerInv'
    BY <1>6 DEF notifySettled
<1>7. ASSUME NEW p \in Processes, ObserversReturn(p) PROVE OwnerInv'
    BY <1>7 DEF ObserversReturn
<1>8. ASSUME NEW k \in Killers, KillHook(k) PROVE OwnerInv'
    BY <1>8 DEF KillHook
<1>9. ASSUME NEW k \in Killers, KillMark(k) PROVE OwnerInv'
    BY <1>9 DEF KillMark
<1>10. ASSUME NEW c \in Sweepers, NEW j \in JobIds, SweepNext(c, j) PROVE OwnerInv'
    BY <1>10 DEF SweepNext
<1>11. ASSUME NEW c \in Sweepers, SweepHookWorks(c) PROVE OwnerInv'
    BY <1>11 DEF SweepHookWorks
<1>12. ASSUME NEW c \in Sweepers, SweepHookFails(c) PROVE OwnerInv'
    BY <1>12 DEF SweepHookFails, settle
<1>13. ASSUME NEW c \in Sweepers, SweepEnds(c) PROVE OwnerInv'
    BY <1>13 DEF SweepEnds, Drained
<1>14. ASSUME NEW c \in Sweepers, Join(c) PROVE OwnerInv'
    BY <1>14 DEF Join
<1>15. CASE UNCHANGED registryVars  BY <1>15 DEF registryVars
<1> QED
    BY <1>1, <1>2, <1>3, <1>4, <1>5, <1>6, <1>7, <1>8, <1>9, <1>10, <1>11, <1>12,
       <1>13, <1>14, <1>15
    DEF RegistryNext, Step

-----------------------------------------------------------------------------
\* The inductive invariant holds in every reachable state.
LEMMA RegistryInductive == RegistrySpec => [](RegistryTypeOK /\ RegistryInv)
<1>1. RegistryInit => RegistryTypeOK
    <2> SUFFICES ASSUME RegistryInit PROVE RegistryTypeOK
        OBVIOUS
    <2>1. recs \in [Sweepers -> SUBSET JobIds] /\ unswept \in [Sweepers -> SUBSET JobIds]
        BY DEF RegistryInit
    <2>2. notified \in [JobIds -> Nat]
        BY DEF RegistryInit
    <2> QED
        BY <2>1, <2>2 DEF RegistryInit, RegistryTypeOK
<1>2. RegistryInit => RegistryInv
    BY RegistryAssumption
    DEF RegistryInit, RegistryInv, LabelsInv, RecordInv, NotifierInv, TargetInv, CloseInv, OwnerInv,
        Started, Notifying, Sweeping, Over
<1>3. RegistryTypeOK /\ RegistryInv /\ [RegistryNext]_registryVars => (RegistryTypeOK /\ RegistryInv)'
    BY NextType, NextLabels, NextRecord, NextNotifier, NextTarget, NextClose, NextOwner DEF RegistryInv
<1> QED
    BY <1>1, <1>2, <1>3, PTL DEF RegistrySpec

\* Type correctness of the job registry.
THEOREM RegistryTypeCorrect == RegistrySpec => []RegistryTypeOK
    BY RegistryInductive, PTL

\* After Local.Close has returned, every job that was ever started has settled,
\* its observers were called exactly once and have returned, and its goroutine
\* is gone unless its own cancel hook failed.
THEOREM CloseDrainsHolds == RegistrySpec => []CloseDrains
<1>1. RegistryTypeOK /\ RegistryInv => CloseDrains
    BY DEF RegistryTypeOK, RegistryInv, CloseDrains, CloseInv, LabelsInv, RecordInv, NotifierInv, Started, Over,
           Notifying
<1> QED
    BY <1>1, RegistryInductive, PTL

\* A sweep comes to its end by SweepEnds and by nothing else.
LEMMA SweepReturns ==
    ASSUME RegistryTypeOK, RegistryNext, NEW c \in OwnerClosers, place[c] = "sweep", place'[c] = "returned"
    PROVE  SweepEnds(c)
<1> USE RegistryAssumption DEF RegistryTypeOK
<1>1. ASSUME NEW j \in JobIds, Start(j) PROVE FALSE
    BY <1>1 DEF Start, Admits
<1>2. ASSUME NEW j \in JobIds, runJob(j) PROVE FALSE
    BY <1>2 DEF runJob, settle
<1>3. ASSUME NEW k \in Killers, NEW j \in JobIds, Kill(k, j) PROVE FALSE
    BY <1>3 DEF Kill
<1>4. ASSUME NEW d \in Closers, Close(d) PROVE FALSE
    BY <1>4 DEF Close
<1>5. ASSUME NEW d \in OwnerClosers, NEW o \in Owners, CloseOwner(d, o) PROVE FALSE
    BY <1>5 DEF CloseOwner
<1>6. ASSUME NEW p \in Processes, notifySettled(p) PROVE FALSE
    BY <1>6 DEF notifySettled
<1>7. ASSUME NEW p \in Processes, ObserversReturn(p) PROVE FALSE
    BY <1>7 DEF ObserversReturn
<1>8. ASSUME NEW k \in Killers, KillHook(k) PROVE FALSE
    BY <1>8 DEF KillHook
<1>9. ASSUME NEW k \in Killers, KillMark(k) PROVE FALSE
    BY <1>9 DEF KillMark
<1>10. ASSUME NEW d \in Sweepers, NEW j \in JobIds, SweepNext(d, j) PROVE FALSE
    BY <1>10 DEF SweepNext
<1>11. ASSUME NEW d \in Sweepers, SweepHookWorks(d) PROVE FALSE
    BY <1>11 DEF SweepHookWorks
<1>12. ASSUME NEW d \in Sweepers, SweepHookFails(d) PROVE FALSE
    BY <1>12 DEF SweepHookFails, settle
<1>13. ASSUME NEW d \in Sweepers, Join(d) PROVE FALSE
    BY <1>13 DEF Join
<1>14. ASSUME NEW d \in Sweepers, SweepEnds(d) PROVE d = c
    BY <1>14 DEF SweepEnds
<1> QED
    BY <1>1, <1>2, <1>3, <1>4, <1>5, <1>6, <1>7, <1>8, <1>9, <1>10, <1>11, <1>12,
       <1>13, <1>14
    DEF RegistryNext, Step

\* When CloseOwner returns, no job of the owner is left in the table, one that
\* was started while the call was under way included, and their observers have
\* returned.
THEOREM OwnerDrainedHolds == RegistrySpec => OwnerDrained
<1> DEFINE Drains == \A c \in OwnerClosers :
          place[c] = "sweep" /\ place'[c] = "returned"
             => \A j \in JobIds : OwnerOf[j] = ownerOfCall[c] /\ place'[j] # "ready"
                                  => j \notin table' /\ j \in observerDone'
<1>1. RegistryTypeOK /\ RegistryInv /\ [RegistryNext]_registryVars => [Drains]_registryVars
    <2> SUFFICES ASSUME RegistryTypeOK, RegistryInv, RegistryNext, NEW c \in OwnerClosers,
                        place[c] = "sweep", place'[c] = "returned",
                        NEW j \in JobIds, OwnerOf[j] = ownerOfCall[c], place'[j] # "ready"
                 PROVE  j \notin table' /\ j \in observerDone'
        BY DEF registryVars
    <2>1. SweepEnds(c)
        BY SweepReturns
    <2>2. Started(j)
        BY <2>1, RegistryAssumption DEF SweepEnds, RegistryTypeOK, Started
    <2>3. j \in recs[c] \/ j \notin table
        BY <2>2 DEF RegistryInv, OwnerInv, Sweeping
    <2>4. j \notin table'
        BY <2>1, <2>3, RegistryAssumption DEF SweepEnds
    <2>5. j \in observerDone
        BY <2>1, <2>2, <2>3 DEF SweepEnds, Drained, RegistryInv, RecordInv, Over
    <2> QED
        BY <2>1, <2>4, <2>5 DEF SweepEnds
<1> QED
    BY <1>1, RegistryInductive, PTL DEF RegistrySpec, OwnerDrained

----------------------------------------------------------------------------
(* The wakes: the inductive invariant.                                     *)

\* The job notices in a queue, and the processes about to insert a waking one:
\* the wakes under way.
Notices(queue) == {k \in DOMAIN queue : queue[k] # User}
Wakers == {p \in Procs : pc[p] = "put" /\ way[p] = "wake"}

\* The types, without how often something is in the queue or in the log.
ShapeOK ==
    /\ done \in [Jobs -> Nat] /\ receipts \in [Jobs -> Nat]
    /\ nextTurn \in Seq(Jobs \cup {User}) /\ quiet \subseteq Jobs
    /\ agent \in {"none", "idle", "running", "closed"} /\ count \in 0 .. Limit
    /\ stopped \in BOOLEAN /\ agentMu \in Procs \cup {Nobody} /\ tracked \subseteq Jobs
    /\ pc \in [Procs -> {"running", "gone", "record", "rest", "find", "grant", "put", "send", "end"}]
    /\ mode \in [Procs -> {"locked", "own", "retry"}] /\ held \subseteq Procs
    /\ todo \in [Procs -> SUBSET Jobs] /\ cur \in [Procs -> Jobs \cup {Nobody}]
    /\ way \in [Procs -> {"wake", "quiet"}] /\ troubles \in 0 .. MaxTroubles
    /\ before \subseteq Jobs
    /\ \A p \in Procs : pc[p] = "put" => cur[p] \in Jobs

\* The log has an end of a job at most once from its observer and once from the
\* tools, and the tools do not report what ended in an earlier process.
DoneInv ==
    \A j \in Jobs : done[j] <= 2 /\ (pc[j] # "gone" /\ j \notin tracked => done[j] <= 1)

\* The queue has every notice once.
QueueInv ==
    \A k, l \in DOMAIN nextTurn : nextTurn[k] \in Jobs /\ nextTurn[k] = nextTurn[l] => k = l

\* The wakes still to grant and those under way are allowed.
BudgetInv ==
    /\ IsFiniteSet(Wakers) /\ allowance \in Int
    /\ allowance >= (Limit - count) + WakesUnderWay(nextTurn)

\* After a restart there are no observers, and nobody is about to deliver a
\* notice that was inserted before it.
ReplayInv ==
    /\ before # {} => \A j \in Jobs : pc[j] = "gone"
    /\ \A j \in before : receipts[j] > 0 /\ \A p \in Procs : j \notin todo[p] /\ (pc[p] = "put" => cur[p] # j)

IInv == DoneInv /\ QueueInv /\ BudgetInv /\ ReplayInv

USE DEF logVars, memVars, procVars, histVars, Procs, Trouble, Goto, Closed

-----------------------------------------------------------------------------
(* The queue and its notices.                                              *)

\* A queue has finitely many notices.
LEMMA NoticesFinite ==
    ASSUME NEW q \in Seq(Jobs \cup {User})
    PROVE  IsFiniteSet(Notices(q)) /\ Cardinality(Notices(q)) \in Nat
<1>1. Notices(q) \subseteq 1 .. Len(q)
    BY DEF Notices
<1>2. IsFiniteSet(1 .. Len(q))
    BY FS_Interval
<1> QED
    BY <1>1, <1>2, FS_Subset, FS_CardinalityType

\* A message that is added counts if it is a notice.
LEMMA NoticesAppend ==
    ASSUME NEW q \in Seq(Jobs \cup {User}), NEW m \in Jobs \cup {User}
    PROVE  Cardinality(Notices(Append(q, m))) = Cardinality(Notices(q)) + (IF m = User THEN 0 ELSE 1)
<1>1. CASE m = User
    <2>1. Notices(Append(q, m)) = Notices(q)
        BY <1>1 DEF Notices
    <2> QED
        BY <1>1, <2>1, NoticesFinite
<1>2. CASE m # User
    <2>1. Notices(Append(q, m)) = Notices(q) \cup {Len(q) + 1}
        BY <1>2 DEF Notices
    <2>2. Len(q) + 1 \notin Notices(q)
        BY DEF Notices
    <2> QED
        BY <1>2, <2>1, <2>2, NoticesFinite, FS_AddElement
<1> QED
    BY <1>1, <1>2

\* A claim takes the first message, and with it one notice or none.
LEMMA NoticesTail ==
    ASSUME NEW q \in Seq(Jobs \cup {User}), q # <<>>
    PROVE  Cardinality(Notices(q)) = Cardinality(Notices(Tail(q))) + (IF q[1] = User THEN 0 ELSE 1)
<1> DEFINE rest == Notices(Tail(q))
           all == Notices(q)
           f == [k \in rest |-> k + 1]
<1>0. Tail(q) \in Seq(Jobs \cup {User}) /\ Len(q) \in Nat \ {0} /\ Len(Tail(q)) = Len(q) - 1
    OBVIOUS
<1>1. rest \subseteq 1 .. Len(q) - 1 /\ \A k \in 1 .. Len(q) - 1 : k \in rest <=> q[k + 1] # User
    BY <1>0 DEF Notices
<1>2. all \subseteq 1 .. Len(q) /\ \A k \in 1 .. Len(q) : k \in all <=> q[k] # User
    BY DEF Notices
<1>3. \A k \in rest : k \in Int /\ k + 1 \in all \ {1}
    BY <1>0, <1>1, <1>2
<1>4. \A k \in all \ {1} : k - 1 \in rest /\ (k - 1) + 1 = k
    BY <1>0, <1>1, <1>2
<1> HIDE DEF rest, all
<1>5. f \in [rest -> all \ {1}]
    BY <1>3
<1>6. f \in Injection(rest, all \ {1})
    BY <1>3, <1>5 DEF Injection, IsInjective
<1>7. f \in Surjection(rest, all \ {1})
    BY <1>4, <1>5 DEF Surjection
<1>8. ExistsBijection(rest, all \ {1})
    BY <1>6, <1>7 DEF ExistsBijection, Bijection
<1>9. IsFiniteSet(rest) /\ IsFiniteSet(all) /\ Cardinality(all) \in Nat /\ Cardinality(rest) \in Nat
    BY <1>0, NoticesFinite DEF rest, all
<1>10. Cardinality(all \ {1}) = Cardinality(rest)
    BY <1>8, <1>9, FS_Bijection
<1>11. Cardinality(all \ {1}) = IF 1 \in all THEN Cardinality(all) - 1 ELSE Cardinality(all)
    BY <1>9, FS_RemoveElement
<1>12. 1 \in all <=> q[1] # User
    BY <1>0, <1>2
<1> QED
    BY <1>9, <1>10, <1>11, <1>12 DEF rest, all

-----------------------------------------------------------------------------
(* Types and the queue.                                                    *)

\* A new process begins with the types in order.
LEMMA NextShapeRestart ==
    ASSUME ShapeOK, StartAgain, troubles' \in 0 .. MaxTroubles
    PROVE  ShapeOK'
<1> USE WakesAssumption DEF ShapeOK
<1>1. todo' \in [Procs -> SUBSET Jobs]
    BY DEF StartAgain
<1>2. pc' \in [Procs -> {"running", "gone", "record", "rest", "find", "grant", "put", "send", "end"}]
      /\ \A p \in Procs : pc'[p] # "put"
    BY DEF StartAgain
<1>3. mode' \in [Procs -> {"locked", "own", "retry"}] /\ way' \in [Procs -> {"wake", "quiet"}]
      /\ cur' \in [Procs -> Jobs \cup {Nobody}]
    BY DEF StartAgain
<1>4. before' \subseteq Jobs /\ held' = {} /\ UNCHANGED logVars
    BY DEF StartAgain
<1>5. agent' = "none" /\ count' = 0 /\ stopped' = FALSE /\ agentMu' = Nobody /\ tracked' = {}
    BY DEF StartAgain
<1>6. count' \in 0 .. Limit
    BY <1>5
<1>7. /\ agent' \in {"none", "idle", "running", "closed"} /\ stopped' \in BOOLEAN
      /\ agentMu' \in Procs \cup {Nobody} /\ tracked' \subseteq Jobs /\ held' \subseteq Procs
    BY <1>4, <1>5
<1>8. /\ done' \in [Jobs -> Nat] /\ receipts' \in [Jobs -> Nat]
      /\ nextTurn' \in Seq(Jobs \cup {User}) /\ quiet' \subseteq Jobs
    BY <1>4
<1> QED
    BY <1>1, <1>2, <1>3, <1>4, <1>6, <1>7, <1>8

\* Every step keeps the types.
LEMMA NextShape == ShapeOK /\ [Next]_vars => ShapeOK'
<1> SUFFICES ASSUME ShapeOK, [Next]_vars PROVE ShapeOK'
    OBVIOUS
<1> USE WakesAssumption DEF ShapeOK
<1>1. ASSUME NEW j \in Jobs, Settle(j) PROVE ShapeOK'
    BY <1>1 DEF Settle
<1>2. ASSUME NEW j \in Jobs, Record(j) PROVE ShapeOK'
    <2>1. done' \in [Jobs -> Nat]
        BY <1>2 DEF Record
    <2>2. PICK l \in {"find", "end"} : pc' = [pc EXCEPT ![j] = l]
        BY <1>2 DEF Record
    <2>3. troubles' \in 0 .. MaxTroubles
        BY <1>2 DEF Record
    <2>4. /\ pc' \in [Procs -> {"running", "gone", "record", "rest", "find", "grant", "put", "send", "end"}]
          /\ \A q \in Procs : pc'[q] = "put" => pc[q] = "put"
        BY <2>2
    <2>5. UNCHANGED <<receipts, nextTurn, quiet, memVars, before, mode, held, todo, cur, way>>
        BY <1>2 DEF Record
    <2> QED
        BY <2>1, <2>3, <2>4, <2>5
<1>3. ASSUME NEW j \in Jobs, ToolReports(j) PROVE ShapeOK'
    BY <1>3 DEF ToolReports
<1>4. ASSUME NEW p \in Procs, Find(p) PROVE ShapeOK'
    BY <1>4 DEF Find, Deliver, Missing
<1>5. ASSUME NEW p \in Procs, Grant(p) PROVE ShapeOK'
    BY <1>5 DEF Grant
<1>6. ASSUME NEW p \in Procs, Put(p) PROVE ShapeOK'
    <2>1. cur[p] \in Jobs
        BY <1>6 DEF Put
    <2>2. receipts' \in [Jobs -> Nat] /\ quiet' \subseteq Jobs /\ done' = done
        <3>1. receipts' = receipts \/ receipts' = [receipts EXCEPT ![cur[p]] = receipts[cur[p]] + 1]
            BY <1>6 DEF Put
        <3>2. quiet' = quiet \/ quiet' = quiet \cup {cur[p]}
            BY <1>6 DEF Put
        <3>3. done' = done
            BY <1>6 DEF Put
        <3>4. receipts' \in [Jobs -> Nat]
            <4>1. cur[p] \in Jobs /\ receipts \in [Jobs -> Nat] /\ receipts[cur[p]] + 1 \in Nat
                BY <2>1
            <4> HIDE DEF ShapeOK
            <4> QED
                BY <3>1, <4>1
        <3>5. quiet' \subseteq Jobs
            BY <2>1, <3>2
        <3> QED
            BY <3>3, <3>4, <3>5
    <2>3. nextTurn' \in Seq(Jobs \cup {User})
        <3>1. nextTurn' = nextTurn \/ nextTurn' = Append(nextTurn, cur[p])
            BY <1>6 DEF Put
        <3>2. cur[p] \in Jobs \cup {User} /\ nextTurn \in Seq(Jobs \cup {User})
            BY <2>1
        <3>3. Append(nextTurn, cur[p]) \in Seq(Jobs \cup {User})
            BY <3>2
        <3> QED
            BY <3>1, <3>2, <3>3
    <2>4. todo' \in [Procs -> SUBSET Jobs]
        <3>1. Missing \in SUBSET Jobs
            BY DEF Missing
        <3>2. PICK js : todo' = [todo EXCEPT ![p] = js] /\ js \in {Missing, todo[p] \ {cur[p]}}
            BY <1>6 DEF Put, NextNotice, Deliver
        <3>3. js \in SUBSET Jobs
            BY <3>1, <3>2
        <3> QED
            BY <3>2, <3>3
    <2>5. mode' \in [Procs -> {"locked", "own", "retry"}] /\ pc' = [pc EXCEPT ![p] = "grant"]
        BY <1>6 DEF Put, NextNotice, Deliver
    <2>6. cur' = [cur EXCEPT ![p] = Nobody] /\ way' = [way EXCEPT ![p] = "quiet"]
          /\ troubles' \in 0 .. MaxTroubles
        BY <1>6 DEF Put
    <2>7. UNCHANGED <<memVars, before, held>>
        BY <1>6 DEF Put
    <2> QED
        BY <2>2, <2>3, <2>4, <2>5, <2>6, <2>7
<1>7. ASSUME NEW p \in Procs, Leave(p) PROVE ShapeOK'
    <2>1. todo' \in [Procs -> SUBSET Jobs]
        <3>1. todo' = todo \/ (p \in Jobs /\ todo' = [todo EXCEPT ![p] = {p}])
            BY <1>7 DEF Leave, Deliver
        <3>2. p \in Jobs => {p} \in SUBSET Jobs
            OBVIOUS
        <3> QED
            BY <3>1, <3>2
    <2>2. mode' \in [Procs -> {"locked", "own", "retry"}]
        BY <1>7 DEF Leave, Deliver
    <2>3. /\ pc' \in [Procs -> {"running", "gone", "record", "rest", "find", "grant", "put", "send", "end"}]
          /\ \A q \in Procs : pc'[q] = "put" => pc[q] = "put"
        <3>1. PICK l \in {"grant", "send", "end"} : pc' = [pc EXCEPT ![p] = l]
            BY <1>7 DEF Leave, Deliver
        <3> QED
            BY <3>1
    <2>4. held' \subseteq Procs /\ agentMu' \in Procs \cup {Nobody}
        BY <1>7 DEF Leave
    <2>5. UNCHANGED <<logVars, agent, count, stopped, tracked, before, cur, way, troubles>>
        BY <1>7 DEF Leave
    <2> QED
        BY <2>1, <2>2, <2>3, <2>4, <2>5
<1>8. ASSUME NEW p \in Procs, Send(p) PROVE ShapeOK'
    BY <1>8 DEF Send, Queued
<1>9. ASSUME NEW p \in Procs, FindRefused(p) PROVE ShapeOK'
    BY <1>9 DEF FindRefused
<1>10. CASE StartTurn
    BY <1>10 DEF StartTurn, Renews
<1>11. CASE ClaimStep
    BY <1>11 DEF ClaimStep
<1>12. CASE EndTurn
    BY <1>12 DEF EndTurn
<1>13. CASE CloseAgent
    BY <1>13 DEF CloseAgent
<1>14. CASE Stop
    BY <1>14 DEF Stop
<1>15. CASE Crash
    BY <1>15, NextShapeRestart DEF Crash
<1>16. CASE Exit
    BY <1>16, NextShapeRestart DEF Exit
<1>17. CASE UNCHANGED vars  BY <1>17 DEF vars
<1> QED
    BY <1>1, <1>2, <1>3, <1>4, <1>5, <1>6, <1>7, <1>8, <1>9, <1>10, <1>11, <1>12,
       <1>13, <1>14, <1>15, <1>16, <1>17
    DEF Next, Serve

\* Every step keeps the ends in the log.
LEMMA NextDone == ShapeOK /\ DoneInv /\ [Next]_vars => DoneInv'
<1> SUFFICES ASSUME ShapeOK, DoneInv, [Next]_vars PROVE DoneInv'
    OBVIOUS
<1> USE WakesAssumption DEF ShapeOK, DoneInv
<1>1. ASSUME NEW j \in Jobs, Settle(j) PROVE DoneInv'
    BY <1>1 DEF Settle
<1>2. ASSUME NEW j \in Jobs, Record(j) PROVE DoneInv'
    <2>1. tracked' = tracked /\ \A i \in Jobs : pc'[i] = "gone" <=> pc[i] = "gone"
        BY <1>2 DEF Record
    <2>2. \A i \in Jobs : done'[i] = done[i] \/ (done[i] = 0 /\ done'[i] = 1)
        BY <1>2 DEF Record
    <2> QED
        BY <2>1, <2>2
<1>3. ASSUME NEW j \in Jobs, ToolReports(j) PROVE DoneInv'
    BY <1>3 DEF ToolReports
<1>4. ASSUME NEW p \in Procs, Find(p) PROVE DoneInv'
    BY <1>4 DEF Find, Deliver, Missing
<1>5. ASSUME NEW p \in Procs, Grant(p) PROVE DoneInv'
    BY <1>5 DEF Grant
<1>6. ASSUME NEW p \in Procs, Put(p) PROVE DoneInv'
    BY <1>6 DEF Put, NextNotice, Deliver, Missing, Pending, Queued
<1>7. ASSUME NEW p \in Procs, Leave(p) PROVE DoneInv'
    BY <1>7 DEF Leave, Deliver
<1>8. ASSUME NEW p \in Procs, Send(p) PROVE DoneInv'
    BY <1>8 DEF Send, Queued
<1>9. ASSUME NEW p \in Procs, FindRefused(p) PROVE DoneInv'
    BY <1>9 DEF FindRefused
<1>10. CASE StartTurn
    BY <1>10 DEF StartTurn, Renews
<1>11. CASE ClaimStep
    BY <1>11 DEF ClaimStep
<1>12. CASE EndTurn
    BY <1>12 DEF EndTurn
<1>13. CASE CloseAgent
    BY <1>13 DEF CloseAgent
<1>14. CASE Stop
    BY <1>14 DEF Stop
<1>15. CASE Crash
    BY <1>15 DEF Crash, StartAgain
<1>16. CASE Exit
    BY <1>16 DEF Exit, StartAgain
<1>17. CASE UNCHANGED vars  BY <1>17 DEF vars
<1> QED
    BY <1>1, <1>2, <1>3, <1>4, <1>5, <1>6, <1>7, <1>8, <1>9, <1>10, <1>11, <1>12,
       <1>13, <1>14, <1>15, <1>16, <1>17
    DEF Next, Serve

\* Every step keeps the notices of the queue apart.
LEMMA NextQueue == ShapeOK /\ QueueInv /\ [Next]_vars => QueueInv'
<1> SUFFICES ASSUME ShapeOK, QueueInv, [Next]_vars PROVE QueueInv'
    OBVIOUS
<1> USE WakesAssumption DEF ShapeOK, QueueInv
<1>1. ASSUME NEW j \in Jobs, Settle(j) PROVE QueueInv'
    BY <1>1 DEF Settle
<1>2. ASSUME NEW j \in Jobs, Record(j) PROVE QueueInv'
    BY <1>2 DEF Record
<1>3. ASSUME NEW j \in Jobs, ToolReports(j) PROVE QueueInv'
    BY <1>3 DEF ToolReports
<1>4. ASSUME NEW p \in Procs, Find(p) PROVE QueueInv'
    BY <1>4 DEF Find, Deliver, Missing
<1>5. ASSUME NEW p \in Procs, Grant(p) PROVE QueueInv'
    BY <1>5 DEF Grant
<1>6. ASSUME NEW p \in Procs, Put(p) PROVE QueueInv'
    <2>1. CASE nextTurn' = nextTurn
        BY <2>1
    <2>2. CASE nextTurn' # nextTurn
        <3>1. nextTurn' = Append(nextTurn, cur[p]) /\ cur[p] \notin Queued /\ cur[p] \in Jobs
            BY <1>6, <2>2 DEF Put, Pending
        <3>2. \A k \in DOMAIN nextTurn : nextTurn[k] # cur[p]
            BY <3>1 DEF Queued
        <3>3. \A k \in DOMAIN nextTurn' :
                 \/ k \in DOMAIN nextTurn /\ nextTurn'[k] = nextTurn[k]
                 \/ k = Len(nextTurn) + 1 /\ nextTurn'[k] = cur[p]
            BY <3>1
        <3> QED
            BY <3>2, <3>3
    <2> QED
        BY <2>1, <2>2
<1>7. ASSUME NEW p \in Procs, Leave(p) PROVE QueueInv'
    BY <1>7 DEF Leave, Deliver
<1>8. ASSUME NEW p \in Procs, Send(p) PROVE QueueInv'
    BY <1>8 DEF Send, Queued
<1>9. ASSUME NEW p \in Procs, FindRefused(p) PROVE QueueInv'
    BY <1>9 DEF FindRefused
<1>10. CASE StartTurn
    BY <1>10 DEF StartTurn, Renews
<1>11. CASE ClaimStep
    BY <1>11 DEF ClaimStep
<1>12. CASE EndTurn
    BY <1>12 DEF EndTurn
<1>13. CASE CloseAgent
    BY <1>13 DEF CloseAgent
<1>14. CASE Stop
    BY <1>14 DEF Stop
<1>15. CASE Crash
    BY <1>15 DEF Crash, StartAgain
<1>16. CASE Exit
    BY <1>16 DEF Exit, StartAgain
<1>17. CASE UNCHANGED vars  BY <1>17 DEF vars
<1> QED
    BY <1>1, <1>2, <1>3, <1>4, <1>5, <1>6, <1>7, <1>8, <1>9, <1>10, <1>11, <1>12,
       <1>13, <1>14, <1>15, <1>16, <1>17
    DEF Next, Serve

\* Every step keeps the notices of an earlier process from being delivered.
LEMMA NextReplay == ShapeOK /\ ReplayInv /\ [Next]_vars => ReplayInv'
<1> SUFFICES ASSUME ShapeOK, ReplayInv, [Next]_vars PROVE ReplayInv'
    OBVIOUS
<1> USE WakesAssumption DEF ShapeOK, ReplayInv
<1>1. ASSUME NEW j \in Jobs, Settle(j) PROVE ReplayInv'
    BY <1>1 DEF Settle
<1>2. ASSUME NEW j \in Jobs, Record(j) PROVE ReplayInv'
    BY <1>2 DEF Record
<1>3. ASSUME NEW j \in Jobs, ToolReports(j) PROVE ReplayInv'
    BY <1>3 DEF ToolReports
<1>4. ASSUME NEW p \in Procs, Find(p) PROVE ReplayInv'
    BY <1>4 DEF Find, Deliver, Missing
<1>5. ASSUME NEW p \in Procs, Grant(p) PROVE ReplayInv'
    BY <1>5 DEF Grant
<1>6. ASSUME NEW p \in Procs, Put(p) PROVE ReplayInv'
    BY <1>6 DEF Put, NextNotice, Deliver, Missing, Pending, Queued
<1>7. ASSUME NEW p \in Procs, Leave(p) PROVE ReplayInv'
    BY <1>7 DEF Leave, Deliver
<1>8. ASSUME NEW p \in Procs, Send(p) PROVE ReplayInv'
    BY <1>8 DEF Send, Queued
<1>9. ASSUME NEW p \in Procs, FindRefused(p) PROVE ReplayInv'
    BY <1>9 DEF FindRefused
<1>10. CASE StartTurn
    BY <1>10 DEF StartTurn, Renews
<1>11. CASE ClaimStep
    BY <1>11 DEF ClaimStep
<1>12. CASE EndTurn
    BY <1>12 DEF EndTurn
<1>13. CASE CloseAgent
    BY <1>13 DEF CloseAgent
<1>14. CASE Stop
    BY <1>14 DEF Stop
<1>15. CASE Crash
    BY <1>15 DEF Crash, StartAgain
<1>16. CASE Exit
    BY <1>16 DEF Exit, StartAgain
<1>17. CASE UNCHANGED vars  BY <1>17 DEF vars
<1> QED
    BY <1>1, <1>2, <1>3, <1>4, <1>5, <1>6, <1>7, <1>8, <1>9, <1>10, <1>11, <1>12,
       <1>13, <1>14, <1>15, <1>16, <1>17
    DEF Next, Serve

-----------------------------------------------------------------------------
(* The budget of wakes.                                                    *)

\* Every step keeps the budget: a grant turns a wake that may still be granted
\* into one that is under way, a turn that a notice starts takes one of these.
LEMMA NextBudget == ShapeOK /\ BudgetInv /\ [Next]_vars => BudgetInv'
<1> SUFFICES ASSUME ShapeOK, BudgetInv, [Next]_vars PROVE BudgetInv'
    OBVIOUS
<1> DEFINE queued == Cardinality(Notices(nextTurn))
           waking == Cardinality(Wakers)
<1>1. /\ IsFiniteSet(Wakers) /\ waking \in Nat /\ queued \in Nat
      /\ Limit \in Nat /\ count \in 0 .. Limit /\ allowance \in Int
      /\ WakesUnderWay(nextTurn) = queued + waking
      /\ allowance >= (Limit - count) + (queued + waking)
    <2>1. queued \in Nat
        BY NoticesFinite DEF ShapeOK
    <2>2. IsFiniteSet(Wakers) /\ waking \in Nat
        BY FS_CardinalityType DEF BudgetInv
    <2>3. WakesUnderWay(nextTurn) = queued + waking
        BY DEF WakesUnderWay, Notices, Wakers
    <2> HIDE DEF queued, waking
    <2> QED
        BY <2>1, <2>2, <2>3, WakesAssumption DEF ShapeOK, BudgetInv
<1>2. ASSUME UNCHANGED <<nextTurn, count, allowance>>, Wakers' = Wakers
      PROVE  BudgetInv'
    BY <1>1, <1>2 DEF BudgetInv, WakesUnderWay, Notices, Wakers
<1>3. ASSUME NEW p \in Procs, Grant(p) PROVE BudgetInv'
    <2>1. UNCHANGED <<nextTurn, allowance>>
        BY <1>3 DEF Grant
    <2>2. CASE way'[p] = "wake"
        <3>1. count' = count + 1
            BY <1>3, <2>2 DEF Grant, ShapeOK
        <3>2. Wakers' = Wakers \cup {p} /\ p \notin Wakers
            BY <1>3, <2>2 DEF Grant, ShapeOK, Wakers
        <3>3. IsFiniteSet(Wakers') /\ Cardinality(Wakers') = waking + 1
            BY <1>1, <3>2, FS_AddElement
        <3>4. WakesUnderWay(nextTurn)' = queued + (waking + 1)
            BY <2>1, <3>3 DEF WakesUnderWay, Notices, Wakers
        <3> HIDE DEF queued, waking
        <3> QED
            BY <1>1, <2>1, <3>1, <3>3, <3>4 DEF BudgetInv
    <2>3. CASE way'[p] # "wake"
        <3>1. count' = count
            BY <1>3, <2>3 DEF Grant, ShapeOK
        <3>2. Wakers' = Wakers
            BY <1>3, <2>3 DEF Grant, ShapeOK, Wakers
        <3> QED
            BY <1>2, <2>1, <3>1, <3>2
    <2> QED
        BY <2>2, <2>3
<1>4. ASSUME NEW p \in Procs, Put(p) PROVE BudgetInv'
    <2>1. count' = count /\ allowance' = allowance
        BY <1>4 DEF Put
    <2>2. Wakers' = Wakers \ {p}
        BY <1>4 DEF Put, NextNotice, Deliver, ShapeOK, Wakers
    <2>3. p \in Wakers <=> way[p] = "wake"
        BY <1>4 DEF Put, Wakers
    <2>4. IsFiniteSet(Wakers')
          /\ Cardinality(Wakers') = IF way[p] = "wake" THEN waking - 1 ELSE waking
        BY <1>1, <2>2, <2>3, FS_RemoveElement
    <2>5. nextTurn' = nextTurn \/ (way[p] = "wake" /\ nextTurn' = Append(nextTurn, cur[p]))
        BY <1>4 DEF Put
    <2>6. cur[p] \in Jobs /\ cur[p] # User
        BY <1>4, WakesAssumption DEF Put, ShapeOK
    <2>7. Cardinality(Notices(nextTurn')) = queued
          \/ (way[p] = "wake" /\ Cardinality(Notices(nextTurn')) = queued + 1)
        BY <2>5, <2>6, NoticesAppend DEF ShapeOK
    <2>8. WakesUnderWay(nextTurn)' = Cardinality(Notices(nextTurn')) + Cardinality(Wakers')
        BY DEF WakesUnderWay, Notices, Wakers
    <2>9. WakesUnderWay(nextTurn)' \in Int /\ WakesUnderWay(nextTurn)' <= queued + waking
        <3> HIDE DEF queued, waking
        <3> QED
            BY <1>1, <2>4, <2>7, <2>8
    <2> HIDE DEF queued, waking
    <2> QED
        BY <1>1, <2>1, <2>4, <2>9 DEF BudgetInv
<1>5. ASSUME NEW p \in Procs, Send(p) PROVE BudgetInv'
    <2>1. count' = count /\ allowance' = allowance
        BY <1>5 DEF Send
    <2>2. Wakers' = Wakers
        BY <1>5 DEF Send, ShapeOK, Wakers
    <2>3. Cardinality(Notices(nextTurn')) = queued
        <3>1. nextTurn' = nextTurn \/ nextTurn' = Append(nextTurn, User)
            BY <1>5 DEF Send
        <3>2. Cardinality(Notices(Append(nextTurn, User))) = queued + 0
            BY NoticesAppend DEF ShapeOK
        <3>3. queued + 0 = queued
            <4> HIDE DEF queued
            <4> QED
                BY <1>1
        <3> QED
            BY <3>1, <3>2, <3>3
    <2>4. WakesUnderWay(nextTurn)' = queued + waking
        BY <2>2, <2>3 DEF WakesUnderWay, Notices, Wakers
    <2> HIDE DEF queued, waking
    <2> QED
        BY <1>1, <2>1, <2>2, <2>4 DEF BudgetInv
<1>6. CASE StartTurn
    <2> DEFINE left == Cardinality(Notices(Tail(nextTurn)))
    <2>1. Wakers' = Wakers /\ nextTurn' = Tail(nextTurn) /\ nextTurn # <<>>
        BY <1>6 DEF StartTurn, Wakers
    <2>2. queued = left + (IF nextTurn[1] = User THEN 0 ELSE 1)
        BY <2>1, NoticesTail DEF ShapeOK
    <2>3. left \in Nat
        <3>1. Tail(nextTurn) \in Seq(Jobs \cup {User})
            BY <2>1 DEF ShapeOK
        <3> QED
            BY <3>1, NoticesFinite
    <2>4. WakesUnderWay(nextTurn)' = left + waking /\ WakesUnderWay(Tail(nextTurn)) = left + waking
        BY <2>1 DEF WakesUnderWay, Notices, Wakers
    <2>5. CASE nextTurn[1] = User
        <3>1. count' = 0 /\ allowance' = Limit + WakesUnderWay(Tail(nextTurn))
            BY <1>6, <2>5 DEF StartTurn, Renews
        <3> HIDE DEF queued, waking, left
        <3> QED
            BY <1>1, <2>1, <2>3, <2>4, <3>1 DEF BudgetInv
    <2>6. CASE nextTurn[1] # User
        <3>1. count' = count /\ allowance' = allowance - 1
            BY <1>6, <2>6 DEF StartTurn, Renews
        <3> HIDE DEF queued, waking, left
        <3> QED
            BY <1>1, <2>1, <2>2, <2>3, <2>4, <2>6, <3>1 DEF BudgetInv
    <2> QED
        BY <2>5, <2>6
<1>7. CASE StartAgain
    <2>1. Wakers' = {}
        BY <1>7, WakesAssumption DEF StartAgain, Wakers
    <2>2. count' = 0 /\ nextTurn' = nextTurn
          /\ allowance' = Limit + Cardinality({k \in DOMAIN nextTurn : nextTurn[k] # User})
        BY <1>7 DEF StartAgain
    <2>3. allowance' = Limit + queued
        BY <2>2 DEF Notices
    <2>4. IsFiniteSet(Wakers') /\ WakesUnderWay(nextTurn)' = queued + 0
        BY <2>1, <2>2, FS_EmptySet DEF WakesUnderWay, Notices, Wakers
    <2> HIDE DEF queued
    <2> QED
        BY <1>1, <2>2, <2>3, <2>4 DEF BudgetInv
<1>8. ASSUME NEW j \in Jobs, Settle(j) PROVE BudgetInv'
    BY <1>8, <1>2 DEF Settle, ShapeOK, Wakers
<1>9. ASSUME NEW j \in Jobs, Record(j) PROVE BudgetInv'
    BY <1>9, <1>2 DEF Record, ShapeOK, Wakers
<1>10. ASSUME NEW j \in Jobs, ToolReports(j) PROVE BudgetInv'
    BY <1>10, <1>2 DEF ToolReports, ShapeOK, Wakers
<1>11. ASSUME NEW p \in Procs, Find(p) PROVE BudgetInv'
    BY <1>11, <1>2 DEF Find, Deliver, Missing, ShapeOK, Wakers
<1>12. ASSUME NEW p \in Procs, Leave(p) PROVE BudgetInv'
    BY <1>12, <1>2 DEF Leave, Deliver, ShapeOK, Wakers
<1>13. ASSUME NEW p \in Procs, FindRefused(p) PROVE BudgetInv'
    BY <1>13, <1>2 DEF FindRefused, ShapeOK, Wakers
<1>14. CASE ClaimStep
    BY <1>14, <1>2 DEF ClaimStep, ShapeOK, Wakers
<1>15. CASE EndTurn
    BY <1>15, <1>2 DEF EndTurn, ShapeOK, Wakers
<1>16. CASE CloseAgent
    BY <1>16, <1>2 DEF CloseAgent, ShapeOK, Wakers
<1>17. CASE Stop
    BY <1>17, <1>2 DEF Stop, ShapeOK, Wakers
<1>18. CASE UNCHANGED vars  BY <1>18, <1>2 DEF vars, Wakers
<1> QED
    BY <1>3, <1>4, <1>5, <1>6, <1>7, <1>8, <1>9, <1>10, <1>11, <1>12, <1>13, <1>14, <1>15, <1>16, <1>17, <1>18
    DEF Next, Serve, Crash, Exit

-----------------------------------------------------------------------------
\* The inductive invariant holds in every reachable state.
LEMMA Inductive == Spec => [](ShapeOK /\ IInv)
<1>1. Init => ShapeOK
    <2> SUFFICES ASSUME Init PROVE ShapeOK
        OBVIOUS
    <2>1. todo \in [Procs -> SUBSET Jobs] /\ cur \in [Procs -> Jobs \cup {Nobody}]
        BY DEF Init
    <2>2. done \in [Jobs -> Nat] /\ receipts \in [Jobs -> Nat] /\ nextTurn \in Seq(Jobs \cup {User})
        BY DEF Init
    <2>3. /\ pc \in [Procs -> {"running", "gone", "record", "rest", "find", "grant", "put", "send", "end"}]
          /\ \A p \in Procs : pc[p] # "put"
        BY DEF Init
    <2>4. mode \in [Procs -> {"locked", "own", "retry"}] /\ way \in [Procs -> {"wake", "quiet"}]
        BY DEF Init
    <2>5. count \in 0 .. Limit /\ troubles \in 0 .. MaxTroubles
        BY WakesAssumption DEF Init
    <2>6. quiet \subseteq Jobs /\ tracked \subseteq Jobs /\ before \subseteq Jobs /\ held \subseteq Procs
          /\ agent = "none" /\ stopped = FALSE /\ agentMu = Nobody
        BY DEF Init
    <2> QED
        BY <2>1, <2>2, <2>3, <2>4, <2>5, <2>6 DEF ShapeOK
<1>2. Init => IInv
    <2> SUFFICES ASSUME Init PROVE IInv
        OBVIOUS
    <2>1. DoneInv /\ QueueInv /\ ReplayInv
        BY DEF Init, DoneInv, QueueInv, ReplayInv
    <2>2. Wakers = {} /\ Notices(nextTurn) = {}
        BY DEF Init, Wakers, Notices
    <2>3. IsFiniteSet(Wakers) /\ WakesUnderWay(nextTurn) = 0
        BY <2>2, FS_EmptySet DEF WakesUnderWay, Notices, Wakers
    <2>4. BudgetInv
        BY <2>3, WakesAssumption DEF Init, BudgetInv
    <2> QED
        BY <2>1, <2>4 DEF IInv
<1>3. ShapeOK /\ IInv /\ [Next]_vars => (ShapeOK /\ IInv)'
    BY NextShape, NextDone, NextQueue, NextReplay, NextBudget DEF IInv
<1> QED
    BY <1>1, <1>2, <1>3, PTL DEF Spec

\* Type correctness; the queue holds a notice at most once.
THEOREM TypeCorrect == Spec => []TypeOK
<1>1. ShapeOK /\ IInv => TypeOK
    <2> SUFFICES ASSUME ShapeOK, IInv PROVE TypeOK
        OBVIOUS
    <2>1. ASSUME NEW j \in Jobs
          PROVE  Cardinality({k \in DOMAIN nextTurn : nextTurn[k] = j}) <= 1
        <3> DEFINE S == {k \in DOMAIN nextTurn : nextTurn[k] = j}
        <3>1. \A k, l \in S : k = l
            BY DEF IInv, QueueInv
        <3>2. CASE S = {}
            BY <3>2, FS_EmptySet
        <3>3. CASE S # {}
            <4>1. PICK k \in S : TRUE
                BY <3>3
            <4>2. S = {k}
                BY <3>1
            <4> HIDE DEF S
            <4>3. Cardinality(S) = 1
                BY <4>2, FS_Singleton
            <4> QED
                BY <4>3 DEF S
        <3> QED
            BY <3>2, <3>3
    <2>2. done \in [Jobs -> 0 .. 2]
        BY DEF IInv, DoneInv, ShapeOK
    <2>3. allowance \in Int
        BY DEF IInv, BudgetInv
    <2> QED
        BY <2>1, <2>2, <2>3 DEF ShapeOK, TypeOK
<1> QED
    BY <1>1, Inductive, PTL

\* Job notices start at most Limit turns in a row beyond the wakes that were
\* under way when a user turn or a restart renewed the budget, whichever of the
\* observer, the repair in sessionAgent and the retry delivers them.
THEOREM WakeBudgetHolds == Spec => []WakeBudget
<1>1. ShapeOK /\ IInv => WakeBudget
    <2> SUFFICES ASSUME ShapeOK, IInv PROVE allowance >= 0
        BY DEF WakeBudget
    <2>1. Cardinality(Notices(nextTurn)) \in Nat /\ Cardinality(Wakers) \in Nat
        BY NoticesFinite, FS_CardinalityType DEF ShapeOK, IInv, BudgetInv
    <2>2. WakesUnderWay(nextTurn) = Cardinality(Notices(nextTurn)) + Cardinality(Wakers)
        BY DEF WakesUnderWay, Notices, Wakers
    <2> HIDE DEF Wakers
    <2> QED
        BY <2>1, <2>2, WakesAssumption DEF ShapeOK, IInv, BudgetInv
<1> QED
    BY <1>1, Inductive, PTL

\* A notice that was inserted before a restart is not inserted again after it,
\* whether it was read or not (recoverJobCompletionWakes).
THEOREM NotReplayedHolds == Spec => NotReplayed
<1> DEFINE Kept == \A j \in before : receipts'[j] = receipts[j]
<1>1. ShapeOK /\ IInv /\ [Next]_vars => [Kept]_vars
    <2> SUFFICES ASSUME ShapeOK, IInv, [Next]_vars, NEW j \in before PROVE receipts'[j] = receipts[j]
        OBVIOUS
    <2>1. ASSUME NEW p \in Procs, Put(p) PROVE receipts'[j] = receipts[j]
        BY <2>1 DEF Put, ShapeOK, IInv, ReplayInv
    <2>2. CASE ~ \E p \in Procs : Put(p)
        BY <2>2
        DEF Next, Serve, vars, Settle, Record, ToolReports, Find, Grant, Leave, Send, FindRefused,
            StartTurn, ClaimStep, EndTurn, CloseAgent, Stop, Crash, Exit, StartAgain
    <2> QED
        BY <2>1, <2>2
<1> QED
    BY <1>1, Inductive, PTL DEF Spec, NotReplayed
=============================================================================
