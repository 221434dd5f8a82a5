----------------------------- MODULE TurnProofs -----------------------------
(***************************************************************************)
(* Proofs about a session's turns. The first part is about Approvals, for  *)
(* any number of askers, answers, sessions and calls of Close, any cap and *)
(* any number of failing appends. The second is about TurnLoop and the     *)
(* history of turns that its log implements, for any number of turns,      *)
(* steps, calls, parallel bodies, retries, cancels, steers, failed         *)
(* appends, crashes and loads; its definitions and lemmas say so by name   *)
(* (log, loop, turn, step, call). The modules share no variable.           *)
(***************************************************************************)
EXTENDS Approvals, TurnLoop, FiniteSetTheorems, WellFoundedInduction, TLAPS

\* An answerer between its snapshot and its return.
Inside(p) == pc[p] \in {"route", "find", "expire", "reread", "found", "note", "append",
                        "rollback", "forget"}

Finding(p) == pc[p] \in {"find", "expire", "reread", "found"}

\* A request exists once its asker has created it, and a finder looks up one
\* that exists; what it has found about it is a status.
FindInv ==
    /\ \A a \in Askers : /\ on[a] = a
                         /\ pc[a] \in {"begin", "admit", "create"} => req[a] = "none"
                         /\ pc[a] \in {"emit", "await"} => req[a] # "none"
    /\ \A p \in Finders : Finding(p) => on[p] \in Askers /\ req[on[p]] # "none"
    /\ \A p \in Finders : pc[p] = "found" => seen[p] # "none"
    /\ \A p \in Sweepers \cup Closers : \A a \in todo[p] : req[a] # "none"

\* The answerer inside holds interactionResolveMu. What it would restore is the
\* request's status still, or "pending" and then no other answer has decided.
AnswerInv ==
    \A p \in Answerers : Inside(p) =>
        /\ resolveMu = p /\ on[p] \in Askers
        /\ before[p] \in Decisions \cup {"pending"}
        /\ before[p] \in Decisions => req[on[p]] = before[p]
        /\ before[p] = "pending" => winner[on[p]] \in {None, p} /\ req[on[p]] # "none"

\* The winner of a request is the answerer whose decision it carries.
WinnerInv ==
    /\ \A a \in Askers : winner[a] # None => req[a] = "answered"
    /\ \A p \in Answerers : pc[p] \in {"note", "append", "won"} =>
          on[p] \in Askers /\ winner[on[p]] = p

\* What an asker has read is the decision, unless that was rolled back.
SeenInv ==
    /\ \A a \in Askers : seen[a] \in Decisions => seen[a] = req[a] \/ a \in restored
    /\ AwaitHonest

\* Who holds the admission mutex.
MutexInv ==
    /\ \A a \in Askers : pc[a] = "create" => requestMu = a
    /\ \A c \in Closers : pc[c] = "closing" => requestMu = c

\* There is room for the request that an admitted asker is about to create.
CapInv ==
    /\ IsFiniteSet(Pending) /\ PendingCap
    /\ \A a \in Askers : pc[a] = "create" => Cardinality(Pending \ restored) < Limit

IInv == FindInv /\ AnswerInv /\ WinnerInv /\ SeenInv /\ MutexInv

USE DEF provVars, muVars, closeVars, findVars, askVars, history, Finders, Procs, Decisions,
        Statuses, Labels, Pending, Goto, Return, Saw, Forget, AppendFails, Resolve,
        AlreadyResolved, Unlock

-----------------------------------------------------------------------------
\* Every step keeps the types.
LEMMA NextType == TypeOK /\ IInv /\ [Next]_vars => TypeOK'
<1> SUFFICES ASSUME TypeOK, IInv, [Next]_vars PROVE TypeOK'
    OBVIOUS
<1> USE ProcsAssumption, OwnerAssumption, LimitAssumption DEF TypeOK
<1>1. ASSUME NEW p \in Finders, FindList(p) PROVE TypeOK'
    <2>1. on[p] \in Askers
        BY <1>1 DEF FindList, IInv, FindInv, Finding
    <2> QED
        BY <1>1, <2>1 DEF FindList
<1>2. ASSUME NEW p \in Finders, FindExpire(p) PROVE TypeOK'
    <2>1. PICK status \in Statuses : req' = [req EXCEPT ![on[p]] = status] \/ req' = req
        BY <1>2 DEF FindExpire, ExpireOne
    <2>2. req' \in [Askers -> Statuses]
        BY <2>1
    <2>3. seen' \in [Finders -> Statuses \cup {"lost", "error"}]
        BY <1>2 DEF FindExpire, ExpireOne
    <2>4. pc' \in [Procs -> Labels] /\ faults' \in 0 .. MaxFaults
        BY <1>2 DEF FindExpire, ExpireOne
    <2> QED
        BY <1>2, <2>2, <2>3, <2>4 DEF FindExpire
<1>3. ASSUME NEW p \in Finders, FindReread(p) PROVE TypeOK'
    <2>1. on[p] \in Askers
        BY <1>3 DEF FindReread, IInv, FindInv, Finding
    <2> QED
        BY <1>3, <2>1 DEF FindReread
<1>4. ASSUME NEW a \in Askers, AskBegin(a) PROVE TypeOK'
    BY <1>4 DEF AskBegin
<1>5. ASSUME NEW a \in Askers, AskAdmit(a) PROVE TypeOK'
    <2>1. CASE provClosed \/ Cardinality(Pending) >= Limit
        BY <1>5, <2>1 DEF AskAdmit, AskLock
    <2>2. CASE ~(provClosed \/ Cardinality(Pending) >= Limit)
        BY <1>5, <2>2 DEF AskAdmit, AskLock
    <2> QED
        BY <2>1, <2>2
<1>6. ASSUME NEW a \in Askers, AskCreate(a) PROVE TypeOK'
    <2>1. req' \in [Askers -> Statuses]
        BY <1>6 DEF AskCreate
    <2>2. pc' \in [Procs -> Labels]
        BY <1>6 DEF AskCreate
    <2>3. result' \in [Askers -> Decisions \cup {"none", "closed", "denied", "refused", "error",
                                               "aborted"}]
        BY <1>6 DEF AskCreate
    <2> QED
        BY <1>6, <2>1, <2>2, <2>3 DEF AskCreate
<1>7. ASSUME NEW a \in Askers, AskEmit(a) PROVE TypeOK'
    BY <1>7 DEF AskEmit, Withdraw
<1>8. ASSUME NEW a \in Askers, AwaitBegin(a) PROVE TypeOK'
    <2>1. CASE closed
        BY <1>8, <2>1 DEF AwaitBegin
    <2>2. CASE ~(closed)
        BY <1>8, <2>2 DEF AwaitBegin
    <2> QED
        BY <2>1, <2>2
<1>9. ASSUME NEW a \in Askers, AwaitFound(a) PROVE TypeOK'
    <2>1. seen[a] # "none"
        BY <1>9 DEF AwaitFound, IInv, FindInv
    <2> QED
        BY <1>9, <2>1 DEF AwaitFound, AwaitOutcome
<1>10. ASSUME NEW a \in Askers, AwaitGiveUp(a) PROVE TypeOK'
    BY <1>10 DEF AwaitGiveUp, Withdraw
<1>11. ASSUME NEW a \in Askers, WithdrawFound(a) PROVE TypeOK'
    BY <1>11 DEF WithdrawFound
<1>12. ASSUME NEW a \in Askers, TimePasses(a) PROVE TypeOK'
    BY <1>12 DEF TimePasses
<1>13. ASSUME NEW p \in Answerers, AnswerBegin(p) PROVE TypeOK'
    <2>1. on' \in [Finders -> Askers \cup {None}]
        BY <1>13 DEF AnswerBegin
    <2>2. req' \in [Askers -> Statuses]
        BY <1>13 DEF AnswerBegin, ListFails, ListForSession, ExpireDue
    <2>3. before' \in [Answerers -> Statuses]
        BY <1>13, <2>2 DEF AnswerBegin
    <2>4. faults' \in 0 .. MaxFaults
        BY <1>13 DEF AnswerBegin, ListFails, ListForSession
    <2>5. pc' \in [Procs -> Labels] /\ resolveMu' \in Answerers \cup {None}
        BY <1>13 DEF AnswerBegin
    <2> QED
        BY <1>13, <2>1, <2>2, <2>3, <2>4, <2>5 DEF AnswerBegin
<1>14. ASSUME NEW p \in Answerers, AnswerRoute(p) PROVE TypeOK'
    BY <1>14 DEF AnswerRoute
<1>15. ASSUME NEW p \in Answerers, AnswerFound(p) PROVE TypeOK'
    <2>1. on[p] \in Askers
        BY <1>15 DEF AnswerFound, IInv, FindInv, Finding
    <2>2. /\ req' = req \/ req' = [req EXCEPT ![on[p]] = "answered"]
          /\ winner' = winner \/ winner' = [winner EXCEPT ![on[p]] = p]
        BY <1>15 DEF AnswerFound
    <2>4. req' \in [Askers -> Statuses] /\ winner' \in [Askers -> Answerers \cup {None}]
        BY <2>1, <2>2
    <2>3. pc' \in [Procs -> Labels] /\ resolveMu' \in Answerers \cup {None}
        BY <1>15 DEF AnswerFound
    <2> QED
        BY <1>15, <2>3, <2>4 DEF AnswerFound
<1>16. ASSUME NEW p \in Answerers, AnswerNote(p) PROVE TypeOK'
    BY <1>16 DEF AnswerNote
<1>17. ASSUME NEW p \in Answerers, AnswerAppend(p) PROVE TypeOK'
    BY <1>17 DEF AnswerAppend
<1>18. ASSUME NEW p \in Answerers, AnswerRollback(p) PROVE TypeOK'
    <2>1. req' \in [Askers -> Statuses]
        BY <1>18 DEF AnswerRollback
    <2>2. winner' \in [Askers -> Answerers \cup {None}]
        BY <1>18 DEF AnswerRollback
    <2>3. restored' \subseteq Askers
        BY <1>18 DEF AnswerRollback, IInv, AnswerInv, Inside
    <2>4. pc' \in [Procs -> Labels] /\ resolveMu' \in Answerers \cup {None}
        BY <1>18 DEF AnswerRollback
    <2> QED
        BY <1>18, <2>1, <2>2, <2>3, <2>4 DEF AnswerRollback
<1>19. ASSUME NEW p \in Answerers, AnswerForget(p) PROVE TypeOK'
    BY <1>19 DEF AnswerForget
<1>20. ASSUME NEW s \in Sweepers, SweepList(s) PROVE TypeOK'
    <2>1. req' \in [Askers -> Statuses]
        BY <1>20 DEF SweepList, ListFails, ListForSession, ExpireDue
    <2>2. todo' \in [Sweepers \cup Closers -> SUBSET Askers]
        <3> DEFINE live == {a \in Pending \ due : Owner[a] = s}
        <3>1. live \in SUBSET Askers
            OBVIOUS
        <3>2. todo' = todo \/ todo' = [todo EXCEPT ![s] = live]
            BY <1>20 DEF SweepList
        <3> HIDE DEF live
        <3> QED
            BY <3>1, <3>2
    <2>3. faults' \in 0 .. MaxFaults
        BY <1>20 DEF SweepList, ListFails, ListForSession
    <2>4. pc' \in [Procs -> Labels]
        BY <1>20 DEF SweepList
    <2> QED
        BY <1>20, <2>1, <2>2, <2>3, <2>4 DEF SweepList
<1>21. ASSUME NEW s \in Sweepers, SweepNext(s) PROVE TypeOK'
    <2>1. on' \in [Finders -> Askers \cup {None}]
        BY <1>21 DEF SweepNext
    <2>2. todo' \in [Sweepers \cup Closers -> SUBSET Askers]
        BY <1>21 DEF SweepNext
    <2>3. pc' \in [Procs -> Labels]
        BY <1>21 DEF SweepNext
    <2> QED
        BY <1>21, <2>1, <2>2, <2>3 DEF SweepNext
<1>22. ASSUME NEW s \in Sweepers, SweepFound(s) PROVE TypeOK'
    <2>1. on' \in [Finders -> Askers \cup {None}]
        BY <1>22 DEF SweepFound
    <2>2. req' \in [Askers -> Statuses]
        BY <1>22 DEF SweepFound
    <2>3. pc' \in [Procs -> Labels]
        BY <1>22 DEF SweepFound
    <2> QED
        BY <1>22, <2>1, <2>2, <2>3 DEF SweepFound
<1>23. ASSUME NEW c \in Closers, CloseBegin(c) PROVE TypeOK'
    <2>1. todo' \in [Sweepers \cup Closers -> SUBSET Askers]
        <3>1. Pending \in SUBSET Askers
            OBVIOUS
        <3>2. todo' = todo \/ todo' = [todo EXCEPT ![c] = Pending]
            BY <1>23 DEF CloseBegin
        <3> HIDE DEF Pending
        <3> QED
            BY <3>1, <3>2
    <2>2. CASE closed  BY <1>23, <2>2 DEF CloseBegin
    <2>3. CASE ~closed  BY <1>23, <2>1, <2>3 DEF CloseBegin
    <2> QED
        BY <2>2, <2>3
<1>24. ASSUME NEW c \in Closers, CloseSweep(c) PROVE TypeOK'
    <2>1. todo' \in [Sweepers \cup Closers -> SUBSET Askers]
        BY <1>24 DEF CloseSweep
    <2>2. req' \in [Askers -> Statuses]
        BY <1>24 DEF CloseSweep
    <2>3. pc' \in [Procs -> Labels] /\ requestMu' \in Askers \cup Closers \cup {None}
        BY <1>24 DEF CloseSweep
    <2> QED
        BY <1>24, <2>1, <2>2, <2>3 DEF CloseSweep
<1>25. ASSUME NEW c \in Closers, CloseRelease(c) PROVE TypeOK'
    BY <1>25 DEF CloseRelease
<1>26. ASSUME NEW c \in Closers, CloseWait(c) PROVE TypeOK'
    BY <1>26 DEF CloseWait
<1>27. CASE UNCHANGED vars  BY <1>27 DEF vars
<1> QED
    BY <1>1, <1>2, <1>3, <1>4, <1>5, <1>6, <1>7, <1>8, <1>9, <1>10, <1>11, <1>12,
       <1>13, <1>14, <1>15, <1>16, <1>17, <1>18, <1>19, <1>20, <1>21, <1>22, <1>23,
       <1>24, <1>25, <1>26, <1>27
    DEF Next, AskStep, AnswerStep, SweepStep, CloseStep, FindStep, Finders

\* Every step keeps the finders at requests that exist.
LEMMA NextFind == TypeOK /\ IInv /\ [Next]_vars => FindInv'
<1> SUFFICES ASSUME TypeOK, IInv, [Next]_vars PROVE FindInv'
    OBVIOUS
<1> USE ProcsAssumption, OwnerAssumption, LimitAssumption
    DEF TypeOK, IInv, FindInv, AnswerInv, Finding, Inside
<1>1. ASSUME NEW p \in Finders, FindList(p) PROVE FindInv'
    <2>1. on' = on /\ req' = req /\ todo' = todo
        BY <1>1 DEF FindList
    <2>2. \A q \in Procs \ {p} : pc'[q] = pc[q]
        BY <1>1 DEF FindList
    <2>3. \A q \in Finders \ {p} : seen'[q] = seen[q]
        BY <1>1 DEF FindList
    <2>4. pc'[p] \in {"expire", "found"} /\ seen'[p] # "none"
        BY <1>1 DEF FindList
    <2> QED
        BY <1>1, <2>1, <2>2, <2>3, <2>4 DEF FindList
<1>2. ASSUME NEW p \in Finders, FindExpire(p) PROVE FindInv'
    BY <1>2 DEF FindExpire, ExpireOne
<1>3. ASSUME NEW p \in Finders, FindReread(p) PROVE FindInv'
    BY <1>3 DEF FindReread
<1>4. ASSUME NEW a \in Askers, AskBegin(a) PROVE FindInv'
    BY <1>4 DEF AskBegin
<1>5. ASSUME NEW a \in Askers, AskAdmit(a) PROVE FindInv'
    BY <1>5 DEF AskAdmit, AskLock
<1>6. ASSUME NEW a \in Askers, AskCreate(a) PROVE FindInv'
    BY <1>6 DEF AskCreate
<1>7. ASSUME NEW a \in Askers, AskEmit(a) PROVE FindInv'
    BY <1>7 DEF AskEmit, Withdraw
<1>8. ASSUME NEW a \in Askers, AwaitBegin(a) PROVE FindInv'
    BY <1>8 DEF AwaitBegin
<1>9. ASSUME NEW a \in Askers, AwaitFound(a) PROVE FindInv'
    BY <1>9 DEF AwaitFound, AwaitOutcome
<1>10. ASSUME NEW a \in Askers, AwaitGiveUp(a) PROVE FindInv'
    BY <1>10 DEF AwaitGiveUp, Withdraw
<1>11. ASSUME NEW a \in Askers, WithdrawFound(a) PROVE FindInv'
    BY <1>11 DEF WithdrawFound
<1>12. ASSUME NEW a \in Askers, TimePasses(a) PROVE FindInv'
    BY <1>12 DEF TimePasses
<1>13. ASSUME NEW p \in Answerers, AnswerBegin(p) PROVE FindInv'
    BY <1>13 DEF AnswerBegin, ListFails, ListForSession, ExpireDue, DueOf
<1>14. ASSUME NEW p \in Answerers, AnswerRoute(p) PROVE FindInv'
    BY <1>14 DEF AnswerRoute
<1>15. ASSUME NEW p \in Answerers, AnswerFound(p) PROVE FindInv'
    BY <1>15 DEF AnswerFound
<1>16. ASSUME NEW p \in Answerers, AnswerNote(p) PROVE FindInv'
    BY <1>16 DEF AnswerNote
<1>17. ASSUME NEW p \in Answerers, AnswerAppend(p) PROVE FindInv'
    BY <1>17 DEF AnswerAppend
<1>18. ASSUME NEW p \in Answerers, AnswerRollback(p) PROVE FindInv'
    BY <1>18 DEF AnswerRollback
<1>19. ASSUME NEW p \in Answerers, AnswerForget(p) PROVE FindInv'
    BY <1>19 DEF AnswerForget
<1>20. ASSUME NEW s \in Sweepers, SweepList(s) PROVE FindInv'
    <2>1. UNCHANGED <<on, seen>>
        BY <1>20 DEF SweepList
    <2>2. \A a \in Askers : req'[a] = "none" <=> req[a] = "none"
        BY <1>20 DEF SweepList, ListFails, ListForSession, ExpireDue, DueOf
    <2>3. \A q \in Procs \ {s} : pc'[q] = pc[q]
        BY <1>20 DEF SweepList
    <2>4. ~Finding(s)' /\ pc'[s] # "found"
        BY <1>20 DEF SweepList
    <2>5. \A q \in Sweepers \cup Closers : \A a \in todo'[q] : a \in todo[q] \/ req[a] # "none"
        BY <1>20 DEF SweepList
    <2>6. \A q \in Sweepers \cup Closers : \A a \in todo'[q] : a \in Askers /\ req'[a] # "none"
        BY <2>2, <2>5, NextType DEF TypeOK
    <2>7. \A p \in Finders : Finding(p)' => on'[p] \in Askers /\ req'[on'[p]] # "none"
        BY <2>1, <2>2, <2>3, <2>4
    <2>8. \A p \in Finders : pc'[p] = "found" => seen'[p] # "none"
        BY <2>1, <2>3, <2>4
    <2>9. \A a \in Askers : /\ on'[a] = a
                            /\ pc'[a] \in {"begin", "admit", "create"} => req'[a] = "none"
                            /\ pc'[a] \in {"emit", "await"} => req'[a] # "none"
        BY <2>1, <2>2, <2>3
    <2> QED
        BY <2>6, <2>7, <2>8, <2>9
<1>21. ASSUME NEW s \in Sweepers, SweepNext(s) PROVE FindInv'
    BY <1>21 DEF SweepNext
<1>22. ASSUME NEW s \in Sweepers, SweepFound(s) PROVE FindInv'
    BY <1>22 DEF SweepFound
<1>23. ASSUME NEW c \in Closers, CloseBegin(c) PROVE FindInv'
    BY <1>23 DEF CloseBegin
<1>24. ASSUME NEW c \in Closers, CloseSweep(c) PROVE FindInv'
    BY <1>24 DEF CloseSweep
<1>25. ASSUME NEW c \in Closers, CloseRelease(c) PROVE FindInv'
    BY <1>25 DEF CloseRelease
<1>26. ASSUME NEW c \in Closers, CloseWait(c) PROVE FindInv'
    BY <1>26 DEF CloseWait
<1>27. CASE UNCHANGED vars  BY <1>27 DEF vars
<1> QED
    BY <1>1, <1>2, <1>3, <1>4, <1>5, <1>6, <1>7, <1>8, <1>9, <1>10, <1>11, <1>12,
       <1>13, <1>14, <1>15, <1>16, <1>17, <1>18, <1>19, <1>20, <1>21, <1>22, <1>23,
       <1>24, <1>25, <1>26, <1>27
    DEF Next, AskStep, AnswerStep, SweepStep, CloseStep, FindStep, Finders

\* Every step keeps what an answerer would restore in order.
LEMMA NextAnswer == TypeOK /\ IInv /\ [Next]_vars => AnswerInv'
<1> SUFFICES ASSUME TypeOK, IInv, [Next]_vars PROVE AnswerInv'
    OBVIOUS
<1> USE ProcsAssumption, OwnerAssumption, LimitAssumption
    DEF TypeOK, IInv, FindInv, AnswerInv, WinnerInv, Finding, Inside
<1>1. ASSUME NEW p \in Finders, FindList(p) PROVE AnswerInv'
    BY <1>1 DEF FindList
<1>2. ASSUME NEW p \in Finders, FindExpire(p) PROVE AnswerInv'
    BY <1>2 DEF FindExpire, ExpireOne
<1>3. ASSUME NEW p \in Finders, FindReread(p) PROVE AnswerInv'
    BY <1>3 DEF FindReread
<1>4. ASSUME NEW a \in Askers, AskBegin(a) PROVE AnswerInv'
    BY <1>4 DEF AskBegin
<1>5. ASSUME NEW a \in Askers, AskAdmit(a) PROVE AnswerInv'
    BY <1>5 DEF AskAdmit, AskLock
<1>6. ASSUME NEW a \in Askers, AskCreate(a) PROVE AnswerInv'
    BY <1>6 DEF AskCreate
<1>7. ASSUME NEW a \in Askers, AskEmit(a) PROVE AnswerInv'
    BY <1>7 DEF AskEmit, Withdraw
<1>8. ASSUME NEW a \in Askers, AwaitBegin(a) PROVE AnswerInv'
    BY <1>8 DEF AwaitBegin
<1>9. ASSUME NEW a \in Askers, AwaitFound(a) PROVE AnswerInv'
    BY <1>9 DEF AwaitFound, AwaitOutcome
<1>10. ASSUME NEW a \in Askers, AwaitGiveUp(a) PROVE AnswerInv'
    BY <1>10 DEF AwaitGiveUp, Withdraw
<1>11. ASSUME NEW a \in Askers, WithdrawFound(a) PROVE AnswerInv'
    BY <1>11 DEF WithdrawFound
<1>12. ASSUME NEW a \in Askers, TimePasses(a) PROVE AnswerInv'
    BY <1>12 DEF TimePasses
<1>13. ASSUME NEW p \in Answerers, AnswerBegin(p) PROVE AnswerInv'
    BY <1>13 DEF AnswerBegin, ListFails, ListForSession, ExpireDue, DueOf
<1>14. ASSUME NEW p \in Answerers, AnswerRoute(p) PROVE AnswerInv'
    BY <1>14 DEF AnswerRoute
<1>15. ASSUME NEW p \in Answerers, AnswerFound(p) PROVE AnswerInv'
    BY <1>15 DEF AnswerFound
<1>16. ASSUME NEW p \in Answerers, AnswerNote(p) PROVE AnswerInv'
    BY <1>16 DEF AnswerNote
<1>17. ASSUME NEW p \in Answerers, AnswerAppend(p) PROVE AnswerInv'
    BY <1>17 DEF AnswerAppend
<1>18. ASSUME NEW p \in Answerers, AnswerRollback(p) PROVE AnswerInv'
    BY <1>18 DEF AnswerRollback
<1>19. ASSUME NEW p \in Answerers, AnswerForget(p) PROVE AnswerInv'
    BY <1>19 DEF AnswerForget
<1>20. ASSUME NEW s \in Sweepers, SweepList(s) PROVE AnswerInv'
    BY <1>20 DEF SweepList, ListFails, ListForSession, ExpireDue, DueOf
<1>21. ASSUME NEW s \in Sweepers, SweepNext(s) PROVE AnswerInv'
    BY <1>21 DEF SweepNext
<1>22. ASSUME NEW s \in Sweepers, SweepFound(s) PROVE AnswerInv'
    BY <1>22 DEF SweepFound
<1>23. ASSUME NEW c \in Closers, CloseBegin(c) PROVE AnswerInv'
    BY <1>23 DEF CloseBegin
<1>24. ASSUME NEW c \in Closers, CloseSweep(c) PROVE AnswerInv'
    BY <1>24 DEF CloseSweep
<1>25. ASSUME NEW c \in Closers, CloseRelease(c) PROVE AnswerInv'
    BY <1>25 DEF CloseRelease
<1>26. ASSUME NEW c \in Closers, CloseWait(c) PROVE AnswerInv'
    BY <1>26 DEF CloseWait
<1>27. CASE UNCHANGED vars  BY <1>27 DEF vars
<1> QED
    BY <1>1, <1>2, <1>3, <1>4, <1>5, <1>6, <1>7, <1>8, <1>9, <1>10, <1>11, <1>12,
       <1>13, <1>14, <1>15, <1>16, <1>17, <1>18, <1>19, <1>20, <1>21, <1>22, <1>23,
       <1>24, <1>25, <1>26, <1>27
    DEF Next, AskStep, AnswerStep, SweepStep, CloseStep, FindStep, Finders

\* Every step keeps the winner of a request in order.
LEMMA NextWinner == TypeOK /\ IInv /\ [Next]_vars => WinnerInv'
<1> SUFFICES ASSUME TypeOK, IInv, [Next]_vars PROVE WinnerInv'
    OBVIOUS
<1> USE ProcsAssumption, OwnerAssumption, LimitAssumption
    DEF TypeOK, IInv, FindInv, AnswerInv, WinnerInv, Finding, Inside
<1>1. ASSUME NEW p \in Finders, FindList(p) PROVE WinnerInv'
    BY <1>1 DEF FindList
<1>2. ASSUME NEW p \in Finders, FindExpire(p) PROVE WinnerInv'
    BY <1>2 DEF FindExpire, ExpireOne
<1>3. ASSUME NEW p \in Finders, FindReread(p) PROVE WinnerInv'
    BY <1>3 DEF FindReread
<1>4. ASSUME NEW a \in Askers, AskBegin(a) PROVE WinnerInv'
    BY <1>4 DEF AskBegin
<1>5. ASSUME NEW a \in Askers, AskAdmit(a) PROVE WinnerInv'
    BY <1>5 DEF AskAdmit, AskLock
<1>6. ASSUME NEW a \in Askers, AskCreate(a) PROVE WinnerInv'
    BY <1>6 DEF AskCreate
<1>7. ASSUME NEW a \in Askers, AskEmit(a) PROVE WinnerInv'
    BY <1>7 DEF AskEmit, Withdraw
<1>8. ASSUME NEW a \in Askers, AwaitBegin(a) PROVE WinnerInv'
    BY <1>8 DEF AwaitBegin
<1>9. ASSUME NEW a \in Askers, AwaitFound(a) PROVE WinnerInv'
    BY <1>9 DEF AwaitFound, AwaitOutcome
<1>10. ASSUME NEW a \in Askers, AwaitGiveUp(a) PROVE WinnerInv'
    BY <1>10 DEF AwaitGiveUp, Withdraw
<1>11. ASSUME NEW a \in Askers, WithdrawFound(a) PROVE WinnerInv'
    BY <1>11 DEF WithdrawFound
<1>12. ASSUME NEW a \in Askers, TimePasses(a) PROVE WinnerInv'
    BY <1>12 DEF TimePasses
<1>13. ASSUME NEW p \in Answerers, AnswerBegin(p) PROVE WinnerInv'
    BY <1>13 DEF AnswerBegin, ListFails, ListForSession, ExpireDue, DueOf
<1>14. ASSUME NEW p \in Answerers, AnswerRoute(p) PROVE WinnerInv'
    BY <1>14 DEF AnswerRoute
<1>15. ASSUME NEW p \in Answerers, AnswerFound(p) PROVE WinnerInv'
    BY <1>15 DEF AnswerFound
<1>16. ASSUME NEW p \in Answerers, AnswerNote(p) PROVE WinnerInv'
    BY <1>16 DEF AnswerNote
<1>17. ASSUME NEW p \in Answerers, AnswerAppend(p) PROVE WinnerInv'
    BY <1>17 DEF AnswerAppend
<1>18. ASSUME NEW p \in Answerers, AnswerRollback(p) PROVE WinnerInv'
    BY <1>18 DEF AnswerRollback
<1>19. ASSUME NEW p \in Answerers, AnswerForget(p) PROVE WinnerInv'
    BY <1>19 DEF AnswerForget
<1>20. ASSUME NEW s \in Sweepers, SweepList(s) PROVE WinnerInv'
    BY <1>20 DEF SweepList, ListFails, ListForSession, ExpireDue, DueOf
<1>21. ASSUME NEW s \in Sweepers, SweepNext(s) PROVE WinnerInv'
    BY <1>21 DEF SweepNext
<1>22. ASSUME NEW s \in Sweepers, SweepFound(s) PROVE WinnerInv'
    BY <1>22 DEF SweepFound
<1>23. ASSUME NEW c \in Closers, CloseBegin(c) PROVE WinnerInv'
    BY <1>23 DEF CloseBegin
<1>24. ASSUME NEW c \in Closers, CloseSweep(c) PROVE WinnerInv'
    BY <1>24 DEF CloseSweep
<1>25. ASSUME NEW c \in Closers, CloseRelease(c) PROVE WinnerInv'
    BY <1>25 DEF CloseRelease
<1>26. ASSUME NEW c \in Closers, CloseWait(c) PROVE WinnerInv'
    BY <1>26 DEF CloseWait
<1>27. CASE UNCHANGED vars  BY <1>27 DEF vars
<1> QED
    BY <1>1, <1>2, <1>3, <1>4, <1>5, <1>6, <1>7, <1>8, <1>9, <1>10, <1>11, <1>12,
       <1>13, <1>14, <1>15, <1>16, <1>17, <1>18, <1>19, <1>20, <1>21, <1>22, <1>23,
       <1>24, <1>25, <1>26, <1>27
    DEF Next, AskStep, AnswerStep, SweepStep, CloseStep, FindStep, Finders

\* Every step keeps what an asker has read in order.
LEMMA NextSeen == TypeOK /\ IInv /\ [Next]_vars => SeenInv'
<1> SUFFICES ASSUME TypeOK, IInv, [Next]_vars PROVE SeenInv'
    OBVIOUS
<1> USE ProcsAssumption, OwnerAssumption, LimitAssumption
    DEF TypeOK, IInv, FindInv, AnswerInv, WinnerInv, SeenInv, AwaitHonest, Finding,
        Inside
<1>1. ASSUME NEW p \in Finders, FindList(p) PROVE SeenInv'
    BY <1>1 DEF FindList
<1>2. ASSUME NEW p \in Finders, FindExpire(p) PROVE SeenInv'
    BY <1>2 DEF FindExpire, ExpireOne
<1>3. ASSUME NEW p \in Finders, FindReread(p) PROVE SeenInv'
    BY <1>3 DEF FindReread
<1>4. ASSUME NEW a \in Askers, AskBegin(a) PROVE SeenInv'
    BY <1>4 DEF AskBegin
<1>5. ASSUME NEW a \in Askers, AskAdmit(a) PROVE SeenInv'
    BY <1>5 DEF AskAdmit, AskLock
<1>6. ASSUME NEW a \in Askers, AskCreate(a) PROVE SeenInv'
    BY <1>6 DEF AskCreate
<1>7. ASSUME NEW a \in Askers, AskEmit(a) PROVE SeenInv'
    BY <1>7 DEF AskEmit, Withdraw
<1>8. ASSUME NEW a \in Askers, AwaitBegin(a) PROVE SeenInv'
    BY <1>8 DEF AwaitBegin
<1>9. ASSUME NEW a \in Askers, AwaitFound(a) PROVE SeenInv'
    BY <1>9 DEF AwaitFound, AwaitOutcome
<1>10. ASSUME NEW a \in Askers, AwaitGiveUp(a) PROVE SeenInv'
    BY <1>10 DEF AwaitGiveUp, Withdraw
<1>11. ASSUME NEW a \in Askers, WithdrawFound(a) PROVE SeenInv'
    BY <1>11 DEF WithdrawFound
<1>12. ASSUME NEW a \in Askers, TimePasses(a) PROVE SeenInv'
    BY <1>12 DEF TimePasses
<1>13. ASSUME NEW p \in Answerers, AnswerBegin(p) PROVE SeenInv'
    BY <1>13 DEF AnswerBegin, ListFails, ListForSession, ExpireDue, DueOf
<1>14. ASSUME NEW p \in Answerers, AnswerRoute(p) PROVE SeenInv'
    BY <1>14 DEF AnswerRoute
<1>15. ASSUME NEW p \in Answerers, AnswerFound(p) PROVE SeenInv'
    BY <1>15 DEF AnswerFound
<1>16. ASSUME NEW p \in Answerers, AnswerNote(p) PROVE SeenInv'
    BY <1>16 DEF AnswerNote
<1>17. ASSUME NEW p \in Answerers, AnswerAppend(p) PROVE SeenInv'
    BY <1>17 DEF AnswerAppend
<1>18. ASSUME NEW p \in Answerers, AnswerRollback(p) PROVE SeenInv'
    BY <1>18 DEF AnswerRollback
<1>19. ASSUME NEW p \in Answerers, AnswerForget(p) PROVE SeenInv'
    BY <1>19 DEF AnswerForget
<1>20. ASSUME NEW s \in Sweepers, SweepList(s) PROVE SeenInv'
    BY <1>20 DEF SweepList, ListFails, ListForSession, ExpireDue, DueOf
<1>21. ASSUME NEW s \in Sweepers, SweepNext(s) PROVE SeenInv'
    BY <1>21 DEF SweepNext
<1>22. ASSUME NEW s \in Sweepers, SweepFound(s) PROVE SeenInv'
    BY <1>22 DEF SweepFound
<1>23. ASSUME NEW c \in Closers, CloseBegin(c) PROVE SeenInv'
    BY <1>23 DEF CloseBegin
<1>24. ASSUME NEW c \in Closers, CloseSweep(c) PROVE SeenInv'
    BY <1>24 DEF CloseSweep
<1>25. ASSUME NEW c \in Closers, CloseRelease(c) PROVE SeenInv'
    BY <1>25 DEF CloseRelease
<1>26. ASSUME NEW c \in Closers, CloseWait(c) PROVE SeenInv'
    BY <1>26 DEF CloseWait
<1>27. CASE UNCHANGED vars  BY <1>27 DEF vars
<1> QED
    BY <1>1, <1>2, <1>3, <1>4, <1>5, <1>6, <1>7, <1>8, <1>9, <1>10, <1>11, <1>12,
       <1>13, <1>14, <1>15, <1>16, <1>17, <1>18, <1>19, <1>20, <1>21, <1>22, <1>23,
       <1>24, <1>25, <1>26, <1>27
    DEF Next, AskStep, AnswerStep, SweepStep, CloseStep, FindStep, Finders

\* Every step keeps the admission mutex with who took it.
LEMMA NextMutex == TypeOK /\ IInv /\ [Next]_vars => MutexInv'
<1> SUFFICES ASSUME TypeOK, IInv, [Next]_vars PROVE MutexInv'
    OBVIOUS
<1> USE ProcsAssumption, OwnerAssumption, LimitAssumption DEF TypeOK, IInv, MutexInv
<1>1. ASSUME NEW p \in Finders, FindList(p) PROVE MutexInv'
    BY <1>1 DEF FindList
<1>2. ASSUME NEW p \in Finders, FindExpire(p) PROVE MutexInv'
    BY <1>2 DEF FindExpire, ExpireOne
<1>3. ASSUME NEW p \in Finders, FindReread(p) PROVE MutexInv'
    BY <1>3 DEF FindReread
<1>4. ASSUME NEW a \in Askers, AskBegin(a) PROVE MutexInv'
    BY <1>4 DEF AskBegin
<1>5. ASSUME NEW a \in Askers, AskAdmit(a) PROVE MutexInv'
    BY <1>5 DEF AskAdmit, AskLock
<1>6. ASSUME NEW a \in Askers, AskCreate(a) PROVE MutexInv'
    BY <1>6 DEF AskCreate
<1>7. ASSUME NEW a \in Askers, AskEmit(a) PROVE MutexInv'
    BY <1>7 DEF AskEmit, Withdraw
<1>8. ASSUME NEW a \in Askers, AwaitBegin(a) PROVE MutexInv'
    BY <1>8 DEF AwaitBegin
<1>9. ASSUME NEW a \in Askers, AwaitFound(a) PROVE MutexInv'
    BY <1>9 DEF AwaitFound, AwaitOutcome
<1>10. ASSUME NEW a \in Askers, AwaitGiveUp(a) PROVE MutexInv'
    BY <1>10 DEF AwaitGiveUp, Withdraw
<1>11. ASSUME NEW a \in Askers, WithdrawFound(a) PROVE MutexInv'
    BY <1>11 DEF WithdrawFound
<1>12. ASSUME NEW a \in Askers, TimePasses(a) PROVE MutexInv'
    BY <1>12 DEF TimePasses
<1>13. ASSUME NEW p \in Answerers, AnswerBegin(p) PROVE MutexInv'
    BY <1>13 DEF AnswerBegin, ListFails, ListForSession, ExpireDue, DueOf
<1>14. ASSUME NEW p \in Answerers, AnswerRoute(p) PROVE MutexInv'
    BY <1>14 DEF AnswerRoute
<1>15. ASSUME NEW p \in Answerers, AnswerFound(p) PROVE MutexInv'
    BY <1>15 DEF AnswerFound
<1>16. ASSUME NEW p \in Answerers, AnswerNote(p) PROVE MutexInv'
    BY <1>16 DEF AnswerNote
<1>17. ASSUME NEW p \in Answerers, AnswerAppend(p) PROVE MutexInv'
    BY <1>17 DEF AnswerAppend
<1>18. ASSUME NEW p \in Answerers, AnswerRollback(p) PROVE MutexInv'
    BY <1>18 DEF AnswerRollback
<1>19. ASSUME NEW p \in Answerers, AnswerForget(p) PROVE MutexInv'
    BY <1>19 DEF AnswerForget
<1>20. ASSUME NEW s \in Sweepers, SweepList(s) PROVE MutexInv'
    BY <1>20 DEF SweepList, ListFails, ListForSession, ExpireDue, DueOf
<1>21. ASSUME NEW s \in Sweepers, SweepNext(s) PROVE MutexInv'
    BY <1>21 DEF SweepNext
<1>22. ASSUME NEW s \in Sweepers, SweepFound(s) PROVE MutexInv'
    BY <1>22 DEF SweepFound
<1>23. ASSUME NEW c \in Closers, CloseBegin(c) PROVE MutexInv'
    BY <1>23 DEF CloseBegin
<1>24. ASSUME NEW c \in Closers, CloseSweep(c) PROVE MutexInv'
    BY <1>24 DEF CloseSweep
<1>25. ASSUME NEW c \in Closers, CloseRelease(c) PROVE MutexInv'
    BY <1>25 DEF CloseRelease
<1>26. ASSUME NEW c \in Closers, CloseWait(c) PROVE MutexInv'
    BY <1>26 DEF CloseWait
<1>27. CASE UNCHANGED vars  BY <1>27 DEF vars
<1> QED
    BY <1>1, <1>2, <1>3, <1>4, <1>5, <1>6, <1>7, <1>8, <1>9, <1>10, <1>11, <1>12,
       <1>13, <1>14, <1>15, <1>16, <1>17, <1>18, <1>19, <1>20, <1>21, <1>22, <1>23,
       <1>24, <1>25, <1>26, <1>27
    DEF Next, AskStep, AnswerStep, SweepStep, CloseStep, FindStep, Finders

-----------------------------------------------------------------------------
(* The pending cap.                                                        *)

\* A step that neither adds to the pending requests nor admits an asker.
Quiet ==
    /\ Pending' \subseteq Pending /\ restored' = restored
    /\ \A a \in Askers : pc'[a] = "create" => pc[a] = "create"

\* Every step but an admission, a creation and a rollback is one.
LEMMA MostlyQuiet ==
    ASSUME TypeOK, IInv, [Next]_vars,
           ~ \E a \in Askers : AskAdmit(a) \/ AskCreate(a),
           ~ \E p \in Answerers : AnswerRollback(p)
    PROVE  Quiet
<1> USE ProcsAssumption, OwnerAssumption, LimitAssumption DEF TypeOK, IInv, FindInv, AnswerInv, Quiet, Inside, Finding
<1>1. ASSUME NEW p \in Finders, FindList(p) PROVE Quiet
    BY <1>1 DEF FindList
<1>2. ASSUME NEW p \in Finders, FindExpire(p) PROVE Quiet
    BY <1>2 DEF FindExpire, ExpireOne
<1>3. ASSUME NEW p \in Finders, FindReread(p) PROVE Quiet
    BY <1>3 DEF FindReread
<1>4. ASSUME NEW a \in Askers, AskBegin(a) PROVE Quiet
    BY <1>4 DEF AskBegin
<1>5. ASSUME NEW a \in Askers, AskEmit(a) PROVE Quiet
    BY <1>5 DEF AskEmit, Withdraw
<1>6. ASSUME NEW a \in Askers, AwaitBegin(a) PROVE Quiet
    BY <1>6 DEF AwaitBegin
<1>7. ASSUME NEW a \in Askers, AwaitFound(a) PROVE Quiet
    BY <1>7 DEF AwaitFound, AwaitOutcome
<1>8. ASSUME NEW a \in Askers, AwaitGiveUp(a) PROVE Quiet
    BY <1>8 DEF AwaitGiveUp, Withdraw
<1>9. ASSUME NEW a \in Askers, WithdrawFound(a) PROVE Quiet
    BY <1>9 DEF WithdrawFound
<1>10. ASSUME NEW a \in Askers, TimePasses(a) PROVE Quiet
    BY <1>10 DEF TimePasses
<1>11. ASSUME NEW p \in Answerers, AnswerBegin(p) PROVE Quiet
    BY <1>11 DEF AnswerBegin, ListFails, ListForSession, ExpireDue, DueOf
<1>12. ASSUME NEW p \in Answerers, AnswerRoute(p) PROVE Quiet
    BY <1>12 DEF AnswerRoute
<1>13. ASSUME NEW p \in Answerers, AnswerFound(p) PROVE Quiet
    BY <1>13 DEF AnswerFound
<1>14. ASSUME NEW p \in Answerers, AnswerNote(p) PROVE Quiet
    BY <1>14 DEF AnswerNote
<1>15. ASSUME NEW p \in Answerers, AnswerAppend(p) PROVE Quiet
    BY <1>15 DEF AnswerAppend
<1>16. ASSUME NEW p \in Answerers, AnswerForget(p) PROVE Quiet
    BY <1>16 DEF AnswerForget
<1>17. ASSUME NEW s \in Sweepers, SweepList(s) PROVE Quiet
    BY <1>17 DEF SweepList, ListFails, ListForSession, ExpireDue, DueOf
<1>18. ASSUME NEW s \in Sweepers, SweepNext(s) PROVE Quiet
    BY <1>18 DEF SweepNext
<1>19. ASSUME NEW s \in Sweepers, SweepFound(s) PROVE Quiet
    BY <1>19 DEF SweepFound
<1>20. ASSUME NEW c \in Closers, CloseBegin(c) PROVE Quiet
    BY <1>20 DEF CloseBegin
<1>21. ASSUME NEW c \in Closers, CloseSweep(c) PROVE Quiet
    BY <1>21 DEF CloseSweep
<1>22. ASSUME NEW c \in Closers, CloseRelease(c) PROVE Quiet
    BY <1>22 DEF CloseRelease
<1>23. ASSUME NEW c \in Closers, CloseWait(c) PROVE Quiet
    BY <1>23 DEF CloseWait
<1>24. CASE UNCHANGED vars  BY <1>24 DEF vars
<1> QED
    BY <1>1, <1>2, <1>3, <1>4, <1>5, <1>6, <1>7, <1>8, <1>9, <1>10, <1>11, <1>12,
       <1>13, <1>14, <1>15, <1>16, <1>17, <1>18, <1>19, <1>20, <1>21, <1>22, <1>23,
       <1>24
    DEF Next, AskStep, AnswerStep, SweepStep, CloseStep, FindStep, Finders

\* A set that is no larger keeps the cap.
LEMMA SmallerStays ==
    ASSUME NEW S, IsFiniteSet(S), NEW R, R \subseteq S
    PROVE  /\ IsFiniteSet(R) /\ Cardinality(R) <= Cardinality(S)
           /\ Cardinality(R) \in Nat /\ Cardinality(S) \in Nat
BY FS_Subset, FS_CardinalityType

\* Every step keeps the cap. The count that admits an asker is not stale when
\* it creates its request: the mutex keeps the others from creating one.
LEMMA NextCap == TypeOK /\ IInv /\ CapInv /\ [Next]_vars => CapInv'
<1> SUFFICES ASSUME TypeOK, IInv, CapInv, [Next]_vars PROVE CapInv'
    OBVIOUS
<1> DEFINE Counted == Pending \ restored
<1>1. IsFiniteSet(Pending) /\ IsFiniteSet(Counted) /\ Cardinality(Counted) <= Limit
      /\ Cardinality(Counted) \in Nat /\ Cardinality(Counted) <= Cardinality(Pending)
      /\ Cardinality(Pending) \in Nat
    <2>1. IsFiniteSet(Pending) /\ Counted \subseteq Pending /\ Cardinality(Counted) <= Limit
        BY DEF CapInv, PendingCap
    <2> HIDE DEF Pending, Counted
    <2> QED
        BY <2>1, SmallerStays
<1>2. ASSUME Counted' \subseteq Counted, NEW b, Pending' \subseteq Pending \cup {b},
             \A a \in Askers : pc'[a] = "create" => Cardinality(Counted) < Limit
      PROVE  CapInv'
    <2>1. Cardinality(Counted') <= Cardinality(Counted) /\ Cardinality(Counted') \in Nat
        <3> HIDE DEF Counted
        <3> QED
            BY <1>1, <1>2, SmallerStays
    <2>2. IsFiniteSet(Pending')
        <3> HIDE DEF Pending
        <3>1. IsFiniteSet(Pending \cup {b})
            BY <1>1, FS_AddElement
        <3> QED
            BY <1>2, <3>1, SmallerStays
    <2>3. Cardinality(Counted') <= Limit
          /\ \A a \in Askers : pc'[a] = "create" => Cardinality(Counted') < Limit
        <3> HIDE DEF Counted
        <3> QED
            BY <1>1, <1>2, <2>1, LimitAssumption
    <2> QED
        BY <2>2, <2>3 DEF CapInv, PendingCap
<1>3. ASSUME NEW a \in Askers, AskCreate(a) PROVE CapInv'
    <2>1. Counted' \subseteq Counted \cup {a} /\ Pending' \subseteq Pending \cup {a}
        BY <1>3 DEF AskCreate, TypeOK
    <2>2. \A c \in Askers : pc'[c] # "create"
        BY <1>3, ProcsAssumption DEF AskCreate, TypeOK, IInv, MutexInv
    <2>3. Cardinality(Counted) < Limit
        BY <1>3 DEF AskCreate, CapInv
    <2>4. IsFiniteSet(Pending \cup {a}) /\ IsFiniteSet(Counted \cup {a})
          /\ Cardinality(Counted \cup {a}) <= Cardinality(Counted) + 1
        <3> HIDE DEF Pending, Counted
        <3>1. IsFiniteSet(Pending \cup {a})
            BY <1>1, FS_AddElement
        <3>2. IsFiniteSet(Counted \cup {a})
              /\ (Cardinality(Counted \cup {a}) = Cardinality(Counted)
                  \/ Cardinality(Counted \cup {a}) = Cardinality(Counted) + 1)
            BY <1>1, FS_AddElement
        <3> QED
            BY <1>1, <3>1, <3>2
    <2>5. IsFiniteSet(Pending') /\ Cardinality(Counted') <= Limit
        <3> HIDE DEF Pending, Counted
        <3>1. IsFiniteSet(Pending')
            BY <2>1, <2>4, SmallerStays
        <3>2. Cardinality(Counted') <= Cardinality(Counted \cup {a})
              /\ Cardinality(Counted') \in Nat /\ Cardinality(Counted \cup {a}) \in Nat
            BY <2>1, <2>4, SmallerStays
        <3> QED
            BY <1>1, <2>3, <2>4, <3>1, <3>2, LimitAssumption
    <2> QED
        BY <2>2, <2>5 DEF CapInv, PendingCap
<1>4. ASSUME NEW a \in Askers, AskAdmit(a) PROVE CapInv'
    <2>1. Counted' = Counted /\ Pending' = Pending
        BY <1>4 DEF AskAdmit
    <2>2. \A b \in Askers : pc'[b] = "create" => Cardinality(Counted) < Limit
        <3>1. CASE Cardinality(Pending) < Limit
            <4> HIDE DEF Pending, Counted
            <4> QED
                BY <1>1, <3>1, LimitAssumption
        <3>2. CASE ~(Cardinality(Pending) < Limit)
            <4>1. Cardinality(Pending) >= Limit
                BY <1>1, <3>2, LimitAssumption
            <4>2. pc' = [pc EXCEPT ![a] = "returned"]
                BY <1>4, <4>1 DEF AskAdmit
            <4> QED
                BY <4>2 DEF TypeOK, CapInv
        <3> QED
            BY <3>1, <3>2
    <2> QED
        BY <1>2, <2>1, <2>2
<1>5. ASSUME NEW p \in Answerers, AnswerRollback(p) PROVE CapInv'
    <2>1. Counted' \subseteq Counted /\ Pending' \subseteq Pending \cup {on[p]}
        BY <1>5 DEF AnswerRollback, TypeOK
    <2>2. \A b \in Askers : pc'[b] = "create" => pc[b] = "create"
        BY <1>5 DEF AnswerRollback, TypeOK
    <2> QED
        BY <1>2, <2>1, <2>2 DEF CapInv
<1>6. CASE Quiet
    <2>1. Counted' \subseteq Counted /\ Pending' \subseteq Pending \cup {None}
        BY <1>6 DEF Quiet
    <2>2. \A b \in Askers : pc'[b] = "create" => Cardinality(Counted) < Limit
        BY <1>6 DEF CapInv, Quiet
    <2> QED
        BY <1>2, <2>1, <2>2
<1> QED
    BY <1>3, <1>4, <1>5, <1>6, MostlyQuiet

-----------------------------------------------------------------------------
\* The inductive invariant holds in every reachable state.
LEMMA Inductive == Spec => [](TypeOK /\ IInv /\ CapInv)
<1>1. Init => TypeOK
    <2> SUFFICES ASSUME Init PROVE TypeOK
        OBVIOUS
    <2>1. todo \in [Sweepers \cup Closers -> SUBSET Askers]
        BY DEF Init, Empty
    <2>2. on \in [Finders -> Askers \cup {None}] /\ faults \in 0 .. MaxFaults
        BY LimitAssumption DEF Init, Empty
    <2> QED
        BY <2>1, <2>2 DEF Init, Empty, TypeOK
<1>2. Init => IInv
    BY ProcsAssumption
    DEF Init, Empty, IInv, FindInv, AnswerInv, WinnerInv, SeenInv, AwaitHonest, MutexInv,
        Inside, Finding
<1>3. Init => CapInv
    <2> SUFFICES ASSUME Init PROVE CapInv
        OBVIOUS
    <2>1. Pending = {} /\ Pending \ restored = {}
        BY DEF Init, Empty
    <2>2. IsFiniteSet({}) /\ Cardinality({}) = 0
        BY FS_EmptySet
    <2>3. \A a \in Askers : pc[a] # "create"
        BY DEF Init
    <2>4. IsFiniteSet(Pending) /\ Cardinality(Pending \ restored) <= Limit
        <3> HIDE DEF Pending
        <3> QED
            BY <2>1, <2>2, LimitAssumption
    <2> QED
        BY <2>3, <2>4 DEF CapInv, PendingCap
<1>4. TypeOK /\ IInv /\ CapInv /\ [Next]_vars => (TypeOK /\ IInv /\ CapInv)'
    BY NextType, NextFind, NextAnswer, NextWinner, NextSeen, NextMutex, NextCap DEF IInv
<1> QED
    BY <1>1, <1>2, <1>3, <1>4, PTL DEF Spec

\* Type correctness of the approval engine and its callers.
THEOREM TypeCorrect == Spec => []TypeOK
    BY Inductive, PTL

\* Askers that race for admission (Engine.Request) never exceed the pending cap
\* together, whatever else happens to the requests between the count and the
\* creation; only requests that a rollback revived do not count.
THEOREM PendingCapHolds == Spec => []PendingCap
<1>1. CapInv => PendingCap
    BY DEF CapInv
<1> QED
    BY <1>1, Inductive, PTL

\* Await and the answerers learn of one and the same decision: what Await
\* returned is what the request carries unless it was rolled back, and at most
\* one answerer reports success.
THEOREM DecisionReportedHolds == Spec => []DecisionReported
<1>1. TypeOK /\ IInv => DecisionReported
    BY DEF TypeOK, IInv, SeenInv, WinnerInv, DecisionReported, OneWinner
<1> QED
    BY <1>1, Inductive, PTL

-----------------------------------------------------------------------------
\* The decided requests keep their status.
Stays == \A a \in Askers : req[a] \in Decisions => req'[a] = req[a]

\* Every step but a rollback leaves the decided requests alone.
LEMMA DecisionsStay ==
    ASSUME TypeOK, IInv, [Next]_vars, ~ \E p \in Answerers : AnswerRollback(p)
    PROVE  Stays
<1> USE ProcsAssumption DEF TypeOK, Stays
<1>1. ASSUME NEW p \in Finders, FindList(p) PROVE Stays
    BY <1>1 DEF FindList
<1>2. ASSUME NEW p \in Finders, FindExpire(p) PROVE Stays
    BY <1>2 DEF FindExpire, ExpireOne
<1>3. ASSUME NEW p \in Finders, FindReread(p) PROVE Stays
    BY <1>3 DEF FindReread
<1>4. ASSUME NEW a \in Askers, AskBegin(a) PROVE Stays
    BY <1>4 DEF AskBegin
<1>5. ASSUME NEW a \in Askers, AskAdmit(a) PROVE Stays
    BY <1>5 DEF AskAdmit, AskLock
<1>6. ASSUME NEW a \in Askers, AskCreate(a) PROVE Stays
    BY <1>6 DEF AskCreate, IInv, FindInv
<1>7. ASSUME NEW a \in Askers, AskEmit(a) PROVE Stays
    BY <1>7 DEF AskEmit, Withdraw
<1>8. ASSUME NEW a \in Askers, AwaitBegin(a) PROVE Stays
    BY <1>8 DEF AwaitBegin
<1>9. ASSUME NEW a \in Askers, AwaitFound(a) PROVE Stays
    BY <1>9 DEF AwaitFound, AwaitOutcome
<1>10. ASSUME NEW a \in Askers, AwaitGiveUp(a) PROVE Stays
    BY <1>10 DEF AwaitGiveUp, Withdraw
<1>11. ASSUME NEW a \in Askers, WithdrawFound(a) PROVE Stays
    BY <1>11 DEF WithdrawFound
<1>12. ASSUME NEW a \in Askers, TimePasses(a) PROVE Stays
    BY <1>12 DEF TimePasses
<1>13. ASSUME NEW p \in Answerers, AnswerBegin(p) PROVE Stays
    BY <1>13 DEF AnswerBegin, ListFails, ListForSession, ExpireDue, DueOf
<1>14. ASSUME NEW p \in Answerers, AnswerRoute(p) PROVE Stays
    BY <1>14 DEF AnswerRoute
<1>15. ASSUME NEW p \in Answerers, AnswerFound(p) PROVE Stays
    BY <1>15 DEF AnswerFound
<1>16. ASSUME NEW p \in Answerers, AnswerNote(p) PROVE Stays
    BY <1>16 DEF AnswerNote
<1>17. ASSUME NEW p \in Answerers, AnswerAppend(p) PROVE Stays
    BY <1>17 DEF AnswerAppend
<1>18. ASSUME NEW p \in Answerers, AnswerForget(p) PROVE Stays
    BY <1>18 DEF AnswerForget
<1>19. ASSUME NEW s \in Sweepers, SweepList(s) PROVE Stays
    BY <1>19 DEF SweepList, ListFails, ListForSession, ExpireDue, DueOf
<1>20. ASSUME NEW s \in Sweepers, SweepNext(s) PROVE Stays
    BY <1>20 DEF SweepNext
<1>21. ASSUME NEW s \in Sweepers, SweepFound(s) PROVE Stays
    BY <1>21 DEF SweepFound
<1>22. ASSUME NEW c \in Closers, CloseBegin(c) PROVE Stays
    BY <1>22 DEF CloseBegin
<1>23. ASSUME NEW c \in Closers, CloseSweep(c) PROVE Stays
    BY <1>23 DEF CloseSweep
<1>24. ASSUME NEW c \in Closers, CloseRelease(c) PROVE Stays
    BY <1>24 DEF CloseRelease
<1>25. ASSUME NEW c \in Closers, CloseWait(c) PROVE Stays
    BY <1>25 DEF CloseWait
<1>26. CASE UNCHANGED vars  BY <1>26 DEF vars
<1> QED
    BY <1>1, <1>2, <1>3, <1>4, <1>5, <1>6, <1>7, <1>8, <1>9, <1>10, <1>11, <1>12,
       <1>13, <1>14, <1>15, <1>16, <1>17, <1>18, <1>19, <1>20, <1>21, <1>22, <1>23,
       <1>24, <1>25, <1>26
    DEF Next, AskStep, AnswerStep, SweepStep, CloseStep, FindStep, Finders

\* A decision is final: of an answer, an expiry, a cancellation and Close that
\* race for a request one decides it, and only the rollback of an answer, under
\* interactionResolveMu, writes it again; it never undoes another answer.
THEOREM DecidedOnceHolds == Spec => DecidedOnce
<1> DEFINE Final ==
        \A a \in Askers : req[a] \in Decisions /\ req'[a] # req[a] =>
          \E p \in Answerers :
              pc[p] = "rollback" /\ on[p] = a /\ req'[a] = before[p] /\ winner[a] \in {p, None}
<1>1. TypeOK /\ IInv /\ [Next]_vars => [Final]_vars
    <2> SUFFICES ASSUME TypeOK, IInv, [Next]_vars, NEW a \in Askers,
                        req[a] \in Decisions, req'[a] # req[a]
                 PROVE  \E p \in Answerers : /\ pc[p] = "rollback" /\ on[p] = a
                                             /\ req'[a] = before[p] /\ winner[a] \in {p, None}
        OBVIOUS
    <2>1. PICK p \in Answerers : AnswerRollback(p)
        BY DecisionsStay DEF Stays
    <2>2. pc[p] = "rollback" /\ on[p] = a /\ req'[a] = before[p]
        BY <2>1 DEF AnswerRollback, TypeOK
    <2>3. winner[a] \in {p, None}
        BY <2>2 DEF IInv, AnswerInv, Inside
    <2> QED
        BY <2>2, <2>3
<1> QED
    BY <1>1, Inductive, PTL DEF Spec, DecidedOnce

-----------------------------------------------------------------------------
(* TurnLoop.                                                               *)

\* The records that the log can have.
TurnStatuses == {"completed", "blocked", "failed", "cancelled", "interrupted"}
Codes == TurnStatuses \cup {"", "ok", "denied", "aborted", "unknown", "not-started"}
Events == [type : Anchors \cup {"assistant", "call", "result"}, turn : Nat, step : Nat, n : Nat, code : Codes]

-----------------------------------------------------------------------------
(* The inductive invariant: the log.                                       *)

StepTypes == {"step/start", "assistant", "call", "result", "step/end"}

\* The results among the events f .. i answer the calls 1 .. m, in this order.
InOrder(log, f, i, m) ==
    /\ \A k \in f .. i : log[k].type = "result" => log[k].n \in 1 .. m
    /\ \A n \in 1 .. m : \E k \in f .. i : log[k].type = "result" /\ log[k].n = n
    /\ \A k, l \in f .. i : log[k].type = "result" /\ log[l].type = "result" /\ l < k => log[l].n < log[k].n

\* What happens in a step happens inside the brackets and names the step.
Within(log) ==
    \A i \in DOMAIN log :
        /\ log[i].type \in {"assistant", "call", "result"} => OpenAt(log, i - 1) = "step"
        /\ log[i].type \in StepTypes =>
              /\ OpenerOf(log, i) \in 1 .. i
              /\ log[i].turn = log[OpenerOf(log, i)].turn /\ log[i].step = log[OpenerOf(log, i)].step

\* A step belongs to the last turn, no event is of a turn that was not started, and no
\* step is opened twice.
Unique(log) ==
    /\ \A i \in DOMAIN log : log[i].type = "step/start" =>
          /\ LastBefore(log, i, {"turn/start"}) \in 1 .. i
          /\ log[i].turn = log[LastBefore(log, i, {"turn/start"})].turn
    /\ \A i \in DOMAIN log : log[i].turn <= TurnStarts(log, Len(log))
    /\ \A i, j \in DOMAIN log :
          log[i].type = "step/start" /\ log[j].type = "step/start" /\ log[i].turn = log[j].turn
             /\ log[i].step = log[j].step => i = j

\* The last step has the results of its first m calls, and its message asks for N.
Answers(log, m, N) ==
    /\ InOrder(log, OpenerOf(log, Len(log)), Len(log), m)
    /\ \A j \in OpenerOf(log, Len(log)) .. Len(log) : log[j].type = "assistant" => log[j].n = N

\* So has the step between its opener f and its end i; unless it failed, these are all.
Settled(log, f, i) ==
    \E m \in Nat :
        /\ InOrder(log, f, i, m)
        /\ log[i].code # "failed" => \A j \in f .. i : log[j].type = "assistant" => log[j].n <= m

\* A closed step has its results in order, and all of them unless it failed; the open
\* one has the results of its first calls.
Ordered(log) ==
    /\ \A i \in DOMAIN log : log[i].type = "step/end" => Settled(log, OpenerOf(log, i), i)
    /\ Open(log) = "step" => \E m \in Nat, N \in Nat : m <= N /\ Answers(log, m, N)

\* The events of a type in the k-th turn.
OfType(log, type, k) == {i \in DOMAIN log : log[i].type = type /\ TurnStarts(log, i) = k}

\* A log leaves a turn open exactly when its last turn has not ended.
Marked(log) ==
    LET T == TurnStarts(log, Len(log))
    IN  /\ Open(log) = "none" => T = 0 \/ OfType(log, "turn/end", T) # {}
        /\ Open(log) # "none" => T > 0 /\ OfType(log, "turn/end", T) = {}

\* Bodies run for recorded calls, and a result that says that a body did not run is true
\* of the bodies in runs.
Truthful(log, runs) ==
    /\ \A r \in runs : \E j \in DOMAIN log : log[j] = Event("call", r[1], r[2], r[3], "")
    /\ \A i \in DOMAIN log :
          log[i].type = "result" /\ log[i].code \in {"not-started", "aborted", "denied"}
              => <<log[i].turn, log[i].step, log[i].n>> \notin runs

LogInv(log, runs) ==
    Nested(log) /\ Within(log) /\ Unique(log) /\ Ordered(log) /\ Marked(log) /\ Truthful(log, runs)

\* What is in the store: a log that satisfies LogInv, and after a crash perhaps a torn
\* record behind it.
StoredInv ==
    \E log \in Seq(Events) :
        LogInv(log, ran) /\ (stored = log \/ (at = "down" /\ stored = Append(log, Torn)))

-----------------------------------------------------------------------------
(* The inductive invariant: a session that runs and can still append.      *)

\* The log's last turn is t, and no step behind s has happened in it.
OfTurn(log, t, s) ==
    /\ t = TurnStarts(log, Len(log)) /\ s >= 1
    /\ LastBefore(log, Len(log), {"turn/start"}) \in DOMAIN log
    /\ log[LastBefore(log, Len(log), {"turn/start"})].turn = t
    /\ \A i \in DOMAIN log : log[i].turn = t => log[i].step <= s

\* Nothing has happened in step s of turn t.
Unused(log, t, s) == \A i \in DOMAIN log : log[i].turn = t => log[i].step < s

\* The log's last step is s of turn t; its message, if any, asks for N calls.
OfStep(log, t, s, N) ==
    LET f == OpenerOf(log, Len(log))
    IN  /\ f \in DOMAIN log /\ log[f].turn = t /\ log[f].step = s
        /\ \A j \in f .. Len(log) : log[j].type = "assistant" => log[j].n = N

\* It has no message, no call and no result.
Silent(log) ==
    \A j \in OpenerOf(log, Len(log)) .. Len(log) : log[j].type \notin {"assistant", "call", "result"}

Entering == {"top", "preStep", "openStep"}
Between == Entering \cup {"stepped", "stopping", "endTurn"}
ToolPhase == {"tools", "exclusive", "fill", "filled", "settle", "wait", "drain", "abort"}
Asking == {"request", "stream"}
InStep == Asking \cup {"answered", "endStep"} \cup ToolPhase
Alive == at \notin {"down", "refused"}
Live == Alive /\ ~diverged

\* The log is where the loop is.
PlaceInv ==
    Live => /\ at = "idle" => Open(stored) = "none"
            /\ at \in Between => Open(stored) = "turn" /\ OfTurn(stored, turn, step)
            /\ at \in Entering => Unused(stored, turn, step)
            /\ at \in InStep => /\ Open(stored) = "step" /\ OfTurn(stored, turn, step)
                                /\ OfStep(stored, turn, step, Len(calls))
            /\ at \in Asking => Silent(stored)

\* The calls and their bodies, whether the session can append or not.
Bare == calls = <<>> /\ next = 1 /\ body = NoBodies
Pool(n) ==
    /\ n > Len(calls) \/ n > next \/ (n = next /\ at \notin {"exclusive", "abort"}) => body[n] = "none"
    /\ n < next => body[n] # "none"
    /\ n < next /\ at # "abort" => body[n] # "aborted"
    /\ n < next /\ at \in {"tools", "exclusive", "abort"} => body[n] \in {"committed", "aborted"}
    /\ n = next /\ at = "abort" => body[n] \in {"none", "aborted"}
    /\ n = next /\ at = "exclusive" => body[n] \in {"running", "settled", "denied"}
BodyInv ==
    /\ at \in Stopped \cup Between \cup Asking => Bare
    /\ at = "answered" => next = 1 /\ body = NoBodies
    /\ at \in InStep \ {"drain", "endStep"} => err = "none"
    /\ at = "drain" => err \in {"none", "failed"}
    /\ at = "exclusive" => next <= Len(calls)
    /\ at \in ToolPhase => \A n \in Calls : Pool(n)

\* The answered calls: the first ones, in the log and in the pool alike.
Done(n) == body[n] = "committed" \/ (body[n] = "aborted" /\ n < next)
ReplyInv ==
    Live /\ at \in InStep /\ err # "failed" =>
        \E m \in 0 .. Len(calls) :
            /\ InOrder(stored, OpenerOf(stored, Len(stored)), Len(stored), m)
            /\ at = "endStep" => m = Len(calls)
            /\ at # "endStep" => \A n \in 1 .. Len(calls) : n <= m <=> Done(n)

\* The bodies that this step has started.
RanInv ==
    Live /\ at \in InStep \ {"endStep"} =>
        \A n \in Nat : <<turn, step, n>> \in ran =>
            n \in 1 .. Len(calls) /\ body[n] \in {"running", "settled", "ready", "committed"}

LoopInvariant == LoopTypeOK /\ StoredInv /\ PlaceInv /\ BodyInv /\ ReplyInv /\ RanInv

\* The records of a log of which nothing is known, not even that its turns are closed.
Recordable(e) == e.type \in Anchors \cup {"assistant", "call", "result", "torn"} /\ (e.type = "assistant" => e.n \in Nat)
Record(S) == \A e \in S : Recordable(e)
Recorded == \E S : Record(S) /\ stored \in Seq(S)

\* What the types rest on, whatever the log says.
TypeInvariant == LoopTypeOK /\ BodyInv /\ Recorded

-----------------------------------------------------------------------------
(* Induction, with the claim as the set of numbers it holds for.           *)

\* A set that has 0, and with a number the next one, has every number up to a bound.
LEMMA UpTo ==
    ASSUME NEW B \in Nat, NEW T, 0 \in T, \A k \in 0 .. B - 1 : k \in T => k + 1 \in T
    PROVE  \A k \in 0 .. B : k \in T
<1> DEFINE R == OpToRel(<, Nat)
           Bad == {k \in 0 .. B : k \notin T}
<1> SUFFICES ASSUME Bad # {} PROVE FALSE
    OBVIOUS
<1>0. Bad \subseteq Nat
    OBVIOUS
<1>1. IsWellFoundedOn(R, Nat)
    BY NatLessThanWellFounded
<1>2. \A x, y \in Nat : <<y, x>> \in R <=> y < x
    BY DEF OpToRel
<1>3. PICK x \in Bad : \A y \in Bad : ~ (<<y, x>> \in R)
    <2> HIDE DEF R, Bad
    <2> QED
        BY <1>0, <1>1, WFMin
<1>4. x \in 0 .. B /\ x \notin T /\ x # 0
    OBVIOUS
<1>5. x - 1 \in 0 .. B - 1 /\ x - 1 < x /\ (x - 1) + 1 = x
    BY <1>4
<1>6. x - 1 \notin Bad
    <2>1. x - 1 \in Nat /\ x \in Nat
        BY <1>4, <1>5
    <2> HIDE DEF R, Bad
    <2> QED
        BY <1>2, <1>3, <1>5, <2>1
<1>7. x - 1 \in T
    BY <1>5, <1>6
<1> QED
    BY <1>4, <1>5, <1>7

-----------------------------------------------------------------------------
(* The last event of some types.                                           *)

\* Max is a greatest member when there is one.
LEMMA MaxIs ==
    ASSUME NEW S \in SUBSET Nat, NEW x \in S, \A y \in S : y <= x
    PROVE  Max(S) = x
<1>1. \A y \in S : x >= y
    OBVIOUS
<1>2. PICK z \in S : z = Max(S) /\ \A y \in S : z >= y
    BY <1>1 DEF Max
<1> QED
    BY <1>1, <1>2

\* LastBefore is the last index of an event of the types, or 0.
LEMMA LastBeforeIs ==
    ASSUME NEW log \in Seq(Events), NEW T, NEW i \in 0 .. Len(log)
    PROVE  LET b == LastBefore(log, i, T)
           IN  /\ b \in 0 .. i
               /\ b # 0 => log[b].type \in T
               /\ \A j \in 1 .. i : log[j].type \in T => j <= b
<1> DEFINE Good(k, b) == /\ b \in 0 .. k
                         /\ b # 0 => log[b].type \in T
                         /\ \A j \in 1 .. k : log[j].type \in T => j <= b
           S == {k \in Nat : \E b : Good(k, b)}
<1>1. Good(0, 0)
    OBVIOUS
<1>2. ASSUME NEW k \in 0 .. Len(log) - 1, k \in S PROVE k + 1 \in S
    <2>1. PICK b : Good(k, b)
        BY <1>2
    <2>2. CASE log[k + 1].type \in T
        <3>1. Good(k + 1, k + 1)
            BY <2>2
        <3> QED
            BY <3>1
    <2>3. CASE log[k + 1].type \notin T
        <3>1. Good(k + 1, b)
            BY <2>1, <2>3
        <3> QED
            BY <3>1
    <2> QED
        BY <2>2, <2>3
<1>3. \A k \in 0 .. Len(log) : k \in S
    <2>1. 0 \in S
        <3>1. \E b : Good(0, b)
            BY <1>1
        <3> QED
            BY <3>1
    <2>2. Len(log) \in Nat
        OBVIOUS
    <2> HIDE DEF S
    <2> QED
        BY <1>2, <2>1, <2>2, UpTo
<1>4. PICK b : Good(i, b)
    BY <1>3
<1>5. LastBefore(log, i, T) = b
    <2>1. {0} \cup Before(log, i, T) \in SUBSET Nat /\ b \in {0} \cup Before(log, i, T)
        BY <1>4 DEF Before
    <2>2. \A y \in {0} \cup Before(log, i, T) : y <= b
        BY <1>4 DEF Before
    <2> QED
        BY <2>1, <2>2, MaxIs DEF LastBefore
<1> QED
    BY <1>4, <1>5

\* LastBefore is the index that has these properties.
LEMMA LastBeforeUnique ==
    ASSUME NEW log, NEW T, NEW i \in Nat, NEW b \in 0 .. i,
           b # 0 => log[b].type \in T, \A j \in 1 .. i : log[j].type \in T => j <= b
    PROVE  LastBefore(log, i, T) = b
<1>1. {0} \cup Before(log, i, T) \in SUBSET Nat /\ b \in {0} \cup Before(log, i, T)
    BY DEF Before
<1>2. \A y \in {0} \cup Before(log, i, T) : y <= b
    BY DEF Before
<1> QED
    BY <1>1, <1>2, MaxIs DEF LastBefore

-----------------------------------------------------------------------------
(* Appending an event.                                                     *)

\* A log that begins like another one.
Extends(L, log) ==
    /\ L \in Seq(Events) /\ log \in Seq(Events) /\ Len(log) <= Len(L)
    /\ \A i \in DOMAIN log : L[i] = log[i]

\* What is read off the first events of a log is read off any longer one.
LEMMA PrefixSame ==
    ASSUME NEW L, NEW log, Extends(L, log), NEW i \in 0 .. Len(log)
    PROVE  /\ \A T : Before(L, i, T) = Before(log, i, T) /\ LastBefore(L, i, T) = LastBefore(log, i, T)
           /\ AnchorAt(L, i) = AnchorAt(log, i) /\ OpenAt(L, i) = OpenAt(log, i)
           /\ OpenerOf(L, i) = OpenerOf(log, i)
<1>1. \A T : Before(L, i, T) = Before(log, i, T)
    BY DEF Before, Extends
<1>2. \A T : LastBefore(L, i, T) = LastBefore(log, i, T)
    BY <1>1 DEF LastBefore
<1>3. LastBefore(log, i, Anchors) \in 0 .. i
    BY LastBeforeIs DEF Extends
<1>4. AnchorAt(L, i) = AnchorAt(log, i)
    BY <1>2, <1>3 DEF AnchorAt, Extends
<1> QED
    BY <1>1, <1>2, <1>4 DEF OpenAt, OpenerOf

\* The last event of a log, and what stands before it.
LEMMA AppendIs ==
    ASSUME NEW log \in Seq(Events), NEW e \in Events
    PROVE  LET L == Append(log, e)
               n == Len(log)
           IN  /\ Extends(L, log) /\ Len(L) = n + 1 /\ L[n + 1] = e /\ n \in Nat
               /\ DOMAIN L = 1 .. n + 1 /\ DOMAIN log = 1 .. n
               /\ \A T : e.type \notin T => /\ Before(L, n + 1, T) = Before(log, n, T)
                                            /\ LastBefore(L, n + 1, T) = LastBefore(log, n, T)
               /\ \A T : e.type \in T => /\ Before(L, n + 1, T) = Before(log, n, T) \cup {n + 1}
                                         /\ LastBefore(L, n + 1, T) = n + 1
<1> DEFINE L == Append(log, e)
           n == Len(log)
<1>1. Extends(L, log) /\ Len(L) = n + 1 /\ L[n + 1] = e /\ n \in Nat /\ DOMAIN L = 1 .. n + 1 /\ DOMAIN log = 1 .. n
    BY DEF Extends
<1>2. ASSUME NEW T, e.type \notin T
      PROVE  Before(L, n + 1, T) = Before(log, n, T) /\ LastBefore(L, n + 1, T) = LastBefore(log, n, T)
    <2>1. Before(L, n + 1, T) = Before(log, n, T)
        BY <1>1, <1>2 DEF Before, Extends
    <2> QED
        BY <2>1 DEF LastBefore
<1>3. ASSUME NEW T, e.type \in T
      PROVE  Before(L, n + 1, T) = Before(log, n, T) \cup {n + 1} /\ LastBefore(L, n + 1, T) = n + 1
    <2>1. Before(L, n + 1, T) = Before(log, n, T) \cup {n + 1}
        BY <1>1, <1>3 DEF Before, Extends
    <2>2. LastBefore(L, n + 1, T) = n + 1
        <3>1. n + 1 \in Nat /\ n + 1 \in 0 .. n + 1 /\ L[n + 1].type \in T
            BY <1>1, <1>3
        <3>2. \A j \in 1 .. n + 1 : L[j].type \in T => j <= n + 1
            BY <1>1
        <3> HIDE DEF L, n
        <3> QED
            BY <3>1, <3>2, LastBeforeUnique
    <2> QED
        BY <2>1, <2>2
<1> HIDE DEF L, n
<1>4. QED
    BY <1>1, <1>2, <1>3 DEF L, n

\* What a log leaves open after one more event.
LEMMA AppendOpens ==
    ASSUME NEW log \in Seq(Events), NEW e \in Events
    PROVE  LET L == Append(log, e)
           IN  /\ e.type = "turn/end" => Open(L) = "none"
               /\ e.type \in {"turn/start", "step/end"} => Open(L) = "turn"
               /\ e.type = "step/start" => Open(L) = "step"
               /\ e.type \notin Anchors => Open(L) = Open(log)
<1> DEFINE L == Append(log, e)
           n == Len(log)
<1>1. Extends(L, log) /\ Len(L) = n + 1 /\ L[n + 1] = e /\ n \in Nat
    BY AppendIs
<1>2. CASE e.type \in Anchors
    <2>1. LastBefore(L, n + 1, Anchors) = n + 1
        BY <1>2, AppendIs
    <2>2. AnchorAt(L, n + 1) = e.type
        BY <1>1, <2>1 DEF AnchorAt
    <2> QED
        BY <1>1, <1>2, <2>2 DEF Open, OpenAt, Anchors
<1>3. CASE e.type \notin Anchors
    <2>1. LastBefore(L, n + 1, Anchors) = LastBefore(log, n, Anchors) /\ LastBefore(log, n, Anchors) \in 0 .. n
        BY <1>3, <1>1, AppendIs, LastBeforeIs
    <2>2. AnchorAt(L, n + 1) = AnchorAt(log, n)
        BY <1>1, <2>1 DEF AnchorAt, Extends
    <2> QED
        BY <1>1, <1>3, <2>2 DEF Open, OpenAt, Anchors
<1> QED
    BY <1>2, <1>3

-----------------------------------------------------------------------------
(* One more event keeps what is known of a log.                            *)

\* A log that leaves a step open has its opener.
LEMMA OpenStepIs ==
    ASSUME NEW log \in Seq(Events), NEW i \in 0 .. Len(log), OpenAt(log, i) = "step"
    PROVE  OpenerOf(log, i) \in 1 .. i /\ log[OpenerOf(log, i)].type = "step/start"
<1> DEFINE j == LastBefore(log, i, Anchors)
           f == LastBefore(log, i, {"step/start"})
<1>1. j \in 0 .. i /\ f \in 0 .. i /\ i \in Nat
    BY LastBeforeIs
<1>2. AnchorAt(log, i) = "step/start"
    <2>1. AnchorAt(log, i) \in Anchors \cup {"none"}
        <3>1. j # 0 => log[j].type \in Anchors
            BY LastBeforeIs
        <3> QED
            BY <3>1 DEF AnchorAt
    <2> QED
        BY <2>1 DEF OpenAt, Anchors
<1>3. j # 0 /\ log[j].type = "step/start"
    BY <1>2 DEF AnchorAt
<1>4. j <= f
    BY <1>1, <1>3, LastBeforeIs
<1>5. f # 0 => log[f].type \in {"step/start"}
    BY LastBeforeIs
<1> HIDE DEF j, f
<1>6. f # 0 /\ log[f].type = "step/start"
    BY <1>1, <1>3, <1>4, <1>5
<1> QED
    BY <1>1, <1>6 DEF OpenerOf, f

\* What an event's place asks of the log before it.
Placed(log, e) ==
    /\ e.type = "turn/start" => Open(log) = "none"
    /\ e.type \in {"turn/end", "step/start"} => Open(log) = "turn"
    /\ e.type \in {"step/end", "assistant", "call", "result"} =>
          /\ Open(log) = "step"
          /\ e.turn = log[OpenerOf(log, Len(log))].turn /\ e.step = log[OpenerOf(log, Len(log))].step

\* The brackets around one event.
Bracketed(log, i) ==
    /\ log[i].type = "turn/start" => OpenAt(log, i - 1) = "none"
    /\ log[i].type \in {"turn/end", "step/start"} => OpenAt(log, i - 1) = "turn"
    /\ log[i].type = "step/end" => OpenAt(log, i - 1) = "step"

\* The brackets, one event at a time.
LEMMA NestedIs == \A log : Nested(log) <=> \A i \in DOMAIN log : Bracketed(log, i)
BY DEF Nested, Bracketed

\* An event that is in its place keeps the brackets.
LEMMA NestedAppend ==
    ASSUME NEW log \in Seq(Events), NEW e \in Events, Nested(log), Placed(log, e)
    PROVE  Nested(Append(log, e))
<1> DEFINE L == Append(log, e)
           n == Len(log)
<1>1. Extends(L, log) /\ L[n + 1] = e /\ n \in Nat /\ DOMAIN L = 1 .. n + 1 /\ DOMAIN log = 1 .. n
    BY AppendIs
<1>2. ASSUME NEW i \in 1 .. n + 1 PROVE Bracketed(L, i)
    <2>1. i - 1 \in 0 .. n
        BY <1>1
    <2>2. OpenAt(L, i - 1) = OpenAt(log, i - 1)
        BY <1>1, <2>1, PrefixSame
    <2>3. CASE i \in 1 .. n
        <3>1. L[i] = log[i] /\ Bracketed(log, i)
            BY <1>1, <2>3, NestedIs DEF Extends
        <3> HIDE DEF L, n
        <3> QED
            BY <2>2, <3>1 DEF Bracketed
    <2>4. CASE i = n + 1
        <3>1. OpenAt(L, i - 1) = Open(log) /\ L[i] = e
            BY <1>1, <2>2, <2>4 DEF Open
        <3> HIDE DEF L, n
        <3> QED
            BY <3>1 DEF Placed, Bracketed
    <2> QED
        BY <1>1, <2>3, <2>4
<1> HIDE DEF L
<1>3. Nested(L)
    BY <1>1, <1>2, NestedIs
<1> QED
    BY <1>3 DEF L

\* The opener of the step around the last event.
LEMMA AppendOpener ==
    ASSUME NEW log \in Seq(Events), NEW e \in Events
    PROVE  /\ e.type = "step/start" => OpenerOf(Append(log, e), Len(log) + 1) = Len(log) + 1
           /\ e.type # "step/start" => OpenerOf(Append(log, e), Len(log) + 1) = OpenerOf(log, Len(log))
BY AppendIs DEF OpenerOf

\* An event of a step that names the step keeps every event of a step inside it.
LEMMA WithinAppend ==
    ASSUME NEW log \in Seq(Events), NEW e \in Events, Within(log), Placed(log, e)
    PROVE  Within(Append(log, e))
<1> DEFINE L == Append(log, e)
           n == Len(log)
<1>1. Extends(L, log) /\ L[n + 1] = e /\ n \in Nat /\ DOMAIN L = 1 .. n + 1 /\ DOMAIN log = 1 .. n
    BY AppendIs
<1>2. ASSUME NEW i \in 1 .. n
      PROVE  /\ L[i].type \in {"assistant", "call", "result"} => OpenAt(L, i - 1) = "step"
             /\ L[i].type \in StepTypes =>
                   /\ OpenerOf(L, i) \in 1 .. i
                   /\ L[i].turn = L[OpenerOf(L, i)].turn /\ L[i].step = L[OpenerOf(L, i)].step
    <2>1. i - 1 \in 0 .. n /\ i \in 0 .. n /\ i \in DOMAIN log
        BY <1>1
    <2>2. OpenAt(L, i - 1) = OpenAt(log, i - 1) /\ OpenerOf(L, i) = OpenerOf(log, i)
        BY <1>1, <2>1, PrefixSame
    <2>3. \A k \in 1 .. n : L[k] = log[k]
        BY <1>1 DEF Extends
    <2>4. /\ log[i].type \in {"assistant", "call", "result"} => OpenAt(log, i - 1) = "step"
          /\ log[i].type \in StepTypes =>
                   /\ OpenerOf(log, i) \in 1 .. i
                   /\ log[i].turn = log[OpenerOf(log, i)].turn /\ log[i].step = log[OpenerOf(log, i)].step
        BY <2>1 DEF Within
    <2>5. OpenerOf(log, i) \in 1 .. i => OpenerOf(log, i) \in 1 .. n
        BY <1>1
    <2> HIDE DEF L, n
    <2> QED
        BY <2>2, <2>3, <2>4, <2>5
<1>3. /\ e.type \in {"assistant", "call", "result"} => OpenAt(L, n) = "step"
      /\ e.type \in StepTypes =>
            /\ OpenerOf(L, n + 1) \in 1 .. n + 1
            /\ e.turn = L[OpenerOf(L, n + 1)].turn /\ e.step = L[OpenerOf(L, n + 1)].step
    <2>1. OpenAt(L, n) = Open(log)
        BY <1>1, PrefixSame DEF Open
    <2>2. CASE e.type = "step/start"
        <3>1. OpenerOf(L, n + 1) = n + 1
            BY <2>2, AppendOpener
        <3> HIDE DEF L, n
        <3> QED
            BY <1>1, <2>2, <3>1
    <2>3. CASE e.type \in {"step/end", "assistant", "call", "result"}
        <3>1. OpenerOf(L, n + 1) = OpenerOf(log, n)
            BY <2>3, AppendOpener
        <3>2. OpenAt(log, n) = "step"
            BY <2>3 DEF Placed, Open
        <3>3. OpenerOf(log, n) \in 1 .. n
            BY <1>1, <3>2, OpenStepIs
        <3>4. L[OpenerOf(log, n)] = log[OpenerOf(log, n)]
            BY <1>1, <3>3 DEF Extends
        <3>5. e.turn = log[OpenerOf(log, n)].turn /\ e.step = log[OpenerOf(log, n)].step /\ OpenAt(L, n) = "step"
            BY <2>1, <2>3 DEF Placed
        <3> HIDE DEF L, n
        <3> QED
            BY <1>1, <3>1, <3>3, <3>4, <3>5
    <2> HIDE DEF L, n
    <2> QED
        BY <2>2, <2>3 DEF StepTypes
<1>4. (n + 1) - 1 = n /\ \A i \in 1 .. n + 1 : i \in 1 .. n \/ i = n + 1
    BY <1>1
<1> HIDE DEF L, n
<1>5. Within(L)
    BY <1>1, <1>2, <1>3, <1>4 DEF Within
<1> QED
    BY <1>5 DEF L

-----------------------------------------------------------------------------
(* The results of a step.                                                  *)

\* The same events have the same order.
LEMMA InOrderSame ==
    ASSUME NEW L, NEW log, NEW f \in Nat, NEW i \in Nat, NEW m \in Nat,
           \A k \in f .. i : L[k] = log[k], InOrder(log, f, i, m)
    PROVE  InOrder(L, f, i, m)
BY DEF InOrder

\* An event that is no result changes nothing.
LEMMA InOrderSkip ==
    ASSUME NEW L, NEW log, NEW f \in Nat, NEW i \in Nat, NEW m \in Nat,
           \A k \in f .. i : L[k] = log[k], L[i + 1].type # "result", InOrder(log, f, i, m)
    PROVE  InOrder(L, f, i + 1, m)
<1>1. \A k \in f .. i + 1 : k \in f .. i \/ k = i + 1
    OBVIOUS
<1>2. \A k \in f .. i : k \in f .. i + 1
    OBVIOUS
<1> QED
    BY <1>1, <1>2 DEF InOrder

\* The next call's result is in order.
LEMMA InOrderNext ==
    ASSUME NEW L, NEW log, NEW f \in Nat, NEW i \in Nat, NEW m \in Nat, f <= i + 1,
           \A k \in f .. i : L[k] = log[k], L[i + 1].type = "result", L[i + 1].n = m + 1,
           InOrder(log, f, i, m)
    PROVE  InOrder(L, f, i + 1, m + 1)
<1>1. \A k \in f .. i + 1 : k \in f .. i \/ k = i + 1
    OBVIOUS
<1>2. \A k \in f .. i : k \in f .. i + 1
    OBVIOUS
<1>3. \A k \in f .. i + 1 : L[k].type = "result" => L[k].n \in 1 .. m + 1
    <2>1. \A k \in f .. i : L[k].type = "result" => L[k].n \in 1 .. m
        BY DEF InOrder
    <2> QED
        BY <1>1, <2>1
<1>4. \A n \in 1 .. m + 1 : \E k \in f .. i + 1 : L[k].type = "result" /\ L[k].n = n
    <2>1. \A n \in 1 .. m : \E k \in f .. i : L[k].type = "result" /\ L[k].n = n
        BY DEF InOrder
    <2>2. i + 1 \in f .. i + 1
        OBVIOUS
    <2>3. ASSUME NEW n \in 1 .. m + 1 PROVE \E k \in f .. i + 1 : L[k].type = "result" /\ L[k].n = n
        <3>1. CASE n = m + 1
            BY <2>2, <3>1
        <3>2. CASE n \in 1 .. m
            BY <1>2, <2>1, <3>2
        <3> QED
            BY <3>1, <3>2
    <2> QED
        BY <2>3
<1>5. ASSUME NEW k \in f .. i + 1, NEW l \in f .. i + 1, L[k].type = "result", L[l].type = "result", l < k
      PROVE  L[l].n < L[k].n
    <2>1. l \in f .. i
        BY <1>5
    <2>2. L[l].n \in 1 .. m
        BY <1>5, <2>1 DEF InOrder
    <2>3. CASE k = i + 1
        BY <2>2, <2>3
    <2>4. CASE k \in f .. i
        BY <1>5, <2>1, <2>4 DEF InOrder
    <2> QED
        BY <1>1, <2>3, <2>4
<1> QED
    BY <1>3, <1>4, <1>5 DEF InOrder

-----------------------------------------------------------------------------
(* One more event.                                                         *)

\* The turns that a log has started, after one more event.
LEMMA TurnStartsAppend ==
    ASSUME NEW log \in Seq(Events), NEW e \in Events
    PROVE  LET n == Len(log)
               sofar == TurnStarts(log, n)
           IN  /\ sofar \in Nat
               /\ e.type = "turn/start" => TurnStarts(Append(log, e), n + 1) = sofar + 1
               /\ e.type # "turn/start" => TurnStarts(Append(log, e), n + 1) = sofar
<1> DEFINE S == Before(log, Len(log), {"turn/start"})
<1>1. S \subseteq 1 .. Len(log) /\ Len(log) \in Nat
    BY DEF Before
<1>2. IsFiniteSet(S) /\ Cardinality(S) \in Nat
    <2>1. IsFiniteSet(1 .. Len(log))
        BY <1>1, FS_Interval
    <2> HIDE DEF S
    <2> QED
        BY <1>1, <2>1, FS_Subset, FS_CardinalityType
<1>3. Len(log) + 1 \notin S
    BY <1>1
<1>4. Cardinality(S \cup {Len(log) + 1}) = Cardinality(S) + 1
    <2> HIDE DEF S
    <2> QED
        BY <1>2, <1>3, FS_AddElement
<1> HIDE DEF S
<1>5. TurnStarts(log, Len(log)) = Cardinality(S)
    BY DEF TurnStarts, S
<1>6. ASSUME e.type = "turn/start" PROVE TurnStarts(Append(log, e), Len(log) + 1) = Cardinality(S) + 1
    <2>1. Before(Append(log, e), Len(log) + 1, {"turn/start"}) = S \cup {Len(log) + 1}
        BY <1>6, AppendIs DEF S
    <2> QED
        BY <1>4, <2>1 DEF TurnStarts
<1>7. ASSUME e.type # "turn/start" PROVE TurnStarts(Append(log, e), Len(log) + 1) = Cardinality(S)
    <2>1. Before(Append(log, e), Len(log) + 1, {"turn/start"}) = S
        BY <1>7, AppendIs DEF S
    <2> QED
        BY <2>1 DEF TurnStarts
<1> QED
    BY <1>2, <1>5, <1>6, <1>7

\* The number of an event's turn, and the step that it opens.
Numbers(log, e) ==
    /\ e.type = "turn/start" => e.turn = TurnStarts(log, Len(log)) + 1
    /\ e.type # "turn/start" => e.turn <= TurnStarts(log, Len(log))
    /\ e.type = "step/start" =>
          /\ LastBefore(log, Len(log), {"turn/start"}) \in 1 .. Len(log)
          /\ e.turn = log[LastBefore(log, Len(log), {"turn/start"})].turn
          /\ \A i \in DOMAIN log :
                log[i].type = "step/start" => ~(log[i].turn = e.turn /\ log[i].step = e.step)

\* Such an event keeps the steps apart.
LEMMA UniqueAppend ==
    ASSUME NEW log \in Seq(Events), NEW e \in Events, Unique(log), Numbers(log, e)
    PROVE  Unique(Append(log, e))
<1> DEFINE L == Append(log, e)
           n == Len(log)
           T == TurnStarts(log, n)
<1>1. Extends(L, log) /\ Len(L) = n + 1 /\ L[n + 1] = e /\ n \in Nat /\ DOMAIN L = 1 .. n + 1 /\ DOMAIN log = 1 .. n
    BY AppendIs
<1>2. T \in Nat /\ TurnStarts(L, n + 1) \in {T, T + 1} /\ (e.type = "turn/start" => TurnStarts(L, n + 1) = T + 1)
    BY TurnStartsAppend
<1>3. \A i \in 1 .. n : L[i] = log[i]
    BY <1>1 DEF Extends
<1>4. \A i \in 1 .. n : LastBefore(L, i, {"turn/start"}) = LastBefore(log, i, {"turn/start"})
    <2>1. \A i \in 1 .. n : i \in 0 .. Len(log)
        OBVIOUS
    <2> QED
        BY <1>1, <2>1, PrefixSame
<1>5. e.type = "step/start" => LastBefore(L, n + 1, {"turn/start"}) = LastBefore(log, n, {"turn/start"})
    BY AppendIs
<1>6. \A i \in 1 .. n : log[i] \in Events
    BY <1>1
<1>7. e.turn \in Nat
    BY DEF Events
<1>8. \A i \in 1 .. n + 1 : i \in 1 .. n \/ i = n + 1
    BY <1>1
<1> HIDE DEF L, n, T
<1>9. ASSUME NEW i \in 1 .. n + 1, L[i].type = "step/start"
      PROVE  /\ LastBefore(L, i, {"turn/start"}) \in 1 .. i
             /\ L[i].turn = L[LastBefore(L, i, {"turn/start"})].turn
    <2>1. CASE i \in 1 .. n
        <3>1. LastBefore(log, i, {"turn/start"}) \in 1 .. i /\ log[i].turn = log[LastBefore(log, i, {"turn/start"})].turn
            BY <1>1, <1>3, <1>9, <2>1 DEF Unique
        <3>2. LastBefore(log, i, {"turn/start"}) \in 1 .. n
            BY <1>1, <2>1, <3>1
        <3> QED
            BY <1>3, <1>4, <2>1, <3>1, <3>2
    <2>2. CASE i = n + 1
        <3>1. LastBefore(log, n, {"turn/start"}) \in 1 .. n /\ e.turn = log[LastBefore(log, n, {"turn/start"})].turn
            BY <1>1, <1>9, <2>2 DEF Numbers, n
        <3> QED
            BY <1>1, <1>3, <1>5, <1>9, <2>2, <3>1
    <2> QED
        BY <1>8, <2>1, <2>2
<1>10. ASSUME NEW i \in 1 .. n + 1 PROVE L[i].turn <= TurnStarts(L, n + 1)
    <2>1. CASE i \in 1 .. n
        <3>1. log[i].turn <= T /\ log[i].turn \in Nat
            BY <1>1, <1>6, <2>1 DEF Unique, T, Events, n
        <3> QED
            BY <1>2, <1>3, <2>1, <3>1
    <2>2. CASE i = n + 1
        <3>1. e.turn = T + 1 \/ e.turn <= T
            BY DEF Numbers, T, n
        <3>2. e.type = "turn/start" \/ e.turn <= T
            BY DEF Numbers, T, n
        <3> QED
            BY <1>1, <1>2, <1>7, <2>2, <3>1, <3>2
    <2> QED
        BY <1>8, <2>1, <2>2
<1>11. ASSUME NEW i \in 1 .. n + 1, NEW j \in 1 .. n + 1, L[i].type = "step/start", L[j].type = "step/start",
              L[i].turn = L[j].turn, L[i].step = L[j].step
       PROVE  i = j
    <2>1. CASE i \in 1 .. n /\ j \in 1 .. n
        BY <1>1, <1>3, <1>11, <2>1 DEF Unique
    <2>2. \A k \in 1 .. n : e.type = "step/start" /\ log[k].type = "step/start" => ~(log[k].turn = e.turn /\ log[k].step = e.step)
        BY <1>1 DEF Numbers
    <2>3. CASE i = n + 1 /\ j \in 1 .. n
        BY <1>1, <1>3, <1>11, <2>2, <2>3
    <2>4. CASE i \in 1 .. n /\ j = n + 1
        BY <1>1, <1>3, <1>11, <2>2, <2>4
    <2> QED
        BY <1>8, <2>1, <2>3, <2>4
<1>12. Unique(L)
    BY <1>1, <1>9, <1>10, <1>11 DEF Unique
<1> QED
    BY <1>12 DEF L

-----------------------------------------------------------------------------
(* The turns of a log.                                                     *)

\* The turns started among the first events are no more than all of them.
LEMMA TurnStartsUpTo ==
    ASSUME NEW log \in Seq(Events), NEW i \in 0 .. Len(log)
    PROVE  TurnStarts(log, i) \in Nat /\ TurnStarts(log, i) <= TurnStarts(log, Len(log))
<1> DEFINE S == Before(log, Len(log), {"turn/start"})
           s == Before(log, i, {"turn/start"})
<1>1. s \subseteq S /\ S \subseteq 1 .. Len(log) /\ Len(log) \in Nat
    BY DEF Before
<1>2. IsFiniteSet(1 .. Len(log))
    BY <1>1, FS_Interval
<1>3. TurnStarts(log, i) = Cardinality(s) /\ TurnStarts(log, Len(log)) = Cardinality(S)
    BY DEF TurnStarts
<1> HIDE DEF s, S
<1>4. IsFiniteSet(S)
    BY <1>1, <1>2, FS_Subset
<1>5. IsFiniteSet(s) /\ Cardinality(s) <= Cardinality(S)
    BY <1>1, <1>4, FS_Subset
<1>6. Cardinality(s) \in Nat
    BY <1>5, FS_CardinalityType
<1> QED
    BY <1>3, <1>5, <1>6

\* The same events have started the same turns, whatever follows them.
LEMMA TurnStartsSame ==
    ASSUME NEW L, NEW log, NEW i \in Nat, \A k \in 1 .. i : L[k] = log[k]
    PROVE  TurnStarts(L, i) = TurnStarts(log, i)
<1>1. Before(L, i, {"turn/start"}) = Before(log, i, {"turn/start"})
    BY DEF Before
<1> QED
    BY <1>1 DEF TurnStarts

\* One more event is one more of its type in the last turn.
LEMMA OfTypeAppend ==
    ASSUME NEW log \in Seq(Events), NEW e \in Events, NEW type, NEW k
    PROVE  LET L == Append(log, e)
               n == Len(log)
           IN  /\ OfType(log, type, k) \subseteq 1 .. n
               /\ e.type = type /\ TurnStarts(L, n + 1) = k => OfType(L, type, k) = OfType(log, type, k) \cup {n + 1}
               /\ ~(e.type = type /\ TurnStarts(L, n + 1) = k) => OfType(L, type, k) = OfType(log, type, k)
<1> DEFINE L == Append(log, e)
           n == Len(log)
<1>1. Extends(L, log) /\ L[n + 1] = e /\ n \in Nat /\ DOMAIN L = 1 .. n + 1 /\ DOMAIN log = 1 .. n
    BY AppendIs
<1>2. ASSUME NEW i \in 1 .. n PROVE L[i] = log[i] /\ TurnStarts(L, i) = TurnStarts(log, i)
    <2>1. i \in Nat /\ \A x \in 1 .. i : L[x] = log[x]
        BY <1>1 DEF Extends
    <2> HIDE DEF L
    <2> QED
        BY <1>1, <2>1, TurnStartsSame DEF Extends
<1>3. 1 .. n + 1 = (1 .. n) \cup {n + 1}
    BY <1>1
<1> HIDE DEF L, n
<1>4. OfType(log, type, k) = {i \in 1 .. n : log[i].type = type /\ TurnStarts(log, i) = k}
    BY <1>1 DEF OfType
<1>5. OfType(L, type, k) = {i \in (1 .. n) \cup {n + 1} : L[i].type = type /\ TurnStarts(L, i) = k}
    BY <1>1, <1>3 DEF OfType
<1>6. {i \in 1 .. n : L[i].type = type /\ TurnStarts(L, i) = k} = OfType(log, type, k)
    BY <1>2, <1>4
<1> QED
    BY <1>1, <1>4, <1>5, <1>6 DEF L, n

\* A bracket in its place opens or ends the last turn.
LEMMA MarkedAppend ==
    ASSUME NEW log \in Seq(Events), NEW e \in Events, Marked(log), Placed(log, e)
    PROVE  Marked(Append(log, e))
<1> DEFINE L == Append(log, e)
           n == Len(log)
           T == TurnStarts(log, n)
           U == TurnStarts(L, n + 1)
<1>1. Len(L) = n + 1 /\ n \in Nat
    BY AppendIs
<1>2. T \in Nat /\ (e.type = "turn/start" => U = T + 1) /\ (e.type # "turn/start" => U = T)
    BY TurnStartsAppend
<1>3. \A k : /\ e.type = "turn/end" /\ U = k => OfType(L, "turn/end", k) = OfType(log, "turn/end", k) \cup {n + 1}
             /\ ~(e.type = "turn/end" /\ U = k) => OfType(L, "turn/end", k) = OfType(log, "turn/end", k)
    BY OfTypeAppend
<1>4. /\ e.type = "turn/end" => Open(L) = "none"
      /\ e.type \in {"turn/start", "step/end"} => Open(L) = "turn"
      /\ e.type = "step/start" => Open(L) = "step"
      /\ e.type \notin Anchors => Open(L) = Open(log)
    BY AppendOpens
<1>5. OfType(log, "turn/end", T + 1) = {}
    <2>1. ASSUME NEW i \in DOMAIN log, TurnStarts(log, i) = T + 1 PROVE FALSE
        <3>1. i \in 0 .. Len(log)
            OBVIOUS
        <3>2. TurnStarts(log, i) <= T /\ TurnStarts(log, i) \in Nat
            BY <3>1, TurnStartsUpTo
        <3> QED
            BY <1>2, <2>1, <3>2
    <2> QED
        BY <2>1 DEF OfType
<1>6. /\ Open(log) = "none" => T = 0 \/ OfType(log, "turn/end", T) # {}
      /\ Open(log) # "none" => T > 0 /\ OfType(log, "turn/end", T) = {}
    BY DEF Marked
<1>7. /\ e.type = "step/start" => Open(log) = "turn"
      /\ e.type = "step/end" => Open(log) = "step"
    BY DEF Placed
<1> HIDE DEF L, n, T, U
<1>8. /\ Open(L) = "none" => U = 0 \/ OfType(L, "turn/end", U) # {}
      /\ Open(L) # "none" => U > 0 /\ OfType(L, "turn/end", U) = {}
    <2>1. CASE e.type = "turn/start"
        BY <1>2, <1>3, <1>4, <1>5, <2>1
    <2>2. CASE e.type = "turn/end"
        BY <1>2, <1>3, <1>4, <2>2
    <2>3. CASE e.type \in {"step/start", "step/end"}
        BY <1>2, <1>3, <1>4, <1>6, <1>7, <2>3
    <2>4. CASE e.type \notin Anchors
        BY <1>2, <1>3, <1>4, <1>6, <2>4 DEF Anchors
    <2> QED
        BY <2>1, <2>2, <2>3, <2>4 DEF Anchors
<1> QED
    BY <1>1, <1>8 DEF Marked, L, U

\* What an event says about the calls of its step, and about the bodies in runs.
Replies(log, e, runs) ==
    /\ e.type = "assistant" =>
          \A j \in OpenerOf(log, Len(log)) .. Len(log) : log[j].type \notin {"assistant", "result"}
    /\ e.type = "result" =>
          /\ \E m \in Nat, N \in Nat : m < N /\ Answers(log, m, N) /\ e.n = m + 1
          /\ e.code \in {"not-started", "aborted", "denied"} => <<e.turn, e.step, e.n>> \notin runs
    /\ e.type = "step/end" /\ e.code # "failed" =>
          \E m \in Nat, N \in Nat : N <= m /\ Answers(log, m, N)

\* The answers of a step whose end does not change.
LEMMA SettledSame ==
    ASSUME NEW L, NEW log, NEW f \in Nat, NEW i \in Nat, f <= i,
           \A k \in f .. i : L[k] = log[k], Settled(log, f, i)
    PROVE  Settled(L, f, i)
<1>1. PICK m \in Nat : /\ InOrder(log, f, i, m)
                       /\ log[i].code # "failed" => \A j \in f .. i : log[j].type = "assistant" => log[j].n <= m
    BY DEF Settled
<1>2. InOrder(L, f, i, m)
    BY <1>1, InOrderSame
<1>3. L[i] = log[i]
    OBVIOUS
<1>4. L[i].code # "failed" => \A j \in f .. i : L[j].type = "assistant" => L[j].n <= m
    BY <1>1, <1>3
<1> QED
    BY <1>2, <1>4 DEF Settled

\* The next call's result, and an event that is none.
LEMMA AnswersNext ==
    ASSUME NEW log \in Seq(Events), NEW e \in Events, NEW m \in Nat, NEW N \in Nat,
           Open(log) = "step", Answers(log, m, N), e.type = "result", e.n = m + 1
    PROVE  Answers(Append(log, e), m + 1, N)
<1> DEFINE L == Append(log, e)
           n == Len(log)
           f == OpenerOf(log, n)
<1>1. Extends(L, log) /\ Len(L) = n + 1 /\ L[n + 1] = e /\ n \in Nat /\ n \in 0 .. Len(log)
    BY AppendIs
<1>2. f \in 1 .. n
    BY <1>1, OpenStepIs DEF Open
<1>3. \A k \in f .. n : L[k] = log[k]
    BY <1>1, <1>2 DEF Extends
<1>4. \A k \in f .. n + 1 : k \in f .. n \/ k = n + 1
    BY <1>1, <1>2
<1>5. OpenerOf(L, n + 1) = f
    BY AppendOpener
<1>6. InOrder(log, f, n, m) /\ \A j \in f .. n : log[j].type = "assistant" => log[j].n = N
    BY DEF Answers
<1> HIDE DEF L, n, f
<1>7. InOrder(L, f, n + 1, m + 1)
    <2>1. f \in Nat /\ f <= n + 1 /\ L[n + 1].type = "result" /\ L[n + 1].n = m + 1
        BY <1>1, <1>2
    <2> QED
        BY <1>1, <1>3, <1>6, <2>1, InOrderNext
<1>8. \A j \in f .. n + 1 : L[j].type = "assistant" => L[j].n = N
    BY <1>1, <1>3, <1>4, <1>6
<1>9. Answers(L, m + 1, N)
    BY <1>1, <1>5, <1>7, <1>8 DEF Answers
<1> QED
    BY <1>9 DEF L

\* An event that is no result keeps the answers; a message is taken as it comes.
LEMMA AnswersSkip ==
    ASSUME NEW log \in Seq(Events), NEW e \in Events, NEW m \in Nat, NEW N \in Nat,
           Open(log) = "step", Answers(log, m, N), e.type \notin {"result", "step/start"},
           e.type = "assistant" => e.n = N
    PROVE  Answers(Append(log, e), m, N)
<1> DEFINE L == Append(log, e)
           n == Len(log)
           f == OpenerOf(log, n)
<1>1. Extends(L, log) /\ Len(L) = n + 1 /\ L[n + 1] = e /\ n \in Nat /\ n \in 0 .. Len(log)
    BY AppendIs
<1>2. f \in 1 .. n
    BY <1>1, OpenStepIs DEF Open
<1>3. \A k \in f .. n : L[k] = log[k]
    BY <1>1, <1>2 DEF Extends
<1>4. \A k \in f .. n + 1 : k \in f .. n \/ k = n + 1
    BY <1>1, <1>2
<1>5. OpenerOf(L, n + 1) = f
    BY AppendOpener
<1>6. InOrder(log, f, n, m) /\ \A j \in f .. n : log[j].type = "assistant" => log[j].n = N
    BY DEF Answers
<1> HIDE DEF L, n, f
<1>7. InOrder(L, f, n + 1, m)
    <2>1. f \in Nat /\ L[n + 1].type # "result"
        BY <1>1, <1>2
    <2> QED
        BY <1>1, <1>3, <1>6, <2>1, InOrderSkip
<1>8. \A j \in f .. n + 1 : L[j].type = "assistant" => L[j].n = N
    BY <1>1, <1>3, <1>4, <1>6
<1>9. Answers(L, m, N)
    BY <1>1, <1>5, <1>7, <1>8 DEF Answers
<1> QED
    BY <1>9 DEF L

\* An event with such replies keeps the answers in order.
LEMMA OrderedAppend ==
    ASSUME NEW log \in Seq(Events), NEW e \in Events, NEW runs,
           Within(log), Ordered(log), Placed(log, e), Replies(log, e, runs)
    PROVE  Ordered(Append(log, e))
<1> DEFINE L == Append(log, e)
           n == Len(log)
           f == OpenerOf(log, n)
<1>1. Extends(L, log) /\ Len(L) = n + 1 /\ L[n + 1] = e /\ n \in Nat /\ DOMAIN L = 1 .. n + 1 /\ DOMAIN log = 1 .. n
    BY AppendIs
<1>2. \A i \in 1 .. n : L[i] = log[i]
    BY <1>1 DEF Extends
<1>3. \A i \in 1 .. n : OpenerOf(L, i) = OpenerOf(log, i)
    <2>1. \A i \in 1 .. n : i \in 0 .. Len(log)
        OBVIOUS
    <2> QED
        BY <1>1, <2>1, PrefixSame
<1>4. Open(log) = "step" => f \in 1 .. n
    <2>1. n \in 0 .. Len(log)
        OBVIOUS
    <2> QED
        BY <2>1, OpenStepIs DEF Open
<1>5. e.type # "step/start" => OpenerOf(L, n + 1) = f
    BY AppendOpener
<1>6. \A i \in 1 .. n + 1 : i \in 1 .. n \/ i = n + 1
    BY <1>1
<1>7. Open(log) = "step" => \E m \in Nat, N \in Nat : m <= N /\ Answers(log, m, N)
    BY DEF Ordered
<1>8. \A m, N : Answers(log, m, N) =>
          InOrder(log, f, n, m) /\ \A j \in f .. n : log[j].type = "assistant" => log[j].n = N
    BY DEF Answers
<1>9. e.n \in Nat
    BY DEF Events
<1>10. Len(L) = n + 1
    BY <1>1
<1>11. Open(log) = "step" => \A k \in f .. n : L[k] = log[k]
    BY <1>1, <1>2, <1>4
<1>12. Open(log) = "step" => \A k \in f .. n + 1 : k \in f .. n \/ k = n + 1
    BY <1>1, <1>4
<1>13. /\ e.type \in {"turn/start", "turn/end", "step/end"} => Open(L) # "step"
       /\ e.type \notin Anchors => Open(L) = Open(log)
    BY AppendOpens DEF Anchors
<1>14. /\ e.type \in {"step/end", "assistant", "result"} => Open(log) = "step"
    BY DEF Placed
<1>15. n = Len(log) /\ f = OpenerOf(log, Len(log))
    OBVIOUS
<1>16. e.type = "step/start" => OpenerOf(L, n + 1) = n + 1
    BY AppendOpener
<1> HIDE DEF L, n, f
<1>20. ASSUME NEW i \in 1 .. n + 1, L[i].type = "step/end" PROVE Settled(L, OpenerOf(L, i), i)
    <2>1. CASE i \in 1 .. n
        <3>1. log[i].type = "step/end" /\ i \in DOMAIN log
            BY <1>1, <1>2, <1>20, <2>1
        <3>2. Settled(log, OpenerOf(log, i), i) /\ OpenerOf(log, i) \in 1 .. i
            BY <3>1 DEF Ordered, Within, StepTypes
        <3>3. \A k \in OpenerOf(log, i) .. i : L[k] = log[k]
            BY <1>1, <1>2, <2>1, <3>2
        <3>4. OpenerOf(log, i) \in Nat /\ i \in Nat /\ OpenerOf(log, i) <= i
            BY <1>1, <2>1, <3>2
        <3> QED
            BY <1>3, <2>1, <3>2, <3>3, <3>4, SettledSame
    <2>2. CASE i = n + 1
        <3>1. e.type = "step/end" /\ Open(log) = "step"
            BY <1>1, <1>14, <1>20, <2>2
        <3>2. PICK m \in Nat, N \in Nat : Answers(log, m, N) /\ (e.code # "failed" => N <= m)
            <4>1. CASE e.code = "failed"
                BY <1>7, <3>1, <4>1
            <4>2. CASE e.code # "failed"
                BY <3>1, <4>2 DEF Replies
            <4> QED
                BY <4>1, <4>2
        <3>3. InOrder(L, f, n + 1, m)
            <4>1. L[n + 1].type # "result" /\ f \in Nat
                BY <1>1, <1>4, <3>1
            <4> QED
                BY <1>1, <1>8, <1>11, <3>1, <3>2, <4>1, InOrderSkip
        <3>4. e.code # "failed" => \A j \in f .. n + 1 : L[j].type = "assistant" => L[j].n <= m
            <4>1. ASSUME e.code # "failed", NEW j \in f .. n + 1, L[j].type = "assistant" PROVE L[j].n <= m
                <5>1. j \in f .. n
                    BY <1>1, <1>12, <3>1, <4>1
                <5>2. L[j].n = N
                    BY <1>8, <1>11, <3>1, <3>2, <4>1, <5>1
                <5> QED
                    BY <3>2, <4>1, <5>2
            <4> QED
                BY <4>1
        <3> QED
            BY <1>1, <1>5, <2>2, <3>1, <3>3, <3>4 DEF Settled
    <2> QED
        BY <1>6, <2>1, <2>2
<1>21. ASSUME Open(L) = "step"
       PROVE  \E m \in Nat, N \in Nat : m <= N /\ Answers(L, m, N)
    <2>1. CASE e.type = "step/start"
        <3>1. OpenerOf(L, n + 1) = n + 1 /\ \A k \in n + 1 .. n + 1 : k = n + 1 /\ L[k].type = "step/start"
            BY <1>1, <1>16, <2>1
        <3>2. InOrder(L, n + 1, n + 1, 0)
            BY <3>1 DEF InOrder
        <3>3. Answers(L, 0, 0)
            BY <1>10, <3>1, <3>2 DEF Answers
        <3> QED
            BY <3>3
    <2>2. CASE e.type = "assistant"
        <3>1. Open(log) = "step" /\ OpenerOf(L, n + 1) = f
            BY <1>5, <1>14, <2>2
        <3>2. \A j \in f .. n : L[j].type \notin {"assistant", "result"}
            BY <1>11, <1>15, <2>2, <3>1 DEF Replies
        <3>3. \A j \in f .. n + 1 : L[j].type # "result" /\ (L[j].type = "assistant" => L[j].n = e.n)
            BY <1>1, <1>12, <2>2, <3>1, <3>2
        <3>4. InOrder(L, f, n + 1, 0)
            BY <3>3 DEF InOrder
        <3>5. Answers(L, 0, e.n)
            BY <1>10, <3>1, <3>3, <3>4 DEF Answers
        <3> QED
            BY <1>9, <3>5
    <2>3. CASE e.type = "result"
        <3>1. PICK m \in Nat, N \in Nat : m < N /\ Answers(log, m, N) /\ e.n = m + 1
            BY <2>3 DEF Replies
        <3>2. Answers(L, m + 1, N)
            BY <1>14, <2>3, <3>1, AnswersNext DEF L
        <3> QED
            BY <3>1, <3>2
    <2>4. CASE e.type \notin Anchors \cup {"assistant", "result"}
        <3>1. Open(log) = "step"
            BY <1>13, <1>21, <2>4 DEF Anchors
        <3>2. PICK m \in Nat, N \in Nat : m <= N /\ Answers(log, m, N)
            BY <1>7, <3>1
        <3>3. Answers(L, m, N)
            BY <2>4, <3>1, <3>2, AnswersSkip DEF L, Anchors
        <3> QED
            BY <3>2, <3>3
    <2> QED
        BY <1>13, <1>21, <2>1, <2>2, <2>3, <2>4 DEF Anchors
<1>22. Ordered(L)
    BY <1>1, <1>20, <1>21 DEF Ordered
<1> QED
    BY <1>22 DEF L

\* An honest event keeps the log truthful.
LEMMA TruthfulAppend ==
    ASSUME NEW log \in Seq(Events), NEW e \in Events, NEW runs, Truthful(log, runs), Replies(log, e, runs)
    PROVE  Truthful(Append(log, e), runs)
<1> DEFINE L == Append(log, e)
           n == Len(log)
<1>1. Extends(L, log) /\ L[n + 1] = e /\ n \in Nat /\ DOMAIN L = 1 .. n + 1 /\ DOMAIN log = 1 .. n
    BY AppendIs
<1>2. \A i \in 1 .. n : L[i] = log[i] /\ i \in 1 .. n + 1
    BY <1>1 DEF Extends
<1>3. \A i \in 1 .. n + 1 : i \in 1 .. n \/ i = n + 1
    BY <1>1
<1> HIDE DEF L, n
<1>4. \A r \in runs : \E j \in DOMAIN L : L[j] = Event("call", r[1], r[2], r[3], "")
    BY <1>1, <1>2 DEF Truthful
<1>5. ASSUME NEW i \in 1 .. n + 1, L[i].type = "result", L[i].code \in {"not-started", "aborted", "denied"}
      PROVE  <<L[i].turn, L[i].step, L[i].n>> \notin runs
    <2>1. CASE i \in 1 .. n
        BY <1>1, <1>2, <1>5, <2>1 DEF Truthful
    <2>2. CASE i = n + 1
        BY <1>1, <1>5, <2>2 DEF Replies
    <2> QED
        BY <1>3, <2>1, <2>2
<1>6. Truthful(L, runs)
    BY <1>1, <1>4, <1>5 DEF Truthful
<1> QED
    BY <1>6 DEF L

\* An event that fits after a log.
Fits(log, e, runs) == e \in Events /\ Placed(log, e) /\ Numbers(log, e) /\ Replies(log, e, runs)

\* It keeps all that is known of the log.
LEMMA LogAppend ==
    ASSUME NEW log \in Seq(Events), NEW runs, LogInv(log, runs), NEW e, Fits(log, e, runs)
    PROVE  LogInv(Append(log, e), runs) /\ Append(log, e) \in Seq(Events)
<1> USE DEF LogInv, Fits
<1>1. Nested(Append(log, e))
    BY NestedAppend
<1>2. Within(Append(log, e))
    BY WithinAppend
<1>3. Unique(Append(log, e))
    BY UniqueAppend
<1>4. Ordered(Append(log, e))
    BY OrderedAppend
<1>5. Truthful(Append(log, e), runs)
    BY TruthfulAppend
<1>6. Marked(Append(log, e))
    BY MarkedAppend
<1> QED
    BY <1>1, <1>2, <1>3, <1>4, <1>5, <1>6

-----------------------------------------------------------------------------
(* What closes an interrupted turn.                                        *)

\* A log that leaves a turn open has started it, and its open step is of this turn.
LEMMA OpenTurnIs ==
    ASSUME NEW log \in Seq(Events), Nested(log), Unique(log), Open(log) # "none"
    PROVE  LET b == LastBefore(log, Len(log), {"turn/start"})
           IN  /\ b \in 1 .. Len(log) /\ log[b].type = "turn/start"
               /\ Open(log) = "step" => log[OpenerOf(log, Len(log))].turn = log[b].turn
<1> DEFINE n == Len(log)
           b == LastBefore(log, n, {"turn/start"})
           j == LastBefore(log, n, Anchors)
<1>1. n \in Nat /\ n \in 0 .. Len(log) /\ DOMAIN log = 1 .. n
    OBVIOUS
<1>2. b \in 0 .. n /\ (b # 0 => log[b].type = "turn/start") /\ \A i \in 1 .. n : log[i].type = "turn/start" => i <= b
    BY <1>1, LastBeforeIs
<1>3. j \in 0 .. n /\ (j # 0 => log[j].type \in Anchors) /\ \A i \in 1 .. n : log[i].type \in Anchors => i <= j
    BY <1>1, LastBeforeIs
<1>4. j # 0 /\ log[j].type \in Anchors /\ log[j].type # "turn/end"
    BY <1>1, <1>3 DEF Open, OpenAt, AnchorAt
<1>5. \A i \in 1 .. n : log[i].type = "step/start" => LastBefore(log, i, {"turn/start"}) \in 1 .. i
    BY <1>1 DEF Unique
<1>6. \A i \in 1 .. n : log[i].type = "step/start" => b # 0
    <2> SUFFICES ASSUME NEW i \in 1 .. n, log[i].type = "step/start" PROVE b # 0
        OBVIOUS
    <2>1. LastBefore(log, i, {"turn/start"}) \in 1 .. i /\ i \in 0 .. Len(log)
        BY <1>1, <1>5
    <2>2. log[LastBefore(log, i, {"turn/start"})].type = "turn/start"
        BY <2>1, LastBeforeIs
    <2> HIDE DEF b
    <2> QED
        BY <1>2, <2>1, <2>2
<1> HIDE DEF b
<1>7. b # 0
    <2>1. CASE log[j].type = "turn/start"
        <3> HIDE DEF j
        <3> QED
            BY <1>2, <1>3, <1>4, <2>1
    <2>2. CASE log[j].type = "step/start"
        <3> HIDE DEF j
        <3> QED
            BY <1>3, <1>4, <1>6, <2>2
    <2>3. CASE log[j].type = "step/end"
        <3>1. OpenAt(log, j - 1) = "step" /\ j - 1 \in 0 .. Len(log)
            BY <1>1, <1>3, <1>4, <2>3, NestedIs DEF Bracketed
        <3>2. OpenerOf(log, j - 1) \in 1 .. j - 1 /\ log[OpenerOf(log, j - 1)].type = "step/start"
            BY <3>1, OpenStepIs
        <3> HIDE DEF j
        <3> QED
            BY <1>1, <1>3, <1>6, <3>2
    <2> QED
        BY <1>4, <2>1, <2>2, <2>3 DEF Anchors
<1>8. ASSUME Open(log) = "step" PROVE log[OpenerOf(log, n)].turn = log[b].turn
    <2> DEFINE f == OpenerOf(log, n)
    <2>1. f \in 1 .. n /\ log[f].type = "step/start"
        BY <1>1, <1>8, OpenStepIs DEF Open
    <2>2. log[f].turn = log[LastBefore(log, f, {"turn/start"})].turn
        BY <1>1, <2>1 DEF Unique
    <2>3. log[j].type = "step/start"
        <3>1. OpenAt(log, n) = "step"
            BY <1>8 DEF Open
        <3>2. log[j].type \in Anchors /\ AnchorAt(log, n) = log[j].type
            BY <1>4 DEF AnchorAt
        <3> HIDE DEF j
        <3> QED
            BY <3>1, <3>2 DEF OpenAt, Anchors
    <2>4. \A i \in 1 .. n : log[i].type = "step/start" => i <= f
        BY <1>1, LastBeforeIs DEF OpenerOf
    <2> HIDE DEF f, j, n
    <2>5. f = j
        BY <1>1, <1>3, <1>4, <2>1, <2>3, <2>4 DEF Anchors
    <2>6. b \in 0 .. f
        <3>1. log[b].type \in Anchors /\ b \in 1 .. n
            BY <1>1, <1>2, <1>7 DEF Anchors
        <3> QED
            BY <1>1, <1>3, <2>5, <3>1
    <2>7. \A i \in 1 .. f : log[i].type \in {"turn/start"} => i <= b
        BY <1>1, <1>2, <2>1
    <2>8. b # 0 => log[b].type \in {"turn/start"}
        BY <1>2
    <2>9. LastBefore(log, f, {"turn/start"}) = b
        <3>1. f \in Nat
            BY <1>1, <2>1
        <3> QED
            BY <2>6, <2>7, <2>8, <3>1, LastBeforeUnique
    <2> QED
        BY <2>2, <2>9 DEF f
<1> QED
    BY <1>1, <1>2, <1>7, <1>8 DEF b

\* The numbers behind m.
LEMMA NthOfRest ==
    ASSUME NEW m \in Nat, NEW N \in Nat, m <= N
    PROVE  /\ Cardinality(m + 1 .. N) = N - m
           /\ \A k \in 1 .. N - m : Nth(m + 1 .. N, k) = m + k
<1>1. \A y \in Nat : m <= y => Cardinality(m + 1 .. y) = y - m
    <2> SUFFICES ASSUME NEW y \in Nat, m <= y PROVE Cardinality(m + 1 .. y) = y - m
        OBVIOUS
    <2>1. Cardinality(m + 1 .. y) = IF m + 1 > y THEN 0 ELSE y - (m + 1) + 1
        BY FS_Interval
    <2> QED
        BY <2>1
<1>2. ASSUME NEW k \in 1 .. N - m PROVE Nth(m + 1 .. N, k) = m + k
    <2>1. \A y \in m + 1 .. N : Cardinality({x \in m + 1 .. N : x <= y}) = y - m
        <3> SUFFICES ASSUME NEW y \in m + 1 .. N PROVE Cardinality({x \in m + 1 .. N : x <= y}) = y - m
            OBVIOUS
        <3>1. {x \in m + 1 .. N : x <= y} = m + 1 .. y
            OBVIOUS
        <3>2. y \in Nat /\ m <= y
            OBVIOUS
        <3> QED
            BY <1>1, <3>1, <3>2
    <2>2. \A y \in m + 1 .. N : Cardinality({x \in m + 1 .. N : x <= y}) = k <=> y = m + k
        BY <2>1
    <2>3. m + k \in m + 1 .. N
        OBVIOUS
    <2> QED
        BY <2>2, <2>3 DEF Nth
<1> QED
    BY <1>1, <1>2

\* The calls of the open step that have no result are the last ones.
LEMMA UnansweredIs ==
    ASSUME NEW log \in Seq(Events), Open(log) = "step", Ordered(log)
    PROVE  \E m \in Nat, N \in Nat : m <= N /\ Answers(log, m, N) /\ Unanswered(log) = m + 1 .. N
<1> DEFINE n == Len(log)
           f == OpenerOf(log, n)
           Asks == {log[j].n : j \in {k \in f .. n : k > 0 /\ log[k].type = "assistant"}}
           Answered1(x) == \E j \in f .. n : j > 0 /\ log[j].type = "result" /\ log[j].n = x
<1>1. PICK m \in Nat, N \in Nat : m <= N /\ Answers(log, m, N)
    BY DEF Ordered
<1>2. n \in Nat /\ n \in 0 .. Len(log)
    OBVIOUS
<1>3. f \in 1 .. n
    BY <1>2, OpenStepIs DEF Open
<1>4. Unanswered(log) = {x \in 1 .. Max({0} \cup Asks) : ~Answered1(x)}
    BY DEF Unanswered, OpenerOf
<1>5. \A x \in Nat \ {0} : Answered1(x) <=> x \in 1 .. m
    <2>1. InOrder(log, f, n, m)
        BY <1>1 DEF Answers
    <2>2. \A j \in f .. n : j > 0
        BY <1>2, <1>3
    <2> HIDE DEF n, f
    <2> QED
        BY <2>1, <2>2 DEF InOrder
<1>6. CASE Asks = {}
    <2>1. Answers(log, m, m)
        <3>1. ASSUME NEW j \in f .. n, log[j].type = "assistant" PROVE FALSE
            <4>1. j > 0
                BY <1>2, <1>3
            <4>2. log[j].n \in Asks
                BY <3>1, <4>1
            <4> QED
                BY <1>6, <4>2
        <3> HIDE DEF n, f
        <3>2. InOrder(log, f, n, m)
            BY <1>1 DEF Answers, f, n
        <3> QED
            BY <3>1, <3>2 DEF Answers, n, f
    <2>2. Max({0} \cup Asks) = 0
        <3>1. {0} \cup Asks = {0}
            BY <1>6
        <3>2. {0} \in SUBSET Nat /\ 0 \in {0} /\ \A y \in {0} : y <= 0
            OBVIOUS
        <3>3. Max({0}) = 0
            BY <3>2, MaxIs
        <3> QED
            BY <3>1, <3>3
    <2>3. Unanswered(log) = {} /\ m + 1 .. m = {}
        BY <1>4, <2>2
    <2> QED
        BY <2>1, <2>3
<1>7. CASE Asks # {}
    <2>1. Asks = {N}
        <3>1. \A j \in f .. n : log[j].type = "assistant" => log[j].n = N
            BY <1>1 DEF Answers
        <3> QED
            BY <1>7, <3>1
    <2>2. Max({0} \cup Asks) = N
        <3> HIDE DEF Asks
        <3>1. {0} \cup Asks \in SUBSET Nat /\ N \in {0} \cup Asks /\ \A y \in {0} \cup Asks : y <= N
            BY <2>1
        <3> QED
            BY <3>1, MaxIs
    <2>3. Unanswered(log) = m + 1 .. N
        <3>1. \A x \in 1 .. N : x \in Nat \ {0}
            OBVIOUS
        <3> HIDE DEF Asks, Answered1
        <3>2. \A x : x \in Unanswered(log) <=> x \in 1 .. N /\ x \notin 1 .. m
            BY <1>4, <1>5, <2>2, <3>1
        <3>3. \A x : x \in 1 .. N /\ x \notin 1 .. m <=> x \in m + 1 .. N
            BY <1>1
        <3> QED
            BY <3>2, <3>3
    <2> QED
        BY <1>1, <2>3
<1> QED
    BY <1>6, <1>7

\* The results that a load gives the open calls behind the m-th.
AnswersOf(log, m, N) ==
    LET from == LastBefore(log, Len(log), {"step/start"})
        t == log[LastBefore(log, Len(log), {"turn/start"})].turn
        Started(x) == \E j \in from .. Len(log) : log[j].type = "call" /\ log[j].n = x
    IN  [k \in 1 .. N - m |->
            Event("result", t, log[from].step, m + k, IF Started(m + k) THEN "unknown" ELSE "not-started")]

\* What a load appends, if anything.
LEMMA ClosersAre ==
    ASSUME NEW log \in Seq(Events), NEW runs, LogInv(log, runs)
    PROVE  LET C == InterruptedTurnClosers(log)
               t == log[LastBefore(log, Len(log), {"turn/start"})].turn
               s == log[OpenerOf(log, Len(log))].step
           IN  /\ Open(log) = "none" => C = <<>>
               /\ Open(log) = "turn" => C = <<Event("turn/end", t, 0, 0, "interrupted")>>
               /\ Open(log) = "step" =>
                    \E m \in Nat, N \in Nat :
                        /\ m <= N /\ Answers(log, m, N)
                        /\ C = AnswersOf(log, m, N) \o <<Event("step/end", t, s, 0, "interrupted")>>
                                                    \o <<Event("turn/end", t, 0, 0, "interrupted")>>
<1> DEFINE C == InterruptedTurnClosers(log)
           t == log[LastBefore(log, Len(log), {"turn/start"})].turn
           s == log[OpenerOf(log, Len(log))].step
<1>1. Nested(log) /\ Ordered(log)
    BY DEF LogInv
<1>2. ASSUME Open(log) = "none" PROVE C = <<>>
    BY <1>2 DEF InterruptedTurnClosers
<1>3. ASSUME Open(log) = "turn" PROVE C = <<Event("turn/end", t, 0, 0, "interrupted")>>
    <2>1. Unanswered(log) = {}
        BY <1>3 DEF Unanswered
    <2>2. Cardinality({}) = 0 /\ 1 .. 0 = {}
        BY FS_EmptySet
    <2>3. \A x \in {<<>>} : \A e : x \o <<>> \o <<e>> = <<e>>
        OBVIOUS
    <2> DEFINE g(k) == Event("result", t, s, Nth(Unanswered(log), k),
                      IF \E j \in LastBefore(log, Len(log), {"step/start"}) .. Len(log) :
                             log[j].type = "call" /\ log[j].n = Nth(Unanswered(log), k)
                      THEN "unknown" ELSE "not-started")
    <2>4. [k \in 1 .. Cardinality(Unanswered(log)) |-> g(k)] = <<>>
        BY <2>1, <2>2
    <2>5. C = [k \in 1 .. Cardinality(Unanswered(log)) |-> g(k)] \o <<>> \o <<Event("turn/end", t, 0, 0, "interrupted")>>
        BY <1>1, <1>3 DEF InterruptedTurnClosers, OpenerOf
    <2> HIDE DEF C, t, s, g
    <2> QED
        BY <2>3, <2>4, <2>5
<1>4. ASSUME Open(log) = "step"
      PROVE  \E m \in Nat, N \in Nat :
                        /\ m <= N /\ Answers(log, m, N)
                        /\ C = AnswersOf(log, m, N) \o <<Event("step/end", t, s, 0, "interrupted")>>
                                                    \o <<Event("turn/end", t, 0, 0, "interrupted")>>
    <2>1. PICK m \in Nat, N \in Nat : m <= N /\ Answers(log, m, N) /\ Unanswered(log) = m + 1 .. N
        BY <1>1, <1>4, UnansweredIs
    <2>2. Cardinality(m + 1 .. N) = N - m /\ \A k \in 1 .. N - m : Nth(m + 1 .. N, k) = m + k
        BY <2>1, NthOfRest
    <2> DEFINE h(x) == Event("result", t, s, x,
                      IF \E j \in LastBefore(log, Len(log), {"step/start"}) .. Len(log) :
                             log[j].type = "call" /\ log[j].n = x
                      THEN "unknown" ELSE "not-started")
    <2>3. C = [k \in 1 .. Cardinality(Unanswered(log)) |-> h(Nth(Unanswered(log), k))]
                 \o <<Event("step/end", t, s, 0, "interrupted")>> \o <<Event("turn/end", t, 0, 0, "interrupted")>>
        BY <1>1, <1>4 DEF InterruptedTurnClosers, OpenerOf
    <2>4. AnswersOf(log, m, N) = [k \in 1 .. N - m |-> h(m + k)]
        BY DEF AnswersOf, OpenerOf
    <2> HIDE DEF C, t, s, h
    <2>5. [k \in 1 .. Cardinality(Unanswered(log)) |-> h(Nth(Unanswered(log), k))] = [k \in 1 .. N - m |-> h(m + k)]
        BY <2>1, <2>2
    <2> QED
        BY <2>1, <2>3, <2>4, <2>5
<1> QED
    BY <1>2, <1>3, <1>4

\* What an event is made of.
LEMMA EventIs ==
    ASSUME NEW type, NEW t, NEW s, NEW n, NEW code
    PROVE  LET e == Event(type, t, s, n, code)
           IN  /\ e.type = type /\ e.turn = t /\ e.step = s /\ e.n = n /\ e.code = code
               /\ (type \in Anchors \cup {"assistant", "call", "result"} /\ t \in Nat /\ s \in Nat
                      /\ n \in Nat /\ code \in Codes) => e \in Events
    BY DEF Event, Events

\* A log and more and more of what follows it.
LEMMA PrefixStep ==
    ASSUME NEW log \in Seq(Events), NEW C \in Seq(Events)
    PROVE  /\ log \o SubSeq(C, 1, 0) = log
           /\ log \o SubSeq(C, 1, Len(C)) = log \o C
           /\ \A k \in 0 .. Len(C) - 1 : log \o SubSeq(C, 1, k + 1) = Append(log \o SubSeq(C, 1, k), C[k + 1])
<1>1. SubSeq(C, 1, 0) = <<>> /\ log \o <<>> = log
    OBVIOUS
<1>2. SubSeq(C, 1, Len(C)) = C
    OBVIOUS
<1>3. ASSUME NEW k \in 0 .. Len(C) - 1 PROVE log \o SubSeq(C, 1, k + 1) = Append(log \o SubSeq(C, 1, k), C[k + 1])
    <2>1. SubSeq(C, 1, k) \in Seq(Events) /\ SubSeq(C, 1, k + 1) = Append(SubSeq(C, 1, k), C[k + 1])
        OBVIOUS
    <2>2. \A a \in Seq(Events), x \in Events : log \o Append(a, x) = Append(log \o a, x)
        OBVIOUS
    <2>3. C[k + 1] \in Events
        OBVIOUS
    <2> QED
        BY <2>1, <2>2, <2>3
<1> QED
    BY <1>1, <1>2, <1>3

\* A sequence with two more elements.
LEMMA TwoMore ==
    ASSUME NEW a \in Seq(Events), NEW x \in Events, NEW y \in Events
    PROVE  LET C == a \o <<x>> \o <<y>>
           IN  /\ C \in Seq(Events) /\ Len(C) = Len(a) + 2
               /\ \A k \in 1 .. Len(a) : C[k] = a[k]
               /\ C[Len(a) + 1] = x /\ C[Len(a) + 2] = y
<1>1. /\ a \o <<x>> \in Seq(Events) /\ Len(a \o <<x>>) = Len(a) + 1
      /\ (a \o <<x>>)[Len(a) + 1] = x /\ \A k \in 1 .. Len(a) : (a \o <<x>>)[k] = a[k]
    OBVIOUS
<1>2. ASSUME NEW c \in Seq(Events)
      PROVE  /\ c \o <<y>> \in Seq(Events) /\ Len(c \o <<y>>) = Len(c) + 1 /\ (c \o <<y>>)[Len(c) + 1] = y
             /\ \A k \in 1 .. Len(c) : (c \o <<y>>)[k] = c[k]
    OBVIOUS
<1>3. Len(a) \in Nat
    OBVIOUS
<1> DEFINE d == a \o <<x>>
<1>4. d \in Seq(Events) /\ Len(d) = Len(a) + 1 /\ d[Len(a) + 1] = x /\ \A k \in 1 .. Len(a) : d[k] = a[k]
    BY <1>1
<1> HIDE DEF d
<1>5. /\ d \o <<y>> \in Seq(Events) /\ Len(d \o <<y>>) = Len(d) + 1 /\ (d \o <<y>>)[Len(d) + 1] = y
             /\ \A k \in 1 .. Len(d) : (d \o <<y>>)[k] = d[k]
    BY <1>2, <1>4
<1>6. /\ d \o <<y>> \in Seq(Events) /\ Len(d \o <<y>>) = Len(a) + 2 /\ (d \o <<y>>)[Len(a) + 2] = y
      /\ (d \o <<y>>)[Len(a) + 1] = x /\ \A k \in 1 .. Len(a) : (d \o <<y>>)[k] = a[k]
    BY <1>3, <1>4, <1>5
<1> QED
    BY <1>6 DEF d

\* A call that the open step has not recorded has no body.
LEMMA UnrecordedIs ==
    ASSUME NEW log \in Seq(Events), NEW runs, LogInv(log, runs), Open(log) = "step", NEW x,
           \A j \in OpenerOf(log, Len(log)) .. Len(log) : ~(log[j].type = "call" /\ log[j].n = x)
    PROVE  <<log[OpenerOf(log, Len(log))].turn, log[OpenerOf(log, Len(log))].step, x>> \notin runs
<1> DEFINE n == Len(log)
           f == OpenerOf(log, n)
           r == <<log[f].turn, log[f].step, x>>
<1>1. n \in Nat /\ n \in 0 .. Len(log) /\ DOMAIN log = 1 .. n
    OBVIOUS
<1>2. f \in 1 .. n /\ log[f].type = "step/start"
    BY <1>1, OpenStepIs DEF Open
<1>3. SUFFICES ASSUME r \in runs PROVE FALSE
    OBVIOUS
<1>4. PICK j \in DOMAIN log : log[j] = Event("call", r[1], r[2], r[3], "")
    <2>1. \A q \in runs : \E j \in DOMAIN log : log[j] = Event("call", q[1], q[2], q[3], "")
        BY DEF LogInv, Truthful
    <2> HIDE DEF r
    <2> QED
        BY <1>3, <2>1, Zenon
<1>5. log[j].type = "call" /\ log[j].turn = log[f].turn /\ log[j].step = log[f].step /\ log[j].n = x
    <2>1. r[1] = log[f].turn /\ r[2] = log[f].step /\ r[3] = x
        OBVIOUS
    <2> HIDE DEF r, f, n
    <2> DEFINE e == Event("call", r[1], r[2], r[3], "")
    <2>2. e.type = "call" /\ e.turn = r[1] /\ e.step = r[2] /\ e.n = r[3]
        BY DEF Event
    <2>3. log[j] = e
        BY <1>4
    <2> HIDE DEF e
    <2> QED
        BY <2>1, <2>2, <2>3
<1> DEFINE o == OpenerOf(log, j)
<1>6. o \in 1 .. j /\ log[j].turn = log[o].turn /\ log[j].step = log[o].step
    <2>1. log[j].type \in StepTypes /\ j \in 1 .. n
        BY <1>1, <1>5 DEF StepTypes
    <2> QED
        BY <1>1, <2>1 DEF LogInv, Within
<1>7. log[o].type = "step/start"
    <2>1. j \in 0 .. Len(log)
        BY <1>1
    <2>2. o # 0 => log[o].type \in {"step/start"}
        BY <2>1, LastBeforeIs DEF OpenerOf
    <2> QED
        BY <1>6, <2>2
<1>8. o = f
    <2>1. o \in DOMAIN log /\ f \in DOMAIN log
        BY <1>1, <1>2, <1>6
    <2> HIDE DEF o, f
    <2> QED
        BY <1>2, <1>5, <1>6, <1>7, <2>1 DEF LogInv, Unique
<1>9. j \in f .. n
    <2>1. j \in 1 .. n
        BY <1>1
    <2> HIDE DEF o, f
    <2> QED
        BY <1>1, <1>2, <1>6, <1>8, <2>1
<1> QED
    BY <1>5, <1>9

\* The result of the next call fits.
LEMMA ResultFits ==
    ASSUME NEW log \in Seq(Events), NEW runs, LogInv(log, runs), Open(log) = "step",
           NEW m \in Nat, NEW N \in Nat, Answers(log, m, N), m < N, NEW code \in Codes, NEW t, NEW s,
           t = log[OpenerOf(log, Len(log))].turn, s = log[OpenerOf(log, Len(log))].step,
           code \in {"not-started", "aborted", "denied"} => <<t, s, m + 1>> \notin runs
    PROVE  Fits(log, Event("result", t, s, m + 1, code), runs)
<1> DEFINE e == Event("result", t, s, m + 1, code)
           f == OpenerOf(log, Len(log))
<1>1. f \in 1 .. Len(log)
    <2>1. Len(log) \in 0 .. Len(log)
        OBVIOUS
    <2> QED
        BY <2>1, OpenStepIs DEF Open
<1>2. log[f] \in Events
    BY <1>1
<1>3. e \in Events
    <2>1. t \in Nat /\ s \in Nat /\ m + 1 \in Nat
        BY <1>2 DEF Events
    <2> QED
        BY <2>1 DEF Event, Events, Anchors
<1>4. t <= TurnStarts(log, Len(log))
    BY <1>1 DEF LogInv, Unique
<1> HIDE DEF f
<1>5. e.type = "result" /\ e.turn = t /\ e.step = s /\ e.n = m + 1 /\ e.code = code
    BY DEF Event
<1> HIDE DEF e
<1>6. Placed(log, e)
    BY <1>5 DEF Placed
<1>7. Numbers(log, e)
    BY <1>4, <1>5 DEF Numbers
<1>8. Replies(log, e, runs)
    BY <1>5 DEF Replies
<1> QED
    BY <1>3, <1>6, <1>7, <1>8 DEF Fits, e

\* The end of a step that is answered, or failed, fits.
LEMMA StepEndFits ==
    ASSUME NEW log \in Seq(Events), NEW runs, LogInv(log, runs), Open(log) = "step", NEW code \in Codes,
           NEW t, NEW s, t = log[OpenerOf(log, Len(log))].turn, s = log[OpenerOf(log, Len(log))].step,
           code # "failed" => \E m \in Nat, N \in Nat : N <= m /\ Answers(log, m, N)
    PROVE  Fits(log, Event("step/end", t, s, 0, code), runs)
<1> DEFINE e == Event("step/end", t, s, 0, code)
           f == OpenerOf(log, Len(log))
<1>1. f \in 1 .. Len(log)
    <2>1. Len(log) \in 0 .. Len(log)
        OBVIOUS
    <2> QED
        BY <2>1, OpenStepIs DEF Open
<1>2. log[f] \in Events
    BY <1>1
<1>3. e \in Events
    BY <1>2 DEF Event, Events, Codes, TurnStatuses, Anchors
<1>4. t <= TurnStarts(log, Len(log))
    BY <1>1 DEF LogInv, Unique
<1> HIDE DEF f
<1>5. e.type = "step/end" /\ e.turn = t /\ e.step = s /\ e.code = code
    BY DEF Event
<1> HIDE DEF e
<1>6. Placed(log, e)
    BY <1>5 DEF Placed
<1>7. Numbers(log, e)
    BY <1>4, <1>5 DEF Numbers
<1>8. Replies(log, e, runs)
    BY <1>5 DEF Replies
<1> QED
    BY <1>3, <1>6, <1>7, <1>8 DEF Fits, e

\* So does the end of a turn.
LEMMA TurnEndFits ==
    ASSUME NEW log \in Seq(Events), NEW runs, LogInv(log, runs), Open(log) = "turn", NEW code \in Codes,
           NEW t \in Nat, t <= TurnStarts(log, Len(log))
    PROVE  Fits(log, Event("turn/end", t, 0, 0, code), runs)
<1> DEFINE e == Event("turn/end", t, 0, 0, code)
<1>1. e \in Events /\ e.type = "turn/end" /\ e.turn = t
    BY DEF Event, Events, Codes, TurnStatuses, Anchors
<1> HIDE DEF e
<1>2. Placed(log, e) /\ Numbers(log, e) /\ Replies(log, e, runs)
    BY <1>1 DEF Placed, Numbers, Replies
<1> QED
    BY <1>1, <1>2 DEF Fits, e

\* A log leaves nothing, a turn or a step open.
LEMMA OpenKinds ==
    ASSUME NEW log \in Seq(Events)
    PROVE  Open(log) \in {"none", "turn", "step"}
<1> DEFINE j == LastBefore(log, Len(log), Anchors)
<1>1. Len(log) \in 0 .. Len(log)
    OBVIOUS
<1>2. j # 0 => log[j].type \in Anchors
    BY <1>1, LastBeforeIs
<1>3. AnchorAt(log, Len(log)) \in Anchors \cup {"none"}
    BY <1>2 DEF AnchorAt
<1> QED
    BY <1>3 DEF Open, OpenAt, Anchors

\* A load keeps what is known of the log after each record that it appends, and leaves
\* nothing open.
LEMMA ClosersKeep ==
    ASSUME NEW log \in Seq(Events), NEW runs, LogInv(log, runs)
    PROVE  LET C == InterruptedTurnClosers(log)
           IN  /\ C \in Seq(Events)
               /\ \A k \in 0 .. Len(C) :
                     LogInv(log \o SubSeq(C, 1, k), runs) /\ log \o SubSeq(C, 1, k) \in Seq(Events)
               /\ Open(log \o C) = "none"
<1> DEFINE C == InterruptedTurnClosers(log)
           P(k) == log \o SubSeq(C, 1, k)
           b == LastBefore(log, Len(log), {"turn/start"})
           t == log[b].turn
           f == OpenerOf(log, Len(log))
           s == log[f].step
           stepEnd == Event("step/end", t, s, 0, "interrupted")
           turnEnd == Event("turn/end", t, 0, 0, "interrupted")
           Good(k) == LogInv(P(k), runs) /\ P(k) \in Seq(Events)
<1>1. Open(log) \in {"none", "turn", "step"}
    BY OpenKinds
<1>2. CASE Open(log) = "none"
    <2>1. C = <<>>
        BY <1>2, ClosersAre
    <2>2. Len(<<>>) = 0 /\ <<>> \in Seq(Events) /\ SubSeq(<<>>, 1, 0) = <<>> /\ log \o <<>> = log
        OBVIOUS
    <2>3. \A k \in 0 .. 0 : k = 0
        OBVIOUS
    <2>4. \A D : D = <<>> => /\ D \in Seq(Events) /\ log \o D = log
                            /\ \A k \in 0 .. Len(D) : log \o SubSeq(D, 1, k) = log
        BY <2>2, <2>3
    <2> HIDE DEF C
    <2> QED
        BY <1>2, <2>1, <2>4 DEF C
<1>3. ASSUME Open(log) # "none"
      PROVE  /\ b \in 1 .. Len(log) /\ t \in Nat /\ t <= TurnStarts(log, Len(log)) /\ turnEnd \in Events
             /\ Open(log) = "step" => /\ t = log[f].turn /\ s \in Nat /\ f \in 1 .. Len(log)
                                      /\ stepEnd \in Events
    <2>1. Nested(log) /\ Unique(log)
        BY DEF LogInv
    <2>2. b \in 1 .. Len(log) /\ (Open(log) = "step" => log[f].turn = t)
        BY <1>3, <2>1, OpenTurnIs
    <2>3. Open(log) = "step" => f \in 1 .. Len(log)
        <3>1. Len(log) \in 0 .. Len(log)
            OBVIOUS
        <3> QED
            BY <3>1, OpenStepIs DEF Open
    <2>4. log[b] \in Events /\ (Open(log) = "step" => log[f] \in Events)
        BY <2>2, <2>3
    <2>5. t \in Nat /\ (Open(log) = "step" => s \in Nat)
        BY <2>4 DEF Events
    <2>6. t <= TurnStarts(log, Len(log))
        BY <2>1, <2>2 DEF Unique
    <2> HIDE DEF t, s
    <2>7. turnEnd \in Events /\ (Open(log) = "step" => stepEnd \in Events)
        BY <2>5 DEF Event, Events, Anchors, Codes, TurnStatuses
    <2> QED
        BY <2>2, <2>3, <2>5, <2>6, <2>7 DEF t
<1>4. CASE Open(log) = "turn"
    <2>1. C = <<turnEnd>>
        BY <1>4, ClosersAre
    <2>2. turnEnd \in Events /\ t \in Nat /\ t <= TurnStarts(log, Len(log))
        BY <1>3, <1>4
    <2>3. Fits(log, turnEnd, runs)
        <3>1. "interrupted" \in Codes
            BY DEF Codes, TurnStatuses
        <3> HIDE DEF t
        <3> QED
            BY <1>4, <2>2, <3>1, TurnEndFits DEF turnEnd
    <2> HIDE DEF turnEnd, C, t
    <2>4. C \in Seq(Events) /\ Len(C) = 1 /\ C[1] = turnEnd
        BY <2>1, <2>2
    <2>5. P(0) = log /\ P(1) = log \o C /\ P(1) = Append(log, turnEnd)
        <3>1. P(0) = log /\ P(Len(C)) = log \o C
            BY <2>4, PrefixStep
        <3>2. 0 \in 0 .. Len(C) - 1 /\ 0 + 1 = 1
            BY <2>4
        <3>3. P(0 + 1) = Append(P(0), C[0 + 1])
            BY <2>4, <3>2, PrefixStep
        <3> HIDE DEF P
        <3> QED
            BY <2>4, <3>1, <3>2, <3>3
    <2>6. LogInv(P(1), runs) /\ P(1) \in Seq(Events)
        <3> HIDE DEF P
        <3> QED
            BY <2>3, <2>5, LogAppend
    <2>7. Open(P(1)) = "none"
        <3>1. turnEnd.type = "turn/end"
            BY DEF turnEnd, Event
        <3>2. Open(Append(log, turnEnd)) = "none"
            BY <2>2, <3>1, AppendOpens
        <3> HIDE DEF P
        <3> QED
            BY <2>5, <3>2
    <2>8. \A k \in 0 .. Len(C) : k = 0 \/ k = 1
        BY <2>4
    <2> HIDE DEF P
    <2>9. \A k \in 0 .. Len(C) : LogInv(P(k), runs) /\ P(k) \in Seq(Events)
        BY <2>5, <2>6, <2>8
    <2> QED
        BY <2>4, <2>5, <2>7, <2>9 DEF P, C
<1>5. CASE Open(log) = "step"
    <2>1. PICK m \in Nat, N \in Nat :
              /\ m <= N /\ Answers(log, m, N)
              /\ C = AnswersOf(log, m, N) \o <<stepEnd>> \o <<turnEnd>>
        BY <1>5, ClosersAre
    <2> DEFINE a == AnswersOf(log, m, N)
               A == N - m
    <2>2. /\ t \in Nat /\ t <= TurnStarts(log, Len(log)) /\ turnEnd \in Events
          /\ t = log[f].turn /\ s \in Nat /\ f \in 1 .. Len(log) /\ stepEnd \in Events
        BY <1>3, <1>5
    <2>3. /\ A \in Nat /\ Len(a) = A /\ a \in Seq(Events)
          /\ \A k \in 1 .. A : \E code \in {"unknown", "not-started"} :
                /\ a[k] = Event("result", t, s, m + k, code)
                /\ code = "not-started" =>
                      \A j \in f .. Len(log) : ~(log[j].type = "call" /\ log[j].n = m + k)
        <3> DEFINE Started(x) == \E j \in f .. Len(log) : log[j].type = "call" /\ log[j].n = x
                   g(k) == Event("result", t, s, m + k, IF Started(m + k) THEN "unknown" ELSE "not-started")
        <3>1. a = [k \in 1 .. A |-> g(k)]
            BY DEF AnswersOf, OpenerOf
        <3>2. A \in Nat
            BY <2>1
        <3> HIDE DEF t, s, f, a
        <3>3. \A k \in 1 .. A : \E code \in {"unknown", "not-started"} :
                /\ g(k) = Event("result", t, s, m + k, code)
                /\ code = "not-started" => ~Started(m + k)
            OBVIOUS
        <3> HIDE DEF Started
        <3>4. ASSUME NEW k \in 1 .. A PROVE g(k) \in Events
            <4>1. m + k \in Nat
                BY <3>2
            <4>2. PICK code \in {"unknown", "not-started"} : g(k) = Event("result", t, s, m + k, code)
                BY <3>3
            <4>3. t \in Nat /\ s \in Nat
                BY <2>2
            <4>4. code \in Codes /\ "result" \in Anchors \cup {"assistant", "call", "result"}
                BY DEF Codes, TurnStatuses
            <4>5. Event("result", t, s, m + k, code) \in Events
                BY <4>1, <4>3, <4>4, EventIs
            <4> HIDE DEF g
            <4> QED
                BY <4>2, <4>5
        <3> HIDE DEF g, A
        <3>5. Len(a) = A /\ a \in Seq(Events) /\ \A k \in 1 .. A : a[k] = g(k)
            BY <3>1, <3>2, <3>4
        <3> QED
            BY <3>2, <3>3, <3>5 DEF Started
    <2>4. /\ C \in Seq(Events) /\ Len(C) = A + 2 /\ C[A + 1] = stepEnd /\ C[A + 2] = turnEnd
          /\ \A k \in 1 .. A : C[k] = a[k]
        <3>1. C = a \o <<stepEnd>> \o <<turnEnd>>
            BY <2>1
        <3> DEFINE D == a \o <<stepEnd>> \o <<turnEnd>>
        <3> HIDE DEF a, A, stepEnd, turnEnd, C, t, f, s
        <3>2. a \in Seq(Events) /\ stepEnd \in Events /\ turnEnd \in Events
            BY <2>2, <2>3
        <3>3. /\ D \in Seq(Events) /\ Len(D) = Len(a) + 2 /\ \A k \in 1 .. Len(a) : D[k] = a[k]
              /\ D[Len(a) + 1] = stepEnd /\ D[Len(a) + 2] = turnEnd
            BY <3>2, TwoMore
        <3> HIDE DEF D
        <3>4. C = D
            BY <3>1 DEF D
        <3>5. Len(a) = A
            BY <2>3
        <3> QED
            BY <3>3, <3>4, <3>5
    <2>5. /\ P(0) = log /\ P(Len(C)) = log \o C
          /\ \A k \in 0 .. A + 1 : P(k + 1) = Append(P(k), C[k + 1])
        <3>1. \A k \in 0 .. A + 1 : k \in 0 .. Len(C) - 1
            BY <2>3, <2>4
        <3> HIDE DEF C
        <3>2. P(0) = log /\ P(Len(C)) = log \o C
            BY <2>4, PrefixStep
        <3>3. \A k \in 0 .. Len(C) - 1 : P(k + 1) = Append(P(k), C[k + 1])
            BY <2>4, PrefixStep
        <3> HIDE DEF P, A
        <3> QED
            BY <3>1, <3>2, <3>3
    <2> DEFINE Midway(L, k) ==
            /\ L \in Seq(Events) /\ LogInv(L, runs) /\ Open(L) = "step"
            /\ OpenerOf(L, Len(L)) = f /\ L[f] = log[f] /\ Len(L) >= f
            /\ Answers(L, m + k, N) /\ TurnStarts(L, Len(L)) >= t
               T == {k \in 0 .. A : Midway(P(k), k)}
    <2>6. 0 \in T
        <3>1. Midway(log, 0)
            <4>1. Len(log) \in Nat /\ m + 0 = m
                OBVIOUS
            <4>2. TurnStarts(log, Len(log)) \in Nat
                <5>1. TurnStarts(log, Len(log)) \in Nat
                    BY <2>2, TurnStartsAppend
                <5> QED
                    BY <5>1
            <4> HIDE DEF t
            <4> QED
                BY <1>5, <2>1, <2>2, <4>1, <4>2
        <3> HIDE DEF Midway, P
        <3> QED
            BY <2>3, <2>5, <3>1
    <2>7. ASSUME NEW k \in 0 .. A - 1, k \in T PROVE k + 1 \in T
        <3> DEFINE L == P(k)
                   e == C[k + 1]
        <3>1. Midway(L, k)
            BY <2>7
        <3>2. k + 1 \in 1 .. A /\ k \in Nat /\ m + k \in Nat /\ m + k < N /\ m + (k + 1) = (m + k) + 1
            BY <2>1, <2>3, <2>7
        <3>3. PICK code \in {"unknown", "not-started"} :
                /\ e = Event("result", t, s, m + (k + 1), code)
                /\ code = "not-started" =>
                      \A j \in f .. Len(log) : ~(log[j].type = "call" /\ log[j].n = m + (k + 1))
            <4> HIDE DEF a, C, t, s, f, A
            <4> QED
                BY <2>3, <2>4, <3>2
        <3>4. code = "not-started" => <<t, s, (m + k) + 1>> \notin runs
            <4>1. <<log[f].turn, log[f].step, m + (k + 1)>> \notin runs \/ code # "not-started"
                BY <1>5, <3>3, UnrecordedIs
            <4> HIDE DEF t, f, C, A
            <4> QED
                BY <2>2, <3>2, <4>1
        <3> HIDE DEF P, C
        <3>5. code \in Codes
            BY DEF Codes, TurnStatuses
        <3>6. Fits(L, e, runs) /\ e.type = "result" /\ e.n = (m + k) + 1
            <4>1. t = L[OpenerOf(L, Len(L))].turn /\ s = L[OpenerOf(L, Len(L))].step
                BY <2>2, <3>1
            <4>2. code \in {"not-started", "aborted", "denied"} => <<t, s, (m + k) + 1>> \notin runs
                BY <3>4
            <4>3. e = Event("result", t, s, (m + k) + 1, code)
                BY <3>2, <3>3
            <4> HIDE DEF L, t, s, f, A
            <4>4. Fits(L, Event("result", t, s, (m + k) + 1, code), runs)
                BY <3>1, <3>2, <3>5, <4>1, <4>2, ResultFits
            <4> QED
                BY <4>3, <4>4 DEF Event
        <3> HIDE DEF e, L, f, t, s, A
        <3>7. e \in Events
            BY <3>6 DEF Fits
        <3>8. Append(L, e) \in Seq(Events) /\ LogInv(Append(L, e), runs)
            BY <3>1, <3>6, LogAppend
        <3>9. Open(Append(L, e)) = "step"
            BY <3>1, <3>6, <3>7, AppendOpens DEF Anchors
        <3>10. Len(Append(L, e)) = Len(L) + 1 /\ Append(L, e)[f] = L[f] /\ Len(L) \in Nat
            <4>1. f \in 1 .. Len(L)
                BY <2>2, <3>1
            <4> QED
                BY <3>1, <3>7, <4>1
        <3>11. OpenerOf(Append(L, e), Len(L) + 1) = f
            BY <3>1, <3>6, <3>7, AppendOpener
        <3>12. Answers(Append(L, e), m + (k + 1), N)
            <4>1. Answers(Append(L, e), (m + k) + 1, N)
                BY <3>1, <3>2, <3>6, <3>7, AnswersNext
            <4> QED
                BY <3>2, <4>1
        <3>13. TurnStarts(Append(L, e), Len(L) + 1) = TurnStarts(L, Len(L))
            BY <3>1, <3>6, <3>7, TurnStartsAppend
        <3>14. Midway(Append(L, e), k + 1)
            BY <2>2, <3>1, <3>8, <3>9, <3>10, <3>11, <3>12, <3>13
        <3>15. P(k + 1) = Append(L, e)
            <4>1. k \in 0 .. A + 1
                BY <2>3, <2>7
            <4> QED
                BY <2>5, <4>1 DEF L, e
        <3> HIDE DEF Midway
        <3>16. k + 1 \in 0 .. A
            BY <2>3, <3>2
        <3> QED
            BY <3>14, <3>15, <3>16
    <2>8. \A k \in 0 .. A : k \in T
        <3>1. A \in Nat
            BY <2>3
        <3> HIDE DEF T, A
        <3> QED
            BY <2>6, <2>7, <3>1, UpTo
    <2>9. A \in 0 .. A /\ Midway(P(A), A)
        <3>1. A \in 0 .. A
            BY <2>3
        <3> QED
            BY <2>8, <3>1
    <2> DEFINE L == P(A)
               L1 == Append(L, stepEnd)
               L2 == Append(L1, turnEnd)
    <2>10. P(A + 1) = L1 /\ P(A + 2) = L2
        <3>1. A \in 0 .. A + 1 /\ A + 1 \in 0 .. A + 1 /\ (A + 1) + 1 = A + 2
            BY <2>3
        <3> HIDE DEF P, C, stepEnd, turnEnd, A
        <3> QED
            BY <2>4, <2>5, <3>1
    <2>11. LogInv(L1, runs) /\ L1 \in Seq(Events) /\ Open(L1) = "turn" /\ TurnStarts(L1, Len(L1)) >= t
        <3>1. t = L[OpenerOf(L, Len(L))].turn /\ s = L[OpenerOf(L, Len(L))].step
            BY <2>2, <2>9
        <3>2. Answers(L, N, N) /\ N <= N
            BY <2>1, <2>9
        <3>3. stepEnd.type = "step/end" /\ "interrupted" \in Codes
            BY DEF Event, Codes, TurnStatuses
        <3>4. L \in Seq(Events) /\ LogInv(L, runs) /\ Open(L) = "step" /\ TurnStarts(L, Len(L)) >= t
            BY <2>9
        <3> HIDE DEF L, t, s, f, A
        <3>5. Fits(L, stepEnd, runs)
            BY <3>1, <3>2, <3>3, <3>4, StepEndFits
        <3> HIDE DEF stepEnd
        <3>6. LogInv(L1, runs) /\ L1 \in Seq(Events)
            BY <3>4, <3>5, LogAppend
        <3>7. Open(L1) = "turn"
            BY <2>2, <3>3, <3>4, AppendOpens
        <3>8. TurnStarts(L1, Len(L) + 1) = TurnStarts(L, Len(L)) /\ Len(L1) = Len(L) + 1
            <4>1. TurnStarts(L1, Len(L) + 1) = TurnStarts(L, Len(L))
                BY <2>2, <3>3, <3>4, TurnStartsAppend
            <4>2. Len(L1) = Len(L) + 1
                BY <2>2, <3>4
            <4> QED
                BY <4>1, <4>2
        <3> QED
            BY <3>4, <3>6, <3>7, <3>8
    <2>12. LogInv(L2, runs) /\ L2 \in Seq(Events) /\ Open(L2) = "none"
        <3> HIDE DEF L1, L, A, t
        <3>1. TurnStarts(L1, Len(L1)) \in Nat
            BY <2>2, <2>11, TurnStartsAppend
        <3>2. Fits(L1, turnEnd, runs)
            <4>1. "interrupted" \in Codes /\ t <= TurnStarts(L1, Len(L1))
                BY <2>2, <2>11, <3>1 DEF Codes, TurnStatuses
            <4> QED
                BY <2>2, <2>11, <4>1, TurnEndFits
        <3>3. turnEnd.type = "turn/end"
            BY DEF Event
        <3> HIDE DEF turnEnd
        <3>4. LogInv(L2, runs) /\ L2 \in Seq(Events)
            BY <2>11, <3>2, LogAppend
        <3>5. Open(L2) = "none"
            BY <2>2, <2>11, <3>3, AppendOpens
        <3> QED
            BY <3>4, <3>5
    <2>13. \A k \in 0 .. Len(C) : LogInv(P(k), runs) /\ P(k) \in Seq(Events)
        <3>1. \A k \in 0 .. Len(C) : k \in 0 .. A \/ k = A + 1 \/ k = A + 2
            BY <2>3, <2>4
        <3>2. \A k \in 0 .. A : LogInv(P(k), runs) /\ P(k) \in Seq(Events)
            BY <2>8
        <3> HIDE DEF P, C, L1, L2, A
        <3> QED
            BY <2>10, <2>11, <2>12, <3>1, <3>2
    <2>14. Open(log \o C) = "none"
        <3>1. P(Len(C)) = L2
            BY <2>4, <2>10
        <3> HIDE DEF P, C, L2
        <3> QED
            BY <2>5, <2>12, <3>1
    <2> QED
        BY <2>4, <2>13, <2>14
<1> QED
    BY <1>1, <1>2, <1>4, <1>5

-----------------------------------------------------------------------------
(* The loop's place in the log.                                            *)

\* A torn record is the last one, and it is dropped.
LEMMA CompleteIs ==
    ASSUME NEW log \in Seq(Events)
    PROVE  Complete(log) = log /\ Complete(Append(log, Torn)) = log
<1>1. Torn.type = "torn"
    BY DEF Torn, Event
<1>2. \A e \in Events : e # Torn
    BY <1>1 DEF Events, Anchors
<1>3. Len(log) > 0 => log[Len(log)] \in Events
    OBVIOUS
<1>4. Complete(log) = log
    BY <1>2, <1>3 DEF Complete
<1> DEFINE T == Torn
           L == Append(log, T)
<1>5. \A x : Len(Append(log, x)) = Len(log) + 1 /\ Append(log, x)[Len(log) + 1] = x /\ Len(log) \in Nat
             /\ SubSeq(Append(log, x), 1, Len(log)) = log
    OBVIOUS
<1> HIDE DEF T
<1>6. Len(L) = Len(log) + 1 /\ L[Len(log) + 1] = T /\ Len(log) \in Nat /\ SubSeq(L, 1, Len(log)) = log
    BY <1>5
<1>7. Len(L) > 0 /\ L[Len(L)] = Torn /\ Len(L) - 1 = Len(log)
    BY <1>6 DEF T
<1> HIDE DEF L
<1>8. Complete(L) = log
    BY <1>6, <1>7 DEF Complete
<1> QED
    BY <1>4, <1>8 DEF L, T

\* The smallest number of a set.
LEMMA MinIs ==
    ASSUME NEW S \in SUBSET Nat, S # {}
    PROVE  Min(S) \in S /\ \A x \in S : Min(S) <= x
<1>1. PICK x \in S : \A y \in S : ~(y < x)
    <2>1. \A y, z \in Nat : <<y, z>> \in OpToRel(<, Nat) <=> y < z
        BY DEF OpToRel
    <2>2. IsWellFoundedOn(OpToRel(<, Nat), Nat)
        BY NatLessThanWellFounded
    <2>3. \E x \in S : \A y \in S : ~(<<y, x>> \in OpToRel(<, Nat))
        BY <2>2, WFMin
    <2> QED
        BY <2>1, <2>3
<1>2. x \in S /\ \A y \in S : x <= y
    BY <1>1
<1> QED
    BY <1>2 DEF Min

\* An event of a step that is not behind s keeps the turn.
LEMMA TurnKept ==
    ASSUME NEW log \in Seq(Events), NEW e \in Events, NEW t, NEW s, OfTurn(log, t, s),
           e.type # "turn/start", e.turn = t => e.step <= s
    PROVE  OfTurn(Append(log, e), t, s)
<1> DEFINE L == Append(log, e)
           n == Len(log)
           b == LastBefore(log, n, {"turn/start"})
<1>1. Extends(L, log) /\ L[n + 1] = e /\ n \in Nat /\ Len(L) = n + 1 /\ DOMAIN L = 1 .. n + 1 /\ DOMAIN log = 1 .. n
      /\ LastBefore(L, n + 1, {"turn/start"}) = b
    BY AppendIs
<1>2. TurnStarts(L, n + 1) = TurnStarts(log, n)
    BY TurnStartsAppend
<1>3. b \in 1 .. n /\ log[b].turn = t /\ t = TurnStarts(log, n) /\ s >= 1
      /\ \A i \in 1 .. n : log[i].turn = t => log[i].step <= s
    BY <1>1 DEF OfTurn
<1>4. \A i \in 1 .. n : L[i] = log[i]
    BY <1>1 DEF Extends
<1> HIDE DEF L, b
<1>5. b \in 1 .. n + 1 /\ L[b].turn = t
    BY <1>1, <1>3, <1>4
<1>6. ASSUME NEW i \in 1 .. n + 1, L[i].turn = t PROVE L[i].step <= s
    <2>1. i \in 1 .. n \/ i = n + 1
        BY <1>1
    <2> QED
        BY <1>1, <1>3, <1>4, <1>6, <2>1
<1>7. OfTurn(L, t, s)
    BY <1>1, <1>2, <1>3, <1>5, <1>6 DEF OfTurn
<1> QED
    BY <1>7 DEF L

\* The start of a turn.
LEMMA TurnBegun ==
    ASSUME NEW log \in Seq(Events), NEW e \in Events, Unique(log),
           e.type = "turn/start", e.turn = TurnStarts(log, Len(log)) + 1, e.step = 0
    PROVE  OfTurn(Append(log, e), e.turn, 1) /\ Unused(Append(log, e), e.turn, 1)
<1> DEFINE L == Append(log, e)
           n == Len(log)
<1>1. Extends(L, log) /\ L[n + 1] = e /\ n \in Nat /\ Len(L) = n + 1 /\ DOMAIN L = 1 .. n + 1 /\ DOMAIN log = 1 .. n
      /\ LastBefore(L, n + 1, {"turn/start"}) = n + 1
    BY AppendIs
<1>2. TurnStarts(L, n + 1) = e.turn /\ TurnStarts(log, n) \in Nat
    BY TurnStartsAppend
<1>3. \A i \in 1 .. n : L[i] = log[i] /\ log[i] \in Events /\ log[i].turn <= TurnStarts(log, n)
    BY <1>1 DEF Extends, Unique
<1> HIDE DEF L
<1>4. ASSUME NEW i \in 1 .. n + 1, L[i].turn = e.turn PROVE L[i].step = 0
    <2>1. i \in 1 .. n \/ i = n + 1
        BY <1>1
    <2>2. i \in 1 .. n => log[i].turn \in Nat
        BY <1>3 DEF Events
    <2> QED
        BY <1>1, <1>2, <1>3, <1>4, <2>1, <2>2
<1>5. OfTurn(L, e.turn, 1)
    <2>1. n + 1 \in 1 .. n + 1 /\ 1 >= 1
        BY <1>1
    <2>2. \A i \in 1 .. n + 1 : L[i].turn = e.turn => L[i].step <= 1
        BY <1>4
    <2> QED
        BY <1>1, <1>2, <2>1, <2>2 DEF OfTurn
<1>6. Unused(L, e.turn, 1)
    <2>1. \A i \in 1 .. n + 1 : L[i].turn = e.turn => L[i].step < 1
        BY <1>4
    <2> QED
        BY <1>1, <2>1 DEF Unused
<1> QED
    BY <1>5, <1>6 DEF L

\* The step behind the last one is not used.
LEMMA NextUnused ==
    ASSUME NEW log \in Seq(Events), NEW t, NEW s \in Nat, OfTurn(log, t, s)
    PROVE  OfTurn(log, t, s + 1) /\ Unused(log, t, s + 1)
<1>1. \A i \in DOMAIN log : log[i].turn = t => log[i].step <= s + 1 /\ log[i].step < s + 1
    <2>1. \A i \in DOMAIN log : log[i].step \in Nat
        <3>1. \A i \in DOMAIN log : log[i] \in Events
            OBVIOUS
        <3> QED
            BY <3>1 DEF Events
    <2>2. \A i \in DOMAIN log : log[i].turn = t => log[i].step <= s
        BY DEF OfTurn
    <2> QED
        BY <2>1, <2>2
<1>2. s + 1 >= 1
    OBVIOUS
<1> QED
    BY <1>1, <1>2 DEF OfTurn, Unused

\* The start of a step.
LEMMA StepBegun ==
    ASSUME NEW log \in Seq(Events), NEW e \in Events, e.type = "step/start", NEW N
    PROVE  OfStep(Append(log, e), e.turn, e.step, N) /\ Silent(Append(log, e))
<1> DEFINE L == Append(log, e)
           n == Len(log)
<1>1. L[n + 1] = e /\ n \in Nat /\ Len(L) = n + 1 /\ DOMAIN L = 1 .. n + 1
    BY AppendIs
<1>2. OpenerOf(L, n + 1) = n + 1
    BY AppendOpener
<1> HIDE DEF L
<1>3. \A j \in n + 1 .. n + 1 : j = n + 1
    BY <1>1
<1>4. n + 1 \in 1 .. n + 1
    BY <1>1
<1>5. OfStep(L, e.turn, e.step, N)
    BY <1>1, <1>2, <1>3, <1>4 DEF OfStep
<1>6. Silent(L)
    BY <1>1, <1>2, <1>3 DEF Silent
<1> QED
    BY <1>5, <1>6 DEF L

\* What happens in a step keeps it.
LEMMA StepKept ==
    ASSUME NEW log \in Seq(Events), NEW e \in Events, NEW t, NEW s, NEW N, NEW M, OfStep(log, t, s, N),
           e.type # "step/start", N = M \/ Silent(log), e.type = "assistant" => e.n = M
    PROVE  OfStep(Append(log, e), t, s, M)
<1> DEFINE L == Append(log, e)
           n == Len(log)
           f == OpenerOf(log, n)
<1>1. Extends(L, log) /\ L[n + 1] = e /\ n \in Nat /\ Len(L) = n + 1 /\ DOMAIN L = 1 .. n + 1 /\ DOMAIN log = 1 .. n
    BY AppendIs
<1>2. OpenerOf(L, n + 1) = f
    BY AppendOpener
<1>3. f \in 1 .. n /\ log[f].turn = t /\ log[f].step = s
      /\ \A j \in f .. n : log[j].type = "assistant" => log[j].n = N
    BY <1>1 DEF OfStep
<1>4. \A j \in f .. n : log[j].type = "assistant" => log[j].n = M
    BY <1>3 DEF Silent
<1>5. \A i \in 1 .. n : L[i] = log[i]
    BY <1>1 DEF Extends
<1> HIDE DEF L, f
<1>6. f \in 1 .. n + 1 /\ L[f].turn = t /\ L[f].step = s
    BY <1>1, <1>3, <1>5
<1>7. ASSUME NEW j \in f .. n + 1, L[j].type = "assistant" PROVE L[j].n = M
    <2>1. j \in f .. n \/ j = n + 1
        BY <1>1, <1>3
    <2>2. j \in f .. n => j \in 1 .. n
        BY <1>1, <1>3
    <2> QED
        BY <1>1, <1>4, <1>5, <1>7, <2>1, <2>2
<1>8. OfStep(L, t, s, M)
    BY <1>1, <1>2, <1>6, <1>7 DEF OfStep
<1> QED
    BY <1>8 DEF L

\* What happens in the open step is behind its start.
LEMMA InLastStep ==
    ASSUME NEW log \in Seq(Events), Within(log), Unique(log), Open(log) = "step", NEW j \in DOMAIN log,
           log[j].type \in StepTypes,
           log[j].turn = log[OpenerOf(log, Len(log))].turn, log[j].step = log[OpenerOf(log, Len(log))].step
    PROVE  j \in OpenerOf(log, Len(log)) .. Len(log)
<1> DEFINE n == Len(log)
           f == OpenerOf(log, n)
           o == OpenerOf(log, j)
<1>1. n \in Nat /\ n \in 0 .. Len(log) /\ DOMAIN log = 1 .. n
    OBVIOUS
<1>2. f \in 1 .. n /\ log[f].type = "step/start"
    BY <1>1, OpenStepIs DEF Open
<1>3. o \in 1 .. j /\ log[j].turn = log[o].turn /\ log[j].step = log[o].step
    BY DEF Within
<1>4. log[o].type = "step/start"
    <2>1. j \in 0 .. Len(log)
        BY <1>1
    <2>2. o # 0 => log[o].type \in {"step/start"}
        BY <2>1, LastBeforeIs DEF OpenerOf
    <2> QED
        BY <1>3, <2>2
<1>5. o = f
    <2>1. o \in DOMAIN log /\ f \in DOMAIN log
        BY <1>1, <1>2, <1>3
    <2>2. log[j].turn = log[f].turn /\ log[j].step = log[f].step
        OBVIOUS
    <2> HIDE DEF o, f
    <2> QED
        BY <1>2, <1>3, <1>4, <2>1, <2>2 DEF Unique
<1>6. j \in 1 .. n
    BY <1>1
<1>7. j \in f .. n
    <2> HIDE DEF o, f
    <2> QED
        BY <1>1, <1>2, <1>3, <1>5, <1>6
<1> QED
    BY <1>7

-----------------------------------------------------------------------------
(* Every event that the loop logs fits.                                    *)

\* The next call that is to be answered.
IsNext(n) == n \in 1 .. Len(calls) /\ ~Done(n) /\ \A k \in 1 .. n - 1 : Done(k)

\* The events that the loop logs, and where.
Due(e) ==
    \/ at = "idle" /\ e = Event("turn/start", TurnStarts(stored, Len(stored)) + 1, 0, 0, "")
    \/ at = "endTurn" /\ \E code \in TurnStatuses : e = Event("turn/end", turn, 0, 0, code)
    \/ at = "openStep" /\ e = Event("step/start", turn, step, 0, "")
    \/ at = "stream" /\ \E k \in Nat, code \in Codes : e = Event("assistant", turn, step, k, code)
    \/ at \in ToolPhase /\ \E n \in Nat : e = CallEvent(n)
    \/ /\ at \in ToolPhase /\ err = "none"
       /\ \E n \in Nat, code \in {"ok", "denied", "aborted"} :
              IsNext(n) /\ e = ResultEvent(n, code) /\ (code # "ok" => body[n] = code)
    \/ /\ at = "endStep"
       /\ \E code \in Codes : e = Event("step/end", turn, step, 0, code) /\ (code # "failed" => err # "failed")

\* As long as the process lives, its log has no torn record.
LEMMA LiveLog ==
    ASSUME StoredInv, Alive
    PROVE  stored \in Seq(Events) /\ LogInv(stored, ran) /\ Complete(stored) = stored
<1>1. PICK log \in Seq(Events) : LogInv(log, ran) /\ (stored = log \/ (at = "down" /\ stored = Append(log, Torn)))
    BY DEF StoredInv
<1>2. at # "down"
    BY DEF Alive
<1>3. stored = log
    BY <1>1, <1>2
<1> QED
    BY <1>1, <1>3, CompleteIs

\* The steps that are answered so far, as the loop and as the log have them.
LEMMA Answering ==
    ASSUME LoopInvariant, Live, at \in InStep, err # "failed"
    PROVE  \E m \in 0 .. Len(calls) :
               /\ Answers(stored, m, Len(calls))
               /\ at = "endStep" => m = Len(calls)
               /\ at # "endStep" => \A n \in 1 .. Len(calls) : n <= m <=> Done(n)
<1>1. OfStep(stored, turn, step, Len(calls))
    BY DEF LoopInvariant, PlaceInv
<1>2. PICK m \in 0 .. Len(calls) :
            /\ InOrder(stored, OpenerOf(stored, Len(stored)), Len(stored), m)
            /\ at = "endStep" => m = Len(calls)
            /\ at # "endStep" => \A n \in 1 .. Len(calls) : n <= m <=> Done(n)
    BY DEF LoopInvariant, ReplyInv
<1>3. Answers(stored, m, Len(calls))
    BY <1>1, <1>2 DEF Answers, OfStep
<1> QED
    BY <1>2, <1>3

\* Before the next call there are the answered ones.
LEMMA HeadIs ==
    ASSUME LoopInvariant, Live, at \in ToolPhase, err # "failed", NEW n, IsNext(n)
    PROVE  /\ n \in Nat /\ n - 1 \in Nat /\ n - 1 < Len(calls) /\ Answers(stored, n - 1, Len(calls))
           /\ \A k \in 1 .. Len(calls) : k <= n - 1 <=> Done(k)
<1>1. at \in InStep /\ at # "endStep"
    BY DEF ToolPhase, InStep
<1>2. PICK m \in 0 .. Len(calls) : Answers(stored, m, Len(calls)) /\ \A k \in 1 .. Len(calls) : k <= m <=> Done(k)
    BY <1>1, Answering
<1>3. n \in 1 .. Len(calls) /\ ~Done(n) /\ \A k \in 1 .. n - 1 : Done(k)
    BY DEF IsNext
<1>4. Len(calls) \in Nat
    BY DEF LoopInvariant, LoopTypeOK
<1>5. m = n - 1
    <2>1. n > m
        BY <1>2, <1>3, <1>4
    <2>2. ASSUME m < n - 1 PROVE FALSE
        <3>1. m + 1 \in 1 .. n - 1 /\ m + 1 \in 1 .. Len(calls) /\ ~(m + 1 <= m)
            BY <1>3, <1>4, <2>2
        <3> QED
            BY <1>2, <1>3, <3>1
    <2> QED
        BY <1>3, <1>4, <2>1, <2>2
<1> QED
    BY <1>2, <1>3, <1>4, <1>5

\* What the loop logs is in its place.
LEMMA DueFits ==
    ASSUME LoopInvariant, Live, NEW e, Due(e)
    PROVE  Fits(stored, e, ran)
<1> DEFINE n == Len(stored)
           f == OpenerOf(stored, n)
<1>1. stored \in Seq(Events) /\ LogInv(stored, ran)
    BY LiveLog DEF LoopInvariant, Live
<1>2. turn \in Nat /\ step \in Nat /\ MaxTurns \in Nat
    BY BoundsAssumption DEF LoopInvariant, LoopTypeOK
<1>3. TurnStarts(stored, n) \in Nat
    <2>1. Event("call", 0, 0, 0, "") \in Events
        BY EventIs DEF Codes, TurnStatuses
    <2> QED
        BY <1>1, <2>1, TurnStartsAppend
<1>4. "" \in Codes /\ {"ok", "denied", "aborted"} \subseteq Codes
    BY DEF Codes, TurnStatuses
<1>5. CASE at = "idle" /\ e = Event("turn/start", TurnStarts(stored, n) + 1, 0, 0, "")
    <2>1. e.type = "turn/start" /\ e.turn = TurnStarts(stored, n) + 1
        BY <1>5 DEF Event
    <2>2. e \in Events
        <3> DEFINE T == TurnStarts(stored, n) + 1
        <3>1. T \in Nat
            BY <1>3
        <3> HIDE DEF T
        <3>2. Event("turn/start", T, 0, 0, "") \in Events
            BY <1>4, <3>1, EventIs DEF Anchors
        <3> QED
            BY <1>5, <3>2 DEF T
    <2>3. Open(stored) = "none"
        BY <1>5 DEF LoopInvariant, PlaceInv
    <2>4. Placed(stored, e) /\ Numbers(stored, e) /\ Replies(stored, e, ran)
        BY <2>1, <2>3 DEF Placed, Numbers, Replies
    <2> QED
        BY <2>2, <2>4 DEF Fits
<1>6. ASSUME at \in Between \cup InStep PROVE OfTurn(stored, turn, step) /\ turn <= TurnStarts(stored, n)
    <2>1. OfTurn(stored, turn, step)
        BY <1>6 DEF LoopInvariant, PlaceInv
    <2> QED
        BY <1>3, <2>1 DEF OfTurn
<1>7. CASE at = "endTurn" /\ \E code \in TurnStatuses : e = Event("turn/end", turn, 0, 0, code)
    <2>1. PICK code \in TurnStatuses : e = Event("turn/end", turn, 0, 0, code)
        BY <1>7
    <2>4. code \in Codes
        BY DEF Codes
    <2>2. at \in Between
        BY <1>7 DEF Between
    <2>3. Open(stored) = "turn"
        BY <2>2 DEF LoopInvariant, PlaceInv
    <2> QED
        BY <1>1, <1>2, <1>6, <2>1, <2>2, <2>3, <2>4, TurnEndFits
<1>8. CASE at = "openStep" /\ e = Event("step/start", turn, step, 0, "")
    <2>1. e.type = "step/start" /\ e.turn = turn /\ e.step = step /\ e \in Events
        BY <1>2, <1>4, <1>8 DEF Event, Events, Anchors
    <2>2. at \in Between /\ at \in Entering
        BY <1>8 DEF Between, Entering
    <2>3. Open(stored) = "turn" /\ OfTurn(stored, turn, step) /\ Unused(stored, turn, step)
        BY <2>2 DEF LoopInvariant, PlaceInv
    <2>4. \A i \in DOMAIN stored : ~(stored[i].turn = turn /\ stored[i].step = step)
        BY <1>2, <2>3 DEF Unused
    <2>5. Placed(stored, e) /\ Replies(stored, e, ran)
        BY <2>1, <2>3 DEF Placed, Replies
    <2>6. Numbers(stored, e)
        <3>1. LastBefore(stored, n, {"turn/start"}) \in 1 .. n
            BY <1>1, <2>3 DEF OfTurn
        <3> QED
            BY <1>3, <2>1, <2>3, <2>4, <3>1 DEF Numbers, OfTurn
    <2> QED
        BY <2>1, <2>5, <2>6 DEF Fits
<1>9. ASSUME at \in InStep
      PROVE  Open(stored) = "step" /\ turn = stored[f].turn /\ step = stored[f].step
    BY <1>9 DEF LoopInvariant, PlaceInv, OfStep
<1>10. CASE at = "stream" /\ \E k \in Nat, code \in Codes : e = Event("assistant", turn, step, k, code)
    <2>1. PICK k \in Nat, code \in Codes : e = Event("assistant", turn, step, k, code)
        BY <1>10
    <2>2. e.type = "assistant" /\ e.turn = turn /\ e.step = step /\ e \in Events
        BY <1>2, <2>1, EventIs
    <2>3. at \in InStep /\ at \in Asking
        BY <1>10 DEF InStep, Asking
    <2>4. Silent(stored)
        BY <2>3 DEF LoopInvariant, PlaceInv
    <2>5. Placed(stored, e) /\ Numbers(stored, e)
        BY <1>6, <1>9, <2>2, <2>3 DEF Placed, Numbers
    <2>6. Replies(stored, e, ran)
        BY <2>2, <2>4 DEF Replies, Silent
    <2> QED
        BY <2>2, <2>5, <2>6 DEF Fits
<1>11. at \in ToolPhase => at \in InStep
    BY DEF InStep
<1>12. CASE at \in ToolPhase /\ \E k \in Nat : e = CallEvent(k)
    <2>1. PICK k \in Nat : e = Event("call", turn, step, k, "")
        BY <1>12 DEF CallEvent
    <2>2. e.type = "call" /\ e.turn = turn /\ e.step = step /\ e \in Events
        BY <1>2, <1>4, <2>1 DEF Event, Events
    <2>3. Placed(stored, e) /\ Numbers(stored, e)
        BY <1>6, <1>9, <1>11, <1>12, <2>2 DEF Placed, Numbers
    <2>4. Replies(stored, e, ran)
        BY <2>2 DEF Replies
    <2> QED
        BY <2>2, <2>3, <2>4 DEF Fits
<1>13. CASE /\ at \in ToolPhase /\ err = "none"
            /\ \E k \in Nat, code \in {"ok", "denied", "aborted"} :
                  IsNext(k) /\ e = ResultEvent(k, code) /\ (code # "ok" => body[k] = code)
    <2>1. PICK k \in Nat, code \in {"ok", "denied", "aborted"} :
              IsNext(k) /\ e = Event("result", turn, step, k, code) /\ (code # "ok" => body[k] = code)
        BY <1>13 DEF ResultEvent
    <2>2. k - 1 \in Nat /\ k - 1 < Len(calls) /\ Answers(stored, k - 1, Len(calls)) /\ (k - 1) + 1 = k
        BY <1>13, <2>1, HeadIs
    <2>3. code \in {"not-started", "aborted", "denied"} => <<turn, step, k>> \notin ran
        <3>1. at \in InStep \ {"endStep"}
            BY <1>13 DEF ToolPhase, InStep
        <3>2. <<turn, step, k>> \in ran => body[k] \in {"running", "settled", "ready", "committed"}
            BY <2>1, <3>1 DEF LoopInvariant, RanInv
        <3> QED
            BY <2>1, <3>2
    <2>4. Len(calls) \in Nat /\ code \in Codes
        <3>1. Len(calls) \in Nat
            BY DEF LoopInvariant, LoopTypeOK
        <3> QED
            BY <1>4, <3>1
    <2>5. turn = stored[f].turn /\ step = stored[f].step /\ Open(stored) = "step"
        BY <1>9, <1>11, <1>13
    <2>6. Fits(stored, Event("result", turn, step, (k - 1) + 1, code), ran)
        <3> DEFINE m == k - 1
        <3>1. m \in Nat /\ m < Len(calls) /\ Answers(stored, m, Len(calls))
              /\ (code \in {"not-started", "aborted", "denied"} => <<turn, step, m + 1>> \notin ran)
            BY <2>2, <2>3
        <3> HIDE DEF m
        <3>2. Fits(stored, Event("result", turn, step, m + 1, code), ran)
            BY <1>1, <2>4, <2>5, <3>1, ResultFits
        <3> QED
            BY <3>2 DEF m
    <2> QED
        BY <2>1, <2>2, <2>6
<1>14. CASE /\ at = "endStep"
            /\ \E code \in Codes : e = Event("step/end", turn, step, 0, code) /\ (code # "failed" => err # "failed")
    <2>1. PICK code \in Codes : e = Event("step/end", turn, step, 0, code) /\ (code # "failed" => err # "failed")
        BY <1>14
    <2>2. at \in InStep
        BY <1>14 DEF InStep
    <2>3. code # "failed" => \E m \in Nat, N \in Nat : N <= m /\ Answers(stored, m, N)
        <3>1. ASSUME code # "failed" PROVE \E m \in 0 .. Len(calls) : Answers(stored, m, Len(calls)) /\ m = Len(calls)
            BY <1>14, <2>1, <2>2, <3>1, Answering
        <3>2. Len(calls) \in Nat
            BY DEF LoopInvariant, LoopTypeOK
        <3> QED
            BY <3>1, <3>2
    <2>4. turn = stored[f].turn /\ step = stored[f].step /\ Open(stored) = "step"
        BY <1>9, <2>2
    <2> QED
        BY <1>1, <2>1, <2>3, <2>4, StepEndFits
<1> QED
    BY <1>5, <1>7, <1>8, <1>10, <1>12, <1>13, <1>14 DEF Due

-----------------------------------------------------------------------------
(* What the loop does to the log.                                          *)

\* In a loop over the calls, the next call is the next to be answered.
LEMMA HeadNext ==
    ASSUME LoopTypeOK, BodyInv, at = "exclusive" \/ (at = "abort" /\ next <= Len(calls))
    PROVE  IsNext(next) /\ next \in Nat
<1>1. Len(calls) \in Nat /\ Len(calls) <= MaxCalls /\ next \in 1 .. Len(calls) + 1 /\ MaxCalls \in Nat
    BY BoundsAssumption DEF LoopTypeOK
<1>2. at \in ToolPhase
    BY DEF ToolPhase
<1>3. next \in 1 .. Len(calls) /\ next \in Calls
    <2>1. next <= Len(calls)
        BY DEF BodyInv, Pool
    <2> QED
        BY <1>1, <2>1 DEF Calls
<1>4. ~Done(next)
    <2>1. body[next] \in {"running", "settled", "denied", "none", "aborted"}
        BY <1>2, <1>3 DEF BodyInv, Pool
    <2>2. body[next] = "aborted" => at = "abort"
        BY <1>2, <1>3 DEF BodyInv, Pool
    <2>3. ~(next < next)
        BY <1>1
    <2> QED
        BY <2>1, <2>3 DEF Done
<1>5. ASSUME NEW k \in 1 .. next - 1 PROVE Done(k)
    <2>1. k \in Calls /\ k < next
        BY <1>1, <1>3 DEF Calls
    <2>2. body[k] \in {"committed", "aborted"}
        BY <1>2, <2>1 DEF BodyInv, Pool
    <2> QED
        BY <2>1, <2>2 DEF Done
<1> QED
    BY <1>1, <1>3, <1>4, <1>5 DEF IsNext

\* Among the calls that a group has in flight, the first one is.
LEMMA HeadInFlight ==
    ASSUME LoopTypeOK, BodyInv, at \in {"filled", "settle", "drain"}, InFlight # {}
    PROVE  LET h == Min(InFlight) IN h \in InFlight /\ h \in Nat /\ h \in 1 .. Len(calls) /\ h < next /\ IsNext(h)
<1> DEFINE h == Min(InFlight)
<1>1. Len(calls) \in Nat /\ Len(calls) <= MaxCalls /\ next \in 1 .. Len(calls) + 1 /\ MaxCalls \in Nat
    BY BoundsAssumption DEF LoopTypeOK
<1>2. InFlight \in SUBSET Nat
    BY <1>1 DEF InFlight
<1>3. h \in InFlight /\ \A x \in InFlight : h <= x
    BY <1>2, MinIs
<1> HIDE DEF h
<1>4. h \in 1 .. Len(calls) /\ body[h] \in {"running", "settled", "ready", "denied"}
    BY <1>3 DEF InFlight
<1>5. at \in ToolPhase
    BY DEF ToolPhase
<1>6. \A n \in 1 .. Len(calls) : n \in Calls
    BY <1>1 DEF Calls
<1>7. h < next
    <2>1. h \in Calls
        BY <1>4, <1>6
    <2>2. ~(h > next \/ h = next)
        BY <1>4, <1>5, <2>1 DEF BodyInv, Pool
    <2> QED
        BY <1>1, <1>4, <2>2
<1>8. ASSUME NEW k \in 1 .. h - 1 PROVE Done(k)
    <2>1. k \in 1 .. Len(calls) /\ k < next /\ ~(h <= k)
        BY <1>1, <1>4, <1>7
    <2>2. k \in Calls
        BY <1>6, <2>1
    <2>3. k \notin InFlight
        BY <1>3, <2>1
    <2>4. body[k] \notin {"running", "settled", "ready", "denied"}
        BY <2>1, <2>3 DEF InFlight
    <2>5. body[k] # "none" /\ body[k] # "aborted"
        BY <1>5, <2>1, <2>2 DEF BodyInv, Pool
    <2>6. body[k] \in {"none", "running", "settled", "ready", "denied", "committed", "aborted"}
        BY <2>2 DEF LoopTypeOK
    <2> QED
        BY <2>4, <2>5, <2>6 DEF Done
<1>9. ~Done(h)
    BY <1>4 DEF Done
<1> QED
    BY <1>2, <1>3, <1>4, <1>7, <1>8, <1>9 DEF IsNext, h

\* The effects of a step on the log and on the bodies that have run.
Keeping == stored' = stored /\ ran' = ran
Writing(e) == Live /\ Due(e) /\ stored' = Append(stored, e) /\ ran' = ran
Starting(n) ==
    /\ Live /\ at \in ToolPhase /\ err = "none" /\ n \in 1 .. Len(calls) /\ n \in Calls /\ body[n] = "none"
    /\ stored' = Append(stored, CallEvent(n)) /\ ran' = ran \cup {<<turn, step, n>>}
Keeps == Keeping \/ (\E e : Writing(e)) \/ (\E n : Starting(n))

\* An append that goes wrong may still be durable.
LEMMA Appends ==
    ASSUME NEW e, Logs(e) \/ Refuses(e) \/ Notes \/ NoteFails
    PROVE  stored' = stored \/ (~diverged /\ stored' = Append(stored, e))
BY DEF Logs, Refuses, Notes, NoteFails, Trouble, logVars

\* What is no lifecycle event leaves the log alone (requests, retries, inbox claims).
LEMMA Unnoted ==
    ASSUME Notes \/ NoteFails
    PROVE  stored' = stored
BY DEF Notes, NoteFails, logVars

\* Turns.
LEMMA TurnKeeps ==
    ASSUME LoopInvariant, StartTurn \/ Top \/ PreStep \/ Stepped \/ Stopping \/ EndTurn
    PROVE  Keeps
<1>1. CASE StartTurn
    <2> DEFINE e == Event("turn/start", TurnStarts(stored, Len(stored)) + 1, 0, 0, "")
    <2>1. at = "idle" /\ Due(e)
        BY <1>1 DEF StartTurn, Due
    <2>2. ran' = ran /\ (Logs(e) \/ Refuses(e))
        BY <1>1 DEF StartTurn, boundVars
    <2>3. Alive
        BY <2>1 DEF Alive
    <2> HIDE DEF e
    <2>4. stored' = stored \/ (~diverged /\ stored' = Append(stored, e))
        BY <2>2, Appends
    <2> QED
        BY <2>1, <2>2, <2>3, <2>4 DEF Keeps, Keeping, Writing, Live
<1>2. CASE Top \/ Stepped
    <2>1. ran' = ran
        BY <1>2 DEF Top, Stepped, boundVars
    <2>2. ContinueOnCancel => Notes \/ NoteFails \/ UNCHANGED logVars
        BY DEF ContinueOnCancel, Resume
    <2>3. Notes \/ NoteFails \/ UNCHANGED logVars
        BY <1>2, <2>2 DEF Top, Stepped
    <2>4. stored' = stored
        BY <2>3, Unnoted DEF logVars
    <2> QED
        BY <2>1, <2>4 DEF Keeps, Keeping
<1>3. CASE PreStep \/ Stopping
    <2>1. ran' = ran
        BY <1>3 DEF PreStep, Stopping, boundVars
    <2>2. Notes \/ NoteFails \/ UNCHANGED logVars
        BY <1>3 DEF PreStep, Stopping
    <2>3. stored' = stored
        BY <2>2, Unnoted DEF logVars
    <2> QED
        BY <2>1, <2>3 DEF Keeps, Keeping
<1>4. CASE EndTurn
    <2> DEFINE code == IF err # "none" THEN err ELSE IF blocked THEN "blocked" ELSE "completed"
               e == Event("turn/end", turn, 0, 0, code)
    <2>1. code \in TurnStatuses
        BY DEF LoopInvariant, LoopTypeOK, TurnStatuses
    <2>2. ran' = ran /\ at = "endTurn" /\ (Logs(e) \/ Refuses(e))
        BY <1>4 DEF EndTurn, boundVars
    <2>3. Alive
        BY <2>2 DEF Alive
    <2> HIDE DEF code
    <2>4. Due(e)
        BY <2>1, <2>2 DEF Due
    <2> HIDE DEF e
    <2>5. stored' = stored \/ (~diverged /\ stored' = Append(stored, e))
        BY <2>2, Appends
    <2> QED
        BY <2>2, <2>3, <2>4, <2>5 DEF Keeps, Keeping, Writing, Live
<1> QED
    BY <1>1, <1>2, <1>3, <1>4

\* Steps.
LEMMA StepKeeps ==
    ASSUME LoopInvariant, OpenStep \/ Request \/ Respond \/ StreamBreaks \/ Answered \/ EndStep
    PROVE  Keeps
<1>1. CASE OpenStep
    <2> DEFINE e == Event("step/start", turn, step, 0, "")
    <2>1. at = "openStep" /\ Due(e)
        BY <1>1 DEF OpenStep, Due
    <2>2. ran' = ran /\ (Logs(e) \/ Refuses(e))
        BY <1>1 DEF OpenStep, boundVars
    <2>3. Alive
        BY <2>1 DEF Alive
    <2> HIDE DEF e
    <2>4. stored' = stored \/ (~diverged /\ stored' = Append(stored, e))
        BY <2>2, Appends
    <2> QED
        BY <2>1, <2>2, <2>3, <2>4 DEF Keeps, Keeping, Writing, Live
<1>2. CASE Request \/ Answered
    <2>1. ran' = ran
        BY <1>2 DEF Request, Answered, boundVars
    <2>2. RequestFails => Notes
        BY DEF RequestFails
    <2>3. Notes \/ NoteFails
        BY <1>2, <2>2 DEF Request, Answered
    <2>4. stored' = stored
        BY <2>3, Unnoted
    <2> QED
        BY <2>1, <2>4 DEF Keeps, Keeping
<1>3. CASE Respond
    <2>1. at = "stream" /\ ran' = ran
        BY <1>3 DEF Respond
    <2>2. PICK k \in 0 .. (IF StepStarts < MaxSteps THEN MaxCalls - asked ELSE 0) :
              Logs(Event("assistant", turn, step, k, "")) \/ Refuses(Event("assistant", turn, step, k, ""))
        BY <1>3 DEF Respond
    <2> DEFINE e == Event("assistant", turn, step, k, "")
    <2>3. k \in Nat
        OBVIOUS
    <2>4. "" \in Codes /\ Alive
        BY <2>1 DEF Codes, TurnStatuses, Alive
    <2>5. Due(e)
        BY <2>1, <2>3, <2>4 DEF Due
    <2>6. Logs(e) \/ Refuses(e)
        BY <2>2
    <2> HIDE DEF e
    <2>7. stored' = stored \/ (~diverged /\ stored' = Append(stored, e))
        BY <2>6, Appends
    <2> QED
        BY <2>1, <2>4, <2>5, <2>7 DEF Keeps, Keeping, Writing, Live
<1>4. CASE StreamBreaks
    <2> DEFINE e == Event("assistant", turn, step, 0, "interrupted")
    <2>1. at = "stream" /\ ran' = ran
        BY <1>4 DEF StreamBreaks, boundVars
    <2>2. "interrupted" \in Codes /\ Alive
        BY <2>1 DEF Codes, TurnStatuses, Alive
    <2>3. Due(e)
        BY <2>1, <2>2 DEF Due
    <2>4. RequestFails => Notes
        BY DEF RequestFails
    <2>5. Logs(e) \/ Refuses(e) \/ Notes \/ NoteFails
        BY <1>4, <2>4 DEF StreamBreaks
    <2> HIDE DEF e
    <2>6. stored' = stored \/ (~diverged /\ stored' = Append(stored, e))
        BY <2>5, Appends
    <2> QED
        BY <2>1, <2>2, <2>3, <2>6 DEF Keeps, Keeping, Writing, Live
<1>5. CASE EndStep
    <2> DEFINE code == IF err = "none" THEN "completed" ELSE err
               e == Event("step/end", turn, step, 0, code)
    <2>1. code \in Codes /\ (code # "failed" => err # "failed")
        BY DEF LoopInvariant, LoopTypeOK, Codes, TurnStatuses
    <2>2. ran' = ran /\ at = "endStep" /\ (Logs(e) \/ Refuses(e))
        BY <1>5 DEF EndStep, boundVars
    <2>3. Alive
        BY <2>2 DEF Alive
    <2> HIDE DEF code
    <2>4. Due(e)
        BY <2>1, <2>2 DEF Due
    <2> HIDE DEF e
    <2>5. stored' = stored \/ (~diverged /\ stored' = Append(stored, e))
        BY <2>2, Appends
    <2> QED
        BY <2>2, <2>3, <2>4, <2>5 DEF Keeps, Keeping, Writing, Live
<1> QED
    BY <1>1, <1>2, <1>3, <1>4, <1>5

\* The calls.
LEMMA CallKeeps ==
    ASSUME at \in ToolPhase, NEW n \in Nat, Logs(CallEvent(n)) \/ Refuses(CallEvent(n)), ran' = ran
    PROVE  Keeps
<1> DEFINE e == CallEvent(n)
<1>1. Due(e) /\ Alive
    BY DEF Due, Alive, ToolPhase
<1> HIDE DEF e
<1>2. stored' = stored \/ (~diverged /\ stored' = Append(stored, e))
    BY Appends DEF e
<1> QED
    BY <1>1, <1>2 DEF Keeps, Keeping, Writing, Live

\* The result of the next call to be answered may be written.
LEMMA ResultKeeps ==
    ASSUME at \in ToolPhase, err = "none", NEW n \in Nat, IsNext(n), NEW code \in {"ok", "denied", "aborted"},
           code # "ok" => body[n] = code, NEW e, e = ResultEvent(n, code),
           stored' = stored \/ (~diverged /\ stored' = Append(stored, e)), ran' = ran
    PROVE  Keeps
<1>1. Due(e) /\ Alive
    BY DEF Due, Alive, ToolPhase
<1> QED
    BY <1>1 DEF Keeps, Keeping, Writing, Live

\* So commitToolOutcome writes the head's result, also when it reports an error.
LEMMA CommitKeeps ==
    ASSUME at \in ToolPhase, err = "none", NEW n \in Nat, IsNext(n), NEW label, Commit(n) \/ CommitFails(n, label), ran' = ran
    PROVE  Keeps
<1> DEFINE code == IF body[n] = "denied" THEN "denied" ELSE "ok"
           e == ResultEvent(n, code)
<1>1. code \in {"ok", "denied", "aborted"} /\ (code # "ok" => body[n] = code)
    OBVIOUS
<1> HIDE DEF code
<1>2. Logs(e) \/ Refuses(e) \/ (~diverged /\ stored' = Append(stored, e))
    BY DEF Commit, CommitFails, code
<1> HIDE DEF e
<1>3. stored' = stored \/ (~diverged /\ stored' = Append(stored, e))
    BY <1>2, Appends
<1> QED
    BY <1>1, <1>3, ResultKeeps DEF e

\* A call that starts has no body yet.
LEMMA StartKeeps ==
    ASSUME LoopInvariant, at \in {"tools", "fill"}, next <= Len(calls), NEW label, Start(next, label)
    PROVE  Keeps /\ next \in Calls
<1>1. Len(calls) \in Nat /\ Len(calls) <= MaxCalls /\ next \in 1 .. Len(calls) + 1 /\ MaxCalls \in Nat
    BY BoundsAssumption DEF LoopInvariant, LoopTypeOK
<1>2. next \in 1 .. Len(calls) /\ next \in Calls
    BY <1>1 DEF Calls
<1>3. at \in ToolPhase /\ Alive /\ at \in InStep \ {"drain", "endStep"}
    BY DEF ToolPhase, Alive, InStep
<1>4. err = "none" /\ body[next] = "none"
    BY <1>2, <1>3 DEF LoopInvariant, BodyInv, Pool
<1> DEFINE e == CallEvent(next)
           r == <<turn, step, next>>
<1>5. Due(e)
    <2>1. next \in Nat
        BY <1>1
    <2>2. \E n \in Nat : e = CallEvent(n)
        BY <2>1
    <2> HIDE DEF e
    <2> QED
        BY <1>3, <2>2 DEF Due
<1>6. ~diverged /\ stored' = Append(stored, e) /\ (ran' = ran \/ ran' = ran \cup {r})
    BY DEF Start, Logs
<1>7. CASE ran' = ran
    <2> HIDE DEF e
    <2> QED
        BY <1>2, <1>3, <1>5, <1>6, <1>7 DEF Keeps, Writing, Live
<1>8. CASE ran' = ran \cup {r}
    <2>1. Starting(next)
        BY <1>2, <1>3, <1>4, <1>6, <1>8 DEF Starting, Live
    <2> QED
        BY <1>2, <2>1 DEF Keeps
<1> QED
    BY <1>6, <1>7, <1>8

\* The tool phase writes calls and results only.
LEMMA ToolKeeps ==
    ASSUME LoopInvariant,
           Tools \/ Exclusive \/ Fill \/ CommitReady \/ Committed \/ Receive \/ Drained \/ Abort
    PROVE  Keeps
<1>1. /\ LoopTypeOK /\ BodyInv
      /\ Len(calls) \in Nat /\ Len(calls) <= MaxCalls /\ next \in 1 .. Len(calls) + 1 /\ next \in Nat /\ MaxCalls \in Nat
    BY BoundsAssumption DEF LoopInvariant, LoopTypeOK
<1>2. CASE Tools
    <2>1. at = "tools" /\ at \in ToolPhase /\ at \in {"tools", "fill"}
        BY <1>2 DEF Tools, ToolPhase
    <2>2. \/ UNCHANGED logVars /\ ran' = ran
          \/ next <= Len(calls) /\ Start(next, "exclusive")
          \/ Refuses(CallEvent(next)) /\ ran' = ran
        BY <1>2 DEF Tools
    <2>3. CASE UNCHANGED logVars /\ ran' = ran
        BY <2>3 DEF Keeps, Keeping, logVars
    <2>4. CASE next <= Len(calls) /\ Start(next, "exclusive")
        BY <2>1, <2>4, StartKeeps
    <2>5. CASE Refuses(CallEvent(next)) /\ ran' = ran
        BY <1>1, <2>1, <2>5, CallKeeps
    <2> QED
        BY <2>2, <2>3, <2>4, <2>5
<1>3. CASE Exclusive
    <2>1. at = "exclusive" /\ at \in ToolPhase /\ ran' = ran /\ (Commit(next) \/ CommitFails(next, "endStep"))
        BY <1>3 DEF Exclusive, ToolPhase, boundVars
    <2>2. IsNext(next) /\ err = "none"
        <3>1. at \in InStep \ {"drain", "endStep"}
            BY <2>1 DEF InStep, ToolPhase
        <3> QED
            BY <1>1, <2>1, <3>1, HeadNext DEF BodyInv, Pool
    <2> QED
        BY <1>1, <2>1, <2>2, CommitKeeps
<1>4. CASE Fill
    <2>1. at = "fill" /\ at \in ToolPhase /\ at \in {"tools", "fill"}
        BY <1>4 DEF Fill, ToolPhase
    <2>2. \/ UNCHANGED logVars /\ ran' = ran
          \/ next <= Len(calls) /\ Start(next, "filled")
          \/ Refuses(CallEvent(next)) /\ ran' = ran
        BY <1>4 DEF Fill, CanFill
    <2>3. CASE UNCHANGED logVars /\ ran' = ran
        BY <2>3 DEF Keeps, Keeping, logVars
    <2>4. CASE next <= Len(calls) /\ Start(next, "filled")
        BY <2>1, <2>4, StartKeeps
    <2>5. CASE Refuses(CallEvent(next)) /\ ran' = ran
        BY <1>1, <2>1, <2>5, CallKeeps
    <2> QED
        BY <2>2, <2>3, <2>4, <2>5
<1>5. CASE CommitReady \/ Drained
    <2>1. at \in {"filled", "settle", "drain"} /\ at \in ToolPhase /\ ran' = ran
        BY <1>5 DEF CommitReady, Drained, ToolPhase, boundVars
    <2>2. \/ UNCHANGED logVars
          \/ /\ HeadReady /\ (at = "drain" => err = "none")
             /\ Commit(Min(InFlight)) \/ CommitFails(Min(InFlight), "drain") \/ CommitFails(Min(InFlight), "endStep")
        BY <1>5 DEF CommitReady, Drained
    <2>3. CASE UNCHANGED logVars
        BY <2>1, <2>3 DEF Keeps, Keeping, logVars
    <2>4. ASSUME HeadReady, at = "drain" => err = "none",
                 Commit(Min(InFlight)) \/ CommitFails(Min(InFlight), "drain") \/ CommitFails(Min(InFlight), "endStep")
          PROVE  Keeps
        <3> DEFINE h == Min(InFlight)
        <3>1. h \in Nat /\ IsNext(h)
            BY <1>1, <2>1, <2>4, HeadInFlight DEF HeadReady
        <3>2. err = "none"
            <4>1. at = "drain" \/ at \in InStep \ {"drain", "endStep"}
                BY <2>1 DEF InStep, ToolPhase
            <4> QED
                BY <1>1, <2>4, <4>1 DEF BodyInv, Pool
        <3>3. \E label : Commit(h) \/ CommitFails(h, label)
            BY <2>4
        <3> HIDE DEF h
        <3> QED
            BY <2>1, <3>1, <3>2, <3>3, CommitKeeps
    <2> QED
        BY <2>2, <2>3, <2>4
<1>6. CASE Committed \/ Receive
    BY <1>6 DEF Committed, Receive, Keeps, Keeping, logVars, boundVars
<1>7. CASE Abort
    <2>1. at = "abort" /\ at \in ToolPhase /\ ran' = ran
        BY <1>7 DEF Abort, ToolPhase, boundVars
    <2>2. err = "none"
        <3>1. at \in InStep \ {"drain", "endStep"}
            BY <2>1 DEF InStep, ToolPhase
        <3> QED
            BY <1>1, <3>1 DEF BodyInv, Pool
    <2> DEFINE e == ResultEvent(next, "aborted")
    <2>3. \/ UNCHANGED logVars
          \/ Logs(CallEvent(next)) \/ Refuses(CallEvent(next))
          \/ next <= Len(calls) /\ body[next] = "aborted" /\ (Logs(e) \/ Refuses(e))
        BY <1>7 DEF Abort
    <2>4. CASE UNCHANGED logVars
        BY <2>1, <2>4 DEF Keeps, Keeping, logVars
    <2>5. CASE Logs(CallEvent(next)) \/ Refuses(CallEvent(next))
        BY <1>1, <2>1, <2>5, CallKeeps
    <2>6. CASE next <= Len(calls) /\ body[next] = "aborted" /\ (Logs(e) \/ Refuses(e))
        <3>1. IsNext(next)
            BY <1>1, <2>1, <2>6, HeadNext
        <3> HIDE DEF e
        <3>2. stored' = stored \/ (~diverged /\ stored' = Append(stored, e))
            BY <2>6, Appends
        <3>3. "aborted" \in {"ok", "denied", "aborted"} /\ e = ResultEvent(next, "aborted")
            BY DEF e
        <3> QED
            BY <1>1, <2>1, <2>2, <2>6, <3>1, <3>2, <3>3, ResultKeeps
    <2> QED
        BY <2>3, <2>4, <2>5, <2>6
<1> QED
    BY <1>2, <1>3, <1>4, <1>5, <1>6, <1>7

\* A step of the loop keeps the log, or adds to it what is due.
LEMMA LoopKeeps ==
    ASSUME LoopInvariant, StartTurn \/ LoopStep \/ (\E n \in Calls : BodySettles(n)) \/ Cancel \/ Steer \/ SteerCancels
    PROVE  Keeps
<1>1. CASE StartTurn \/ LoopStep
    BY <1>1, TurnKeeps, StepKeeps, ToolKeeps DEF LoopStep
<1>2. CASE \E n \in Calls : BodySettles(n)
    BY <1>2 DEF BodySettles, Keeps, Keeping, logVars, boundVars
<1>3. CASE Cancel \/ Steer \/ SteerCancels
    BY <1>3 DEF Cancel, Steer, SteerCancels, Keeps, Keeping, logVars, boundVars
<1> QED
    BY <1>1, <1>2, <1>3

\* A body that starts has no result yet.
LEMMA StartTruthful ==
    ASSUME LoopInvariant, NEW n, Starting(n)
    PROVE  stored' \in Seq(Events) /\ LogInv(stored', ran')
<1> DEFINE e == Event("call", turn, step, n, "")
           L == Append(stored, e)
           r == <<turn, step, n>>
           f == OpenerOf(stored, Len(stored))
<1>1. /\ Live /\ at \in ToolPhase /\ err = "none" /\ n \in 1 .. Len(calls) /\ n \in Calls /\ body[n] = "none"
      /\ stored' = L /\ ran' = ran \cup {r}
    BY DEF Starting, CallEvent
<1>2. stored \in Seq(Events) /\ LogInv(stored, ran)
    BY <1>1, LiveLog DEF LoopInvariant, Live
<1>3. Due(e)
    <2>1. e = CallEvent(n)
        BY DEF CallEvent
    <2> HIDE DEF e, L, r, f
    <2>2. n \in Nat
        BY <1>1
    <2> QED
        BY <1>1, <2>1, <2>2 DEF Due
<1>4. Fits(stored, e, ran)
    BY <1>1, <1>3, DueFits
<1>5. e \in Events /\ e.type = "call"
    BY <1>4 DEF Fits, Event
<1>6. L \in Seq(Events) /\ LogInv(L, ran)
    <2> HIDE DEF e
    <2> QED
        BY <1>2, <1>4, LogAppend
<1>7. Extends(L, stored) /\ L[Len(stored) + 1] = e /\ Len(stored) \in Nat
      /\ DOMAIN L = 1 .. Len(stored) + 1 /\ DOMAIN stored = 1 .. Len(stored)
    <2> HIDE DEF e
    <2> QED
        BY <1>2, <1>5, AppendIs
<1>8. at \in InStep /\ at # "endStep"
    BY <1>1 DEF ToolPhase, InStep
<1>9. Open(stored) = "step" /\ stored[f].turn = turn /\ stored[f].step = step
    BY <1>1, <1>8 DEF LoopInvariant, PlaceInv, OfStep
<1>10. PICK m \in 0 .. Len(calls) : Answers(stored, m, Len(calls)) /\ \A k \in 1 .. Len(calls) : k <= m <=> Done(k)
    BY <1>1, <1>8, Answering
<1>11. ~(n <= m)
    BY <1>1, <1>10 DEF Done
<1>12. ASSUME NEW i \in DOMAIN L, L[i].type = "result", <<L[i].turn, L[i].step, L[i].n>> = r PROVE FALSE
    <2>1. i \in DOMAIN stored /\ L[i] = stored[i]
        <3>1. i # Len(stored) + 1
            BY <1>5, <1>7, <1>12
        <3>2. i \in 1 .. Len(stored) + 1
            BY <1>7
        <3>3. i \in 1 .. Len(stored)
            <4>1. Len(stored) \in Nat
                BY <1>7
            <4> QED
                BY <3>1, <3>2, <4>1
        <3> QED
            BY <1>7, <3>3 DEF Extends
    <2>2. stored[i].type = "result" /\ stored[i].turn = turn /\ stored[i].step = step /\ stored[i].n = n
        BY <1>12, <2>1
    <2>3. i \in f .. Len(stored)
        <3>1. stored[i].type \in StepTypes
            BY <2>2 DEF StepTypes
        <3> QED
            BY <1>2, <1>9, <2>1, <2>2, <3>1, InLastStep DEF LogInv
    <2>4. stored[i].n \in 1 .. m
        BY <1>10, <2>2, <2>3 DEF Answers, InOrder
    <2> QED
        BY <1>11, <2>2, <2>4
<1>13. Truthful(L, ran \cup {r})
    <2>1. Truthful(L, ran)
        BY <1>6 DEF LogInv
    <2>2. L[Len(stored) + 1] = Event("call", r[1], r[2], r[3], "") /\ Len(stored) + 1 \in DOMAIN L
        <3>1. r[1] = turn /\ r[2] = step /\ r[3] = n
            OBVIOUS
        <3> HIDE DEF r, L
        <3>2. e = Event("call", r[1], r[2], r[3], "")
            BY <3>1
        <3> HIDE DEF e
        <3>3. Len(stored) + 1 \in DOMAIN L
            BY <1>7
        <3>4. L[Len(stored) + 1] = e
            BY <1>7
        <3> QED
            BY <3>2, <3>3, <3>4
    <2> HIDE DEF L, r
    <2>3. \A q \in ran \cup {r} : \E j \in DOMAIN L : L[j] = Event("call", q[1], q[2], q[3], "")
        <3>1. \A q \in ran : \E j \in DOMAIN L : L[j] = Event("call", q[1], q[2], q[3], "")
            BY <2>1 DEF Truthful
        <3>2. \E j \in DOMAIN L : L[j] = Event("call", r[1], r[2], r[3], "")
            BY <2>2
        <3>3. ASSUME NEW q \in ran \cup {r} PROVE \E j \in DOMAIN L : L[j] = Event("call", q[1], q[2], q[3], "")
            <4>1. CASE q \in ran
                BY <3>1, <4>1, Zenon
            <4>2. CASE q = r
                BY <3>2, <4>2, Zenon
            <4> QED
                BY <3>3, <4>1, <4>2
        <3> QED
            BY <3>3
    <2> QED
        BY <1>12, <2>1, <2>3 DEF Truthful
<1> QED
    BY <1>1, <1>6, <1>13 DEF LogInv

\* The log stays in order.
LEMMA LoopStored ==
    ASSUME LoopInvariant, Keeps, at = "down" => at' = "down"
    PROVE  StoredInv'
<1>1. CASE Keeping
    <2>1. PICK log \in Seq(Events) : LogInv(log, ran) /\ (stored = log \/ (at = "down" /\ stored = Append(log, Torn)))
        BY DEF LoopInvariant, StoredInv
    <2>2. LogInv(log, ran') /\ (stored' = log \/ (at' = "down" /\ stored' = Append(log, Torn)))
        BY <1>1, <2>1 DEF Keeping
    <2> QED
        BY <2>2 DEF StoredInv
<1>2. CASE \E e : Writing(e)
    <2>1. PICK e : Live /\ Due(e) /\ stored' = Append(stored, e) /\ ran' = ran
        BY <1>2 DEF Writing
    <2>2. stored \in Seq(Events) /\ LogInv(stored, ran)
        BY <2>1, LiveLog DEF LoopInvariant, Live
    <2>3. Fits(stored, e, ran)
        BY <2>1, DueFits
    <2>4. stored' \in Seq(Events) /\ LogInv(stored', ran')
        BY <2>1, <2>2, <2>3, LogAppend
    <2> QED
        BY <2>4 DEF StoredInv
<1>3. CASE \E n : Starting(n)
    <2>1. stored' \in Seq(Events) /\ LogInv(stored', ran')
        BY <1>3, StartTruthful
    <2> QED
        BY <2>1 DEF StoredInv
<1> QED
    BY <1>1, <1>2, <1>3 DEF Keeps

\* What a load and a crash leave behind.
LEMMA LoadStored ==
    ASSUME LoopInvariant, Load
    PROVE  StoredInv'
<1>1. Alive /\ ran' = ran /\ stored' = stored \o InterruptedTurnClosers(stored)
    BY DEF Load, Alive, boundVars
<1>2. stored \in Seq(Events) /\ LogInv(stored, ran)
    BY <1>1, LiveLog DEF LoopInvariant
<1> DEFINE C == InterruptedTurnClosers(stored)
<1>3. C \in Seq(Events) /\ \A k \in 0 .. Len(C) :
          LogInv(stored \o SubSeq(C, 1, k), ran) /\ stored \o SubSeq(C, 1, k) \in Seq(Events)
    BY <1>2, ClosersKeep
<1> HIDE DEF C
<1>4. stored \o SubSeq(C, 1, Len(C)) = stored \o C /\ Len(C) \in 0 .. Len(C)
    BY <1>2, <1>3, PrefixStep
<1>5. LogInv(stored \o C, ran) /\ stored \o C \in Seq(Events)
    BY <1>3, <1>4
<1>6. LogInv(stored', ran') /\ stored' \in Seq(Events)
    BY <1>1, <1>5 DEF C
<1> QED
    BY <1>6 DEF StoredInv

\* A dying process leaves the log, and perhaps a torn record behind it.
LEMMA CrashStored ==
    ASSUME LoopInvariant, Crash
    PROVE  StoredInv'
<1>1. Alive /\ ran' = ran /\ stored' \in {stored, Append(stored, Torn)} /\ at' = "down"
    BY DEF Crash, Alive, boundVars, Goes
<1>2. stored \in Seq(Events) /\ LogInv(stored, ran)
    BY <1>1, LiveLog DEF LoopInvariant
<1>3. LogInv(stored, ran') /\ (stored' = stored \/ (at' = "down" /\ stored' = Append(stored, Torn)))
    BY <1>1, <1>2
<1> QED
    BY <1>2, <1>3 DEF StoredInv

\* The next process leaves nothing open in a log that it accepts.
LEMMA RecoverStored ==
    ASSUME LoopInvariant, Recover
    PROVE  StoredInv' /\ (at' = "idle" => Open(stored') = "none")
<1> DEFINE base == Complete(stored)
           C == InterruptedTurnClosers(base)
<1>1. base \in Seq(Events) /\ LogInv(base, ran)
    <2>1. PICK log \in Seq(Events) : LogInv(log, ran) /\ (stored = log \/ (at = "down" /\ stored = Append(log, Torn)))
        BY DEF LoopInvariant, StoredInv
    <2>2. base = log
        BY <2>1, CompleteIs
    <2> QED
        BY <2>1, <2>2
<1>2. ran' = ran /\ \/ stored' = base \o C /\ at' \in {"idle", "refused"}
                    \/ at' = "down" /\ at = "down" /\ \E k \in 0 .. Len(C) : stored' = base \o SubSeq(C, 1, k) \o <<Torn>>
    BY DEF Recover, boundVars, Goes
<1> HIDE DEF base
<1>3. C \in Seq(Events) /\ Open(base \o C) = "none"
      /\ \A k \in 0 .. Len(C) :
          LogInv(base \o SubSeq(C, 1, k), ran) /\ base \o SubSeq(C, 1, k) \in Seq(Events)
    BY <1>1, ClosersKeep
<1> HIDE DEF C
<1>4. CASE stored' = base \o C /\ at' \in {"idle", "refused"}
    <2>1. base \o SubSeq(C, 1, Len(C)) = base \o C /\ Len(C) \in 0 .. Len(C)
        BY <1>1, <1>3, PrefixStep
    <2>2. LogInv(base \o C, ran) /\ base \o C \in Seq(Events)
        BY <1>3, <2>1
    <2>3. LogInv(stored', ran') /\ stored' \in Seq(Events)
        BY <1>2, <1>4, <2>2
    <2> QED
        BY <1>3, <1>4, <2>3 DEF StoredInv
<1>5. ASSUME at' = "down", NEW k \in 0 .. Len(C), stored' = base \o SubSeq(C, 1, k) \o <<Torn>>
      PROVE  StoredInv'
    <2> DEFINE P == base \o SubSeq(C, 1, k)
    <2>1. LogInv(P, ran) /\ P \in Seq(Events)
        BY <1>3
    <2>2. stored' = P \o <<Torn>>
        BY <1>5
    <2> HIDE DEF P
    <2>3. stored' = Append(P, Torn)
        BY <2>1, <2>2
    <2>4. LogInv(P, ran') /\ (stored' = P \/ (at' = "down" /\ stored' = Append(P, Torn)))
        BY <1>2, <1>5, <2>1, <2>3
    <2> QED
        BY <2>1, <2>4 DEF StoredInv
<1> QED
    BY <1>2, <1>4, <1>5

-----------------------------------------------------------------------------
(* The types.                                                              *)

Flags ==
    /\ diverged \in BOOLEAN /\ steering \in BOOLEAN /\ steerPending \in BOOLEAN /\ queued \in BOOLEAN
    /\ supplied \in BOOLEAN /\ done \in BOOLEAN /\ blocked \in BOOLEAN
    /\ ctx \in {"live", "cancelled", "masked"} /\ err \in {"none", "failed", "cancelled"}

LoopLabels == Stopped \cup Between \cup Asking \cup {"answered", "endStep"} \cup ToolPhase

Counts == turn \in 0 .. MaxTurns /\ step \in Nat /\ attempt \in 0 .. MaxRetries /\ troubles \in 0 .. Troubles + 1

CallTypes ==
    /\ calls \in Seq(Kinds) /\ Len(calls) <= MaxCalls /\ next \in 1 .. Len(calls) + 1
    /\ body \in [Calls -> {"none", "running", "settled", "ready", "denied", "committed", "aborted"}]
    /\ asked \in 0 .. MaxCalls

\* Turns are counted in any log.
LEMMA TurnsCounted ==
    ASSUME NEW S, NEW log \in Seq(S)
    PROVE  TurnStarts(log, Len(log)) \in Nat
<1> DEFINE B == Before(log, Len(log), {"turn/start"})
<1>1. B \subseteq 1 .. Len(log) /\ Len(log) \in Nat
    BY DEF Before
<1>2. IsFiniteSet(1 .. Len(log))
    BY <1>1, FS_Interval
<1> HIDE DEF B
<1>3. Cardinality(B) \in Nat
    BY <1>1, <1>2, FS_Subset, FS_CardinalityType
<1> QED
    BY <1>3 DEF TurnStarts, B

\* The invariant's log is one of records.
LEMMA StoredRecorded ==
    ASSUME StoredInv
    PROVE  Recorded
<1>1. PICK log \in Seq(Events) : stored = log \/ stored = Append(log, Torn)
    BY DEF StoredInv
<1> DEFINE S == Events \cup {Torn}
<1>2. Record(S)
    <2>1. \A e \in Events : Recordable(e)
        BY DEF Events, Recordable
    <2>2. Recordable(Torn)
        BY DEF Torn, Event, Recordable
    <2> QED
        BY <2>1, <2>2 DEF Record
<1>3. stored \in Seq(S)
    <2>1. log \in Seq(S) /\ Torn \in S
        <3> HIDE DEF S
        <3>1. Events \subseteq S /\ Torn \in S
            BY DEF S
        <3> QED
            BY <3>1
    <2> HIDE DEF S
    <2>2. \A e \in S : Append(log, e) \in Seq(S)
        BY <2>1
    <2> QED
        BY <1>1, <2>1, <2>2
<1> HIDE DEF S
<1> QED
    BY <1>2, <1>3 DEF Recorded

\* A log of records has finitely many unanswered calls.
LEMMA UnansweredCounted ==
    ASSUME NEW S, Record(S), NEW log \in Seq(S)
    PROVE  Cardinality(Unanswered(log)) \in Nat
<1> DEFINE n == Len(log)
           from == LastBefore(log, n, {"step/start"})
           Asks == {log[j].n : j \in {k \in from .. n : k > 0 /\ log[k].type = "assistant"}}
           Z == {0} \cup Asks
           Bounded(k, b) == \A j \in 1 .. k : log[j].type = "assistant" => log[j].n <= b
           T == {k \in Nat : \E b \in Nat : Bounded(k, b)}
<1>1. n \in Nat /\ \A j \in 1 .. n : log[j].type = "assistant" => log[j].n \in Nat
    <2>1. \A j \in 1 .. n : log[j] \in S
        OBVIOUS
    <2> QED
        BY <2>1 DEF Record, Recordable
<1>2. n \in T
    <2>1. 0 \in T
        OBVIOUS
    <2>2. ASSUME NEW k \in 0 .. n - 1, k \in T PROVE k + 1 \in T
        <3>1. PICK b \in Nat : Bounded(k, b)
            BY <2>2
        <3>2. CASE log[k + 1].type # "assistant"
            <4>1. Bounded(k + 1, b)
                BY <3>1, <3>2
            <4> HIDE DEF Bounded
            <4>2. k + 1 \in Nat /\ \E x \in Nat : Bounded(k + 1, x)
                BY <3>1, <4>1
            <4> QED
                BY <4>2
        <3>3. CASE log[k + 1].type = "assistant"
            <4> DEFINE m == log[k + 1].n
            <4>1. m \in Nat
                BY <1>1, <3>3
            <4>2. \A j \in 1 .. k : log[j].type = "assistant" => log[j].n \in Nat /\ log[j].n <= b + m
                BY <1>1, <3>1, <4>1
            <4>3. Bounded(k + 1, b + m)
                <5> SUFFICES ASSUME NEW j \in 1 .. k + 1, log[j].type = "assistant" PROVE log[j].n <= b + m
                    OBVIOUS
                <5>1. CASE j \in 1 .. k
                    BY <4>2, <5>1
                <5>2. CASE j = k + 1
                    BY <3>1, <4>1, <5>2
                <5> QED
                    BY <5>1, <5>2
            <4> HIDE DEF Bounded
            <4>4. k + 1 \in Nat /\ \E x \in Nat : Bounded(k + 1, x)
                <5>1. b + m \in Nat /\ k + 1 \in Nat
                    BY <3>1, <4>1
                <5> QED
                    BY <4>3, <5>1
            <4> QED
                BY <4>4
        <3> QED
            BY <3>2, <3>3
    <2> HIDE DEF T, n
    <2>3. \A k \in 0 .. n : k \in T
        BY <1>1, <2>1, <2>2, UpTo
    <2> QED
        BY <1>1, <2>3
<1>3. PICK b \in Nat : Bounded(n, b)
    BY <1>2
<1>4. Z \in SUBSET Nat /\ 0 \in Z /\ \A y \in Z : y <= b
    <2>1. ASSUME NEW j \in from .. n, j > 0, log[j].type = "assistant" PROVE log[j].n \in Nat /\ log[j].n <= b
        <3>1. j \in 1 .. n
            BY <1>1, <2>1
        <3> QED
            BY <1>1, <1>3, <2>1, <3>1
    <2> QED
        BY <2>1, <1>3
<1> HIDE DEF Z
<1>5. Max(Z) \in Nat
    <2> DEFINE U == {u \in Nat : \A y \in Z : y <= u}
    <2>1. U \in SUBSET Nat /\ U # {}
        BY <1>4
    <2>2. Min(U) \in U /\ \A u \in U : Min(U) <= u
        <3> HIDE DEF U
        <3> QED
            BY <2>1, MinIs
    <2> DEFINE u == Min(U)
    <2>3. u \in Nat /\ (\A y \in Z : y <= u) /\ \A v \in U : u <= v
        BY <2>2
    <2> HIDE DEF u
    <2>4. u \in Z
        <3> SUFFICES ASSUME u \notin Z PROVE FALSE
            OBVIOUS
        <3>1. u # 0
            BY <1>4
        <3>2. u - 1 \in Nat
            BY <2>3, <3>1
        <3>3. \A y \in Z : y <= u - 1
            BY <1>4, <2>3
        <3>4. u - 1 \in U
            BY <3>2, <3>3
        <3> QED
            BY <2>3, <3>4
    <2> QED
        BY <1>4, <2>3, <2>4, MaxIs
<1>6. Unanswered(log) \subseteq 1 .. Max(Z)
    BY DEF Unanswered, Z
<1>7. IsFiniteSet(1 .. Max(Z))
    BY <1>5, FS_Interval
<1> QED
    BY <1>6, <1>7, FS_Subset, FS_CardinalityType

\* What a load appends to a log of records are records.
LEMMA ClosersRecorded ==
    ASSUME NEW S, Record(S), NEW log \in Seq(S)
    PROVE  \E R : Record(R) /\ InterruptedTurnClosers(log) \in Seq(R)
<1> DEFINE C == InterruptedTurnClosers(log)
           from == LastBefore(log, Len(log), {"step/start"})
           t == log[LastBefore(log, Len(log), {"turn/start"})].turn
           s == log[from].step
           c == Cardinality(Unanswered(log))
           code(k) == IF \E j \in from .. Len(log) : log[j].type = "call" /\ log[j].n = Nth(Unanswered(log), k)
                      THEN "unknown" ELSE "not-started"
           g(k) == Event("result", t, s, Nth(Unanswered(log), k), code(k))
           stepEnd == Event("step/end", t, s, 0, "interrupted")
           turnEnd == Event("turn/end", t, 0, 0, "interrupted")
           R == {g(k) : k \in 1 .. c} \cup {stepEnd, turnEnd}
<1>1. c \in Nat
    BY UnansweredCounted
<1>2. Record(R)
    <2>1. \A k : g(k).type = "result"
        BY EventIs
    <2>2. stepEnd.type = "step/end" /\ turnEnd.type = "turn/end"
        BY EventIs
    <2>3. \A k \in 1 .. c : Recordable(g(k))
        <3> HIDE DEF g
        <3> QED
            BY <2>1 DEF Recordable
    <2>4. Recordable(stepEnd) /\ Recordable(turnEnd)
        <3> HIDE DEF stepEnd, turnEnd
        <3> QED
            BY <2>2 DEF Recordable, Anchors
    <2> HIDE DEF g, stepEnd, turnEnd, c
    <2> QED
        BY <2>3, <2>4 DEF Record
<1>3. C = <<>> \/ C = [k \in 1 .. c |-> g(k)] \o <<stepEnd>> \o <<turnEnd>> \/ C = [k \in 1 .. c |-> g(k)] \o <<>> \o <<turnEnd>>
    BY DEF InterruptedTurnClosers
<1>4. [k \in 1 .. c |-> g(k)] \in Seq(R) /\ stepEnd \in R /\ turnEnd \in R
    <2> HIDE DEF g, stepEnd, turnEnd, c
    <2> QED
        BY <1>1
<1>5. C \in Seq(R)
    <2> DEFINE a == [k \in 1 .. c |-> g(k)]
    <2> HIDE DEF a, R, C, stepEnd, turnEnd
    <2>1. a \in Seq(R) /\ (C = <<>> \/ C = a \o <<stepEnd>> \o <<turnEnd>> \/ C = a \o <<>> \o <<turnEnd>>)
        BY <1>3, <1>4 DEF a
    <2>2. <<stepEnd>> \in Seq(R) /\ <<turnEnd>> \in Seq(R) /\ <<>> \in Seq(R)
        BY <1>4
    <2>3. \A x, y, z \in Seq(R) : x \o y \o z \in Seq(R)
        OBVIOUS
    <2> QED
        BY <2>1, <2>2, <2>3
<1> HIDE DEF R, C
<1> QED
    BY <1>2, <1>5 DEF C

\* A log of records and more of them.
LEMMA RecordsJoin ==
    ASSUME NEW S, NEW R, Record(S), Record(R), NEW log \in Seq(S), NEW more \in Seq(R), stored' = log \o more
    PROVE  Recorded'
<1> DEFINE T == S \cup R
<1>1. Record(T)
    BY DEF Record
<1>2. S \subseteq T /\ R \subseteq T
    OBVIOUS
<1> HIDE DEF T
<1>3. log \in Seq(T) /\ more \in Seq(T)
    BY <1>2
<1>4. stored' \in Seq(T)
    BY <1>3
<1> QED
    BY <1>1, <1>4 DEF Recorded

LEMMA RecordAdded ==
    ASSUME Recorded, NEW e, Recordable(e), stored' = Append(stored, e)
    PROVE  Recorded'
<1>1. PICK S : Record(S) /\ stored \in Seq(S)
    BY DEF Recorded
<1>2. stored' = stored \o <<e>> /\ <<e>> \in Seq({e})
    BY <1>1
<1>3. Record({e})
    BY DEF Record
<1> QED
    BY <1>1, <1>2, <1>3, RecordsJoin

\* The log stays as it is or gets a record.
Grows == stored' = stored \/ \E e : Recordable(e) /\ stored' = Append(stored, e)

\* What the loop appends is a record.
LEMMA LoopRecords ==
    ASSUME MaxCalls \in Nat, asked \in Nat,
           StartTurn \/ LoopStep \/ (\E n \in Calls : BodySettles(n)) \/ Cancel \/ Steer \/ SteerCancels
    PROVE  Grows
<1>1. /\ \A t, s, n, code : /\ Recordable(Event("turn/start", t, s, n, code)) /\ Recordable(Event("turn/end", t, s, n, code))
                            /\ Recordable(Event("step/start", t, s, n, code)) /\ Recordable(Event("step/end", t, s, n, code))
                            /\ Recordable(Event("call", t, s, n, code)) /\ Recordable(Event("result", t, s, n, code))
      /\ \A t, s, code : \A n \in Nat : Recordable(Event("assistant", t, s, n, code))
    BY EventIs DEF Recordable, Anchors
<1>2. ASSUME NEW e, Recordable(e), Logs(e) \/ Refuses(e) \/ stored' = Append(stored, e) PROVE Grows
    BY <1>2 DEF Grows, Logs, Refuses, logVars
<1>3. Notes \/ NoteFails \/ UNCHANGED logVars => Grows
    BY DEF Grows, Notes, NoteFails, logVars
<1>4. \A n, code : Recordable(CallEvent(n)) /\ Recordable(ResultEvent(n, code))
    BY <1>1, Zenon DEF CallEvent, ResultEvent
<1>5. ASSUME NEW n, NEW label, Commit(n) \/ CommitFails(n, label) \/ Start(n, label) \/ Refuses(CallEvent(n)) PROVE Grows
    <2>1. (\E code : Logs(ResultEvent(n, code)) \/ Refuses(ResultEvent(n, code)) \/ stored' = Append(stored, ResultEvent(n, code)))
             \/ Logs(CallEvent(n)) \/ Refuses(CallEvent(n))
        BY <1>5 DEF Commit, CommitFails, Start
    <2> QED
        BY <1>2, <1>4, <2>1
<1>6. CASE StartTurn
    <2>1. PICK e : Recordable(e) /\ (Logs(e) \/ Refuses(e))
        BY <1>1, <1>6, Zenon DEF StartTurn
    <2> QED
        BY <1>2, <2>1
<1>7. CASE EndTurn \/ OpenStep \/ EndStep
    <2>1. CASE EndTurn
        <3>1. PICK e : Recordable(e) /\ (Logs(e) \/ Refuses(e))
            BY <1>1, <2>1, Zenon DEF EndTurn
        <3> QED
            BY <1>2, <3>1
    <2>2. CASE OpenStep
        <3>1. PICK e : Recordable(e) /\ (Logs(e) \/ Refuses(e))
            BY <1>1, <2>2, Zenon DEF OpenStep
        <3> QED
            BY <1>2, <3>1
    <2>3. CASE EndStep
        <3>1. PICK e : Recordable(e) /\ (Logs(e) \/ Refuses(e))
            BY <1>1, <2>3, Zenon DEF EndStep
        <3> QED
            BY <1>2, <3>1
    <2> QED
        BY <1>7, <2>1, <2>2, <2>3
<1>8. CASE Top \/ Stepped \/ PreStep \/ Stopping
    <2>1. ContinueOnCancel => Grows
        BY <1>3 DEF ContinueOnCancel, Resume
    <2> QED
        BY <1>3, <1>8, <2>1 DEF Top, Stepped, PreStep, Stopping
<1>9. CASE Request \/ StreamBreaks \/ Answered
    <2>1. RequestFails => Grows
        BY <1>3 DEF RequestFails
    <2>2. CASE Request \/ Answered
        BY <1>3, <2>1, <2>2 DEF Request, Answered
    <2>3. CASE StreamBreaks
        BY <1>1, <1>2, <1>3, <2>1, <2>3 DEF StreamBreaks
    <2> QED
        BY <1>9, <2>2, <2>3
<1>10. CASE Respond
    <2> DEFINE K == 0 .. (IF StepStarts < MaxSteps THEN MaxCalls - asked ELSE 0)
               Message(k) == Event("assistant", turn, step, k, "")
    <2>1. PICK k \in K : Logs(Message(k)) \/ Refuses(Message(k))
        BY <1>10, Zenon DEF Respond
    <2>2. K \subseteq Nat
        OBVIOUS
    <2> HIDE DEF K
    <2>3. Recordable(Message(k))
        BY <1>1, <2>2, Zenon
    <2> HIDE DEF Message
    <2> QED
        BY <1>2, <2>1, <2>3
<1>11. CASE Tools \/ Exclusive \/ Fill \/ CommitReady \/ Drained
    <2>1. UNCHANGED logVars \/ \E n, label : Commit(n) \/ CommitFails(n, label) \/ Start(n, label) \/ Refuses(CallEvent(n))
        BY <1>11 DEF Tools, Exclusive, Fill, CommitReady, Drained
    <2> QED
        BY <1>3, <1>5, <2>1
<1>12. CASE Abort
    <2>1. UNCHANGED logVars \/ Logs(CallEvent(next)) \/ Refuses(CallEvent(next))
             \/ Logs(ResultEvent(next, "aborted")) \/ Refuses(ResultEvent(next, "aborted"))
        BY <1>12 DEF Abort
    <2> QED
        BY <1>2, <1>3, <1>4, <2>1
<1>13. CASE Committed \/ Receive \/ (\E n \in Calls : BodySettles(n)) \/ Cancel \/ Steer \/ SteerCancels
    <2>1. stored' = stored
        BY <1>13 DEF Committed, Receive, BodySettles, Cancel, Steer, SteerCancels, logVars
    <2> QED
        BY <2>1 DEF Grows
<1> QED
    BY <1>6, <1>7, <1>8, <1>9, <1>10, <1>11, <1>12, <1>13 DEF LoopStep

\* So are those of a crash, a load and a recovery.
LEMMA RestartRecords ==
    ASSUME Recorded, Load \/ Crash \/ Recover
    PROVE  Recorded'
<1>1. PICK S : Record(S) /\ stored \in Seq(S)
    BY DEF Recorded
<1>2. Recordable(Torn)
    BY DEF Torn, Event, Recordable
<1>3. CASE Load
    <2>1. PICK R : Record(R) /\ InterruptedTurnClosers(stored) \in Seq(R)
        BY <1>1, ClosersRecorded
    <2> QED
        BY <1>1, <1>3, <2>1, RecordsJoin DEF Load
<1>4. CASE Crash
    <2>1. stored' = stored \/ stored' = Append(stored, Torn)
        BY <1>4 DEF Crash
    <2>2. stored' = stored => Recorded'
        BY <1>1 DEF Recorded
    <2> QED
        BY <1>2, <2>1, <2>2, RecordAdded
<1>5. CASE Recover
    <2> DEFINE base == Complete(stored)
               C == InterruptedTurnClosers(base)
    <2>1. base \in Seq(S)
        <3>1. Len(stored) > 0 => SubSeq(stored, 1, Len(stored) - 1) \in Seq(S)
            BY <1>1
        <3> QED
            BY <1>1, <3>1 DEF Complete
    <2>2. stored' = base \o C \/ \E k \in 0 .. Len(C) : stored' = base \o SubSeq(C, 1, k) \o <<Torn>>
        BY <1>5 DEF Recover
    <2> HIDE DEF base
    <2>3. PICK R : Record(R) /\ C \in Seq(R)
        BY <1>1, <2>1, ClosersRecorded
    <2> HIDE DEF C
    <2>4. CASE stored' = base \o C
        BY <1>1, <2>1, <2>3, <2>4, RecordsJoin
    <2>5. ASSUME NEW k \in 0 .. Len(C), stored' = base \o SubSeq(C, 1, k) \o <<Torn>> PROVE Recorded'
        <3> DEFINE Q == R \cup {Torn}
        <3>1. Record(Q)
            BY <1>2, <2>3 DEF Record
        <3>2. R \subseteq Q /\ Torn \in Q
            OBVIOUS
        <3> HIDE DEF Q
        <3>3. SubSeq(C, 1, k) \in Seq(R)
            BY <2>3
        <3> DEFINE P == SubSeq(C, 1, k)
        <3> HIDE DEF P
        <3>4. P \in Seq(Q) /\ <<Torn>> \in Seq(Q)
            BY <3>2, <3>3 DEF P
        <3>5. P \o <<Torn>> \in Seq(Q)
            BY <3>4
        <3>6. stored' = base \o (P \o <<Torn>>)
            <4>1. stored' = (base \o P) \o <<Torn>>
                BY <2>5 DEF P
            <4> DEFINE A == S \cup Q
            <4>2. S \subseteq A /\ Q \subseteq A
                OBVIOUS
            <4> HIDE DEF A
            <4>3. base \in Seq(A) /\ P \in Seq(A) /\ <<Torn>> \in Seq(A)
                BY <2>1, <3>4, <4>2
            <4>4. (base \o P) \o <<Torn>> = base \o (P \o <<Torn>>)
                BY <4>3
            <4> QED
                BY <4>1, <4>4
        <3> QED
            BY <1>1, <2>1, <3>1, <3>5, <3>6, RecordsJoin
    <2> QED
        BY <2>2, <2>4, <2>5
<1> QED
    BY <1>3, <1>4, <1>5

\* LoopTypeOK, its parts apart.
LEMMA TypesAre ==
    /\ LoopTypeOK => Flags /\ at \in LoopLabels /\ Counts /\ CallTypes
    /\ Flags /\ at \in LoopLabels /\ Counts /\ CallTypes /\ Recorded => LoopTypeOK
<1>1. LoopTypeOK => Flags
    BY DEF LoopTypeOK, Flags
<1>2. LoopTypeOK => at \in LoopLabels /\ Counts /\ CallTypes
    BY DEF LoopTypeOK, LoopLabels, Counts, CallTypes, Between, Entering, Asking, ToolPhase
<1>3. ASSUME Recorded
      PROVE  \A i \in DOMAIN stored : stored[i].type \in Anchors \cup {"assistant", "call", "result", "torn"}
    <2>1. PICK S : Record(S) /\ stored \in Seq(S)
        BY <1>3 DEF Recorded
    <2>2. \A i \in DOMAIN stored : stored[i] \in S
        BY <2>1
    <2> QED
        BY <2>1, <2>2 DEF Record, Recordable
<1>4. ASSUME Flags, at \in LoopLabels, Counts, CallTypes, Recorded
      PROVE  LoopTypeOK
    <2>1. {steering, steerPending, queued, supplied, done, blocked} \subseteq BOOLEAN
        BY <1>4 DEF Flags
    <2>2. at \in Stopped \cup {"top", "preStep", "openStep", "request", "stream", "answered", "tools",
           "exclusive", "fill", "filled", "settle", "wait", "drain", "abort", "endStep", "stepped",
           "stopping", "endTurn"}
        BY <1>4 DEF LoopLabels, Between, Entering, Asking, ToolPhase
    <2> QED
        BY <1>3, <1>4, <2>1, <2>2 DEF LoopTypeOK, Flags, Counts, CallTypes
<1> QED
    BY <1>1, <1>2, <1>3, <1>4

\* What a step does to the log, one way or another.
Effects ==
    \/ Notes \/ NoteFails \/ UNCHANGED logVars
    \/ \E e : Logs(e) \/ Refuses(e)
    \/ \E kind : Trouble(kind) /\ diverged' \in {diverged, TRUE, FALSE}

\* Appends and notes keep the types.
LEMMA TroubleTypes ==
    ASSUME Flags, Counts, Effects
    PROVE  diverged' \in BOOLEAN /\ troubles' \in 0 .. Troubles + 1
<1>1. diverged \in BOOLEAN /\ troubles \in 0 .. Troubles + 1 /\ Troubles \in Nat
    BY BoundsAssumption DEF Flags, Counts
<1>2. ASSUME NEW kind, Trouble(kind) PROVE troubles' \in 0 .. Troubles + 1
    BY <1>1, <1>2 DEF Trouble
<1>3. diverged' \in BOOLEAN
    BY <1>1, Zenon DEF Effects, Notes, NoteFails, logVars, Logs, Refuses
<1>4. troubles' \in 0 .. Troubles + 1
    <2>1. troubles' = troubles \/ \E kind : Trouble(kind)
        BY DEF Effects, Notes, NoteFails, logVars, Logs, Refuses
    <2> QED
        BY <1>1, <1>2, <2>1
<1> QED
    BY <1>3, <1>4

\* What a step may change of the flags and the counters.
LEMMA LoopEffects ==
    ASSUME StartTurn \/ LoopStep \/ (\E n \in Calls : BodySettles(n)) \/ Cancel \/ Steer \/ SteerCancels \/ Load \/ Crash
    PROVE  Effects
<1>1. CASE StartTurn \/ EndTurn \/ OpenStep \/ EndStep
    BY <1>1 DEF StartTurn, EndTurn, OpenStep, EndStep, Effects
<1>2. CASE Top \/ Stepped \/ PreStep \/ Stopping
    <2>1. ContinueOnCancel => Notes \/ NoteFails \/ UNCHANGED logVars
        BY DEF ContinueOnCancel, Resume
    <2> QED
        BY <1>2, <2>1 DEF Top, Stepped, PreStep, Stopping, Effects
<1>3. CASE Request \/ Respond \/ StreamBreaks \/ Answered
    <2>1. RequestFails => Notes
        BY DEF RequestFails
    <2> QED
        BY <1>3, <2>1 DEF Request, Respond, StreamBreaks, Answered, Effects
<1>4. ASSUME NEW n, NEW label, Commit(n) \/ CommitFails(n, label) \/ Start(n, label) PROVE Effects
    BY <1>4 DEF Commit, CommitFails, Start, Effects
<1>5. CASE Tools \/ Exclusive \/ Fill \/ CommitReady \/ Drained
    <2>1. \/ UNCHANGED logVars \/ \E n : Refuses(CallEvent(n))
          \/ \E n, label : Commit(n) \/ CommitFails(n, label) \/ Start(n, label)
        BY <1>5 DEF Tools, Exclusive, Fill, CommitReady, Drained
    <2> QED
        BY <1>4, <2>1 DEF Effects
<1>6. CASE Committed \/ Receive \/ Abort
    BY <1>6 DEF Committed, Receive, Abort, Effects
<1>7. CASE \E n \in Calls : BodySettles(n)
    BY <1>7 DEF BodySettles, Effects
<1>8. CASE Cancel \/ Steer \/ SteerCancels \/ Load \/ Crash
    BY <1>8 DEF Cancel, Steer, SteerCancels, Load, Crash, Effects
<1> QED
    BY <1>1, <1>2, <1>3, <1>5, <1>6, <1>7, <1>8 DEF LoopStep

\* Every step keeps the flags, the labels and the counts.
LEMMA TurnTypes ==
    ASSUME TypeInvariant, StartTurn \/ Top \/ PreStep \/ Stepped \/ Stopping \/ EndTurn
    PROVE  Flags' /\ at' \in LoopLabels /\ Counts'
<1>1. Flags /\ at \in LoopLabels /\ Counts /\ Effects
    BY TypesAre, LoopEffects DEF TypeInvariant, LoopStep
<1>2. diverged' \in BOOLEAN /\ troubles' \in 0 .. Troubles + 1
    BY <1>1, TroubleTypes
<1>3. at' \in LoopLabels
    <2>1. ContinueOnCancel => at' \in {"top", "endTurn"}
        BY DEF ContinueOnCancel, Resume, Aborts, Goes
    <2>2. at' \in {at, "top", "preStep", "openStep", "stopping", "endTurn", "idle"}
        BY <2>1 DEF StartTurn, Top, PreStep, Stepped, Stopping, EndTurn, Aborts, Goes
    <2> QED
        BY <1>1, <2>2 DEF LoopLabels, Between, Entering, Stopped
<1>4. ASSUME ContinueOnCancel
      PROVE  /\ step' \in {step, step + 1} /\ turn' = turn /\ err' \in {"none", "failed", "cancelled"}
             /\ ctx' \in {ctx, "masked"} /\ steerPending' = FALSE /\ queued' \in {queued, FALSE}
             /\ supplied' \in {supplied, TRUE} /\ done' = done /\ blocked' = blocked /\ steering' = steering
    BY <1>4 DEF ContinueOnCancel, Resume, Aborts
<1>5. CASE StartTurn
    <2>1. turn' = turn \/ turn' = TurnStarts(stored, Len(stored)) + 1
        BY <1>5 DEF StartTurn
    <2>2. turn' \in 0 .. MaxTurns
        <3>1. at = "idle" /\ TurnStarts(stored, Len(stored)) + 1 <= MaxTurns
            BY <1>5 DEF StartTurn
        <3>2. PICK S : stored \in Seq(S)
            BY DEF TypeInvariant, Recorded
        <3>3. TurnStarts(stored, Len(stored)) \in Nat
            BY <3>2, TurnsCounted
        <3>4. MaxTurns \in Nat
            BY BoundsAssumption
        <3> QED
            BY <1>1, <2>1, <3>1, <3>3, <3>4 DEF Counts
    <2>3. step' \in {step, 1} /\ attempt' = attempt
        BY <1>5 DEF StartTurn
    <2>4. Counts'
        BY <1>1, <1>2, <2>2, <2>3 DEF Counts
    <2>5. Flags'
        BY <1>1, <1>2, <1>5 DEF Flags, StartTurn, stepVars
    <2> QED
        BY <1>3, <2>4, <2>5
<1>6. CASE Top \/ Stepped
    <2>1. step' \in {step, step + 1} /\ turn' = turn /\ attempt' = attempt
        BY <1>4, <1>6 DEF Top, Stepped, turnVars
    <2>2. Counts'
        BY <1>1, <1>2, <2>1 DEF Counts
    <2>3. Flags'
        <3>1. CASE ContinueOnCancel
            BY <1>1, <1>2, <1>4, <3>1 DEF Flags
        <3>2. CASE UNCHANGED <<ctx, steering, steerPending, queued, supplied, stepVars>>
            BY <1>1, <1>2, <3>2 DEF Flags, stepVars
        <3> QED
            BY <1>6, <3>1, <3>2 DEF Top, Stepped, turnVars
    <2> QED
        BY <1>3, <2>2, <2>3
<1>7. CASE PreStep \/ Stopping
    <2>1. step' \in {step, step + 1} /\ turn' = turn /\ attempt' = attempt
        BY <1>7 DEF PreStep, Stopping
    <2>2. Counts'
        BY <1>1, <1>2, <2>1 DEF Counts
    <2>3. Flags'
        BY <1>1, <1>2, <1>7 DEF Flags, PreStep, Stopping, stepVars, Aborts
    <2> QED
        BY <1>3, <2>2, <2>3
<1>8. CASE EndTurn
    <2>1. Counts'
        <3>1. MaxTurns \in Nat /\ MaxRetries \in Nat
            BY BoundsAssumption
        <3> QED
            BY <1>2, <1>8, <3>1 DEF Counts, EndTurn, AtRest
    <2>2. Flags'
        BY <1>1, <1>2, <1>8 DEF Flags, EndTurn, AtRest
    <2> QED
        BY <1>3, <2>1, <2>2
<1> QED
    BY <1>5, <1>6, <1>7, <1>8

\* The steps of a model request keep the types.
LEMMA RequestTypes ==
    ASSUME TypeInvariant, OpenStep \/ Request \/ Respond \/ StreamBreaks \/ Answered \/ EndStep
    PROVE  Flags' /\ at' \in LoopLabels /\ Counts'
<1>1. Flags /\ at \in LoopLabels /\ Counts /\ Effects
    BY TypesAre, LoopEffects DEF TypeInvariant, LoopStep
<1>2. diverged' \in BOOLEAN /\ troubles' \in 0 .. Troubles + 1
    BY <1>1, TroubleTypes
<1>3. turn' = turn /\ step' = step
    BY DEF OpenStep, Request, Respond, StreamBreaks, Answered, EndStep, turnVars
<1>4. attempt' \in 0 .. MaxRetries
    <2>1. attempt \in 0 .. MaxRetries /\ MaxRetries \in Nat
        BY <1>1, BoundsAssumption DEF Counts
    <2>2. attempt' \in {attempt, 0} \/ (attempt < MaxRetries /\ attempt' = attempt + 1)
        BY DEF OpenStep, Request, Respond, StreamBreaks, Answered, EndStep, RequestFails
    <2> QED
        BY <2>1, <2>2
<1>5. Counts'
    BY <1>1, <1>2, <1>3, <1>4 DEF Counts
<1>6. at' \in LoopLabels
    <2>1. at' \in {"request", "stepped", "stream", "endStep", "answered", "tools"}
        BY DEF OpenStep, Request, Respond, StreamBreaks, Answered, EndStep, RequestFails, Fails, Goes
    <2> QED
        BY <2>1 DEF LoopLabels, Between, Asking, ToolPhase
<1>7. steering' = steering /\ steerPending' = steerPending /\ queued' = queued /\ supplied' = supplied
      /\ ctx' = ctx /\ blocked' = blocked
    BY DEF OpenStep, Request, Respond, StreamBreaks, Answered, EndStep, RequestFails, Fails, turnVars, stepVars
<1>8. done' \in {done, TRUE, FALSE}
    BY DEF OpenStep, Request, Respond, StreamBreaks, Answered, EndStep, RequestFails, Fails, stepVars
<1>9. err' \in {err, "none", "failed", "cancelled"}
    BY DEF OpenStep, Request, Respond, StreamBreaks, Answered, EndStep, RequestFails, Fails, stepVars
<1>10. Flags'
    BY <1>1, <1>2, <1>7, <1>8, <1>9 DEF Flags
<1> QED
    BY <1>5, <1>6, <1>10

\* So do the steps of the tool phase,
LEMMA ToolTypes ==
    ASSUME TypeInvariant,
           Tools \/ Exclusive \/ Fill \/ CommitReady \/ Committed \/ Receive \/ Drained \/ Abort
    PROVE  Flags' /\ at' \in LoopLabels /\ Counts'
<1>1. Flags /\ at \in LoopLabels /\ Counts /\ Effects
    BY TypesAre, LoopEffects DEF TypeInvariant, LoopStep
<1>2. diverged' \in BOOLEAN /\ troubles' \in 0 .. Troubles + 1
    BY <1>1, TroubleTypes
<1>3. turn' = turn /\ step' = step /\ attempt' = attempt
    BY DEF Tools, Exclusive, Fill, CommitReady, Committed, Receive, Drained, Abort, turnVars
<1>4. Counts'
    BY <1>1, <1>2, <1>3 DEF Counts
<1>5. ASSUME NEW n, NEW label, Commit(n) \/ CommitFails(n, label) \/ Start(n, label)
      PROVE  blocked' = blocked /\ done' = done /\ err' \in {err, "failed"}
    BY <1>5 DEF Commit, CommitFails, Start, stepVars
<1>6. at' \in LoopLabels
    <2>1. at' \in {at} \cup ToolPhase \cup {"endStep"}
        BY DEF Tools, Exclusive, Fill, CommitReady, Committed, Receive, Drained, Abort, Fails, Goes, Start, CommitFails, ToolPhase
    <2> QED
        BY <1>1, <2>1 DEF LoopLabels
<1>7. steering' = steering /\ steerPending' = steerPending /\ queued' = queued /\ supplied' = supplied
      /\ ctx' = ctx
    BY DEF Tools, Exclusive, Fill, CommitReady, Committed, Receive, Drained, Abort, turnVars
<1>8. blocked' = blocked /\ done' \in {done, TRUE, FALSE} /\ err' \in {err, "none", "failed", "cancelled"}
    <2>1. CASE Tools
        BY <1>5, <2>1 DEF Tools, Fails, stepVars
    <2>2. CASE Exclusive
        BY <1>5, <2>2 DEF Exclusive
    <2>3. CASE CommitReady
        BY <1>5, <2>3 DEF CommitReady
    <2>4. CASE Fill
        BY <1>5, <2>4 DEF Fill, stepVars
    <2>5. CASE Drained
        BY <1>5, <2>5 DEF Drained, stepVars
    <2>6. CASE Committed \/ Receive \/ Abort
        BY <2>6 DEF Committed, Receive, Abort, Fails, stepVars
    <2> QED
        BY <2>1, <2>2, <2>3, <2>4, <2>5, <2>6
<1>9. Flags'
    BY <1>1, <1>2, <1>7, <1>8 DEF Flags
<1> QED
    BY <1>4, <1>6, <1>9

\* and those of the bodies, the callers and the store.
LEMMA WorldTypes ==
    ASSUME TypeInvariant,
           (\E n \in Calls : BodySettles(n)) \/ Cancel \/ Steer \/ SteerCancels \/ Load \/ Crash \/ Recover
    PROVE  Flags' /\ at' \in LoopLabels /\ Counts'
<1>1. Flags /\ at \in LoopLabels /\ Counts /\ Troubles \in Nat /\ MaxRetries \in Nat /\ MaxTurns \in Nat
    BY TypesAre, BoundsAssumption DEF TypeInvariant
<1>2. CASE (\E n \in Calls : BodySettles(n)) \/ Cancel \/ Steer \/ SteerCancels \/ Load \/ Crash
    <2>1. diverged' \in BOOLEAN /\ troubles' \in 0 .. Troubles + 1
        BY <1>1, <1>2, LoopEffects, TroubleTypes
    <2>2. turn' \in {turn, 0} /\ step' \in {step, 0} /\ attempt' \in {attempt, 0}
        BY <1>2 DEF BodySettles, Cancel, Steer, SteerCancels, Load, Crash, AtRest, turnVars
    <2>3. Counts'
        BY <1>1, <2>1, <2>2 DEF Counts
    <2>4. at' \in {at, "down"}
        BY <1>2 DEF BodySettles, Cancel, Steer, SteerCancels, Load, Crash, Goes
    <2>5. at' \in LoopLabels
        BY <1>1, <2>4 DEF LoopLabels, Stopped
    <2>6. ctx' \in {ctx, "live", "cancelled"} /\ steering' \in {steering, TRUE, FALSE}
          /\ steerPending' \in {steerPending, TRUE, FALSE} /\ queued' \in {queued, TRUE, FALSE}
          /\ supplied' \in {supplied, FALSE}
        BY <1>2 DEF BodySettles, Cancel, Steer, SteerCancels, Load, Crash, AtRest, turnVars
    <2>7. err' \in {err, "none"} /\ done' \in {done, FALSE} /\ blocked' \in {blocked, FALSE}
        BY <1>2 DEF BodySettles, Cancel, Steer, SteerCancels, Load, Crash, AtRest, stepVars
    <2>8. Flags'
        <3>1. ctx' \in {"live", "cancelled", "masked"} /\ err' \in {"none", "failed", "cancelled"}
            BY <1>1, <2>6, <2>7 DEF Flags
        <3>2. /\ steering' \in BOOLEAN /\ steerPending' \in BOOLEAN /\ queued' \in BOOLEAN
              /\ supplied' \in BOOLEAN /\ done' \in BOOLEAN /\ blocked' \in BOOLEAN
            BY <1>1, <2>6, <2>7, Zenon DEF Flags
        <3> QED
            BY <2>1, <3>1, <3>2 DEF Flags
    <2> QED
        BY <2>3, <2>5, <2>8
<1>3. CASE Recover
    <2>1. diverged' = diverged /\ UNCHANGED <<turnVars, stepVars, attempt>>
        BY <1>3 DEF Recover
    <2>2. troubles' = troubles \/ (troubles <= Troubles /\ troubles' = troubles + 1)
        BY <1>3 DEF Recover
    <2>3. Counts'
        <3>1. troubles' \in 0 .. Troubles + 1
            BY <1>1, <2>2 DEF Counts
        <3> QED
            BY <1>1, <2>1, <3>1 DEF Counts, turnVars
    <2>4. Flags'
        BY <1>1, <2>1 DEF Flags, turnVars, stepVars
    <2>5. at' \in {at, "idle", "refused"}
        BY <1>3 DEF Recover, Goes
    <2>6. at' \in LoopLabels
        BY <1>1, <2>5 DEF LoopLabels, Stopped
    <2> QED
        BY <2>3, <2>4, <2>6
<1> QED
    BY <1>2, <1>3

-----------------------------------------------------------------------------
(* The calls and their bodies.                                             *)

\* Outside the tool phase there are none.
LEMMA BareKept ==
    ASSUME TypeInvariant, StartTurn \/ Top \/ PreStep \/ Stepped \/ Stopping \/ EndTurn \/ OpenStep \/ EndStep \/ Crash \/ Recover
    PROVE  CallTypes' /\ BodyInv'
<1>1. CallTypes /\ BodyInv /\ MaxCalls \in Nat
    BY TypesAre, BoundsAssumption DEF TypeInvariant
<1>2. NoBodies \in [Calls -> {"none", "running", "settled", "ready", "denied", "committed", "aborted"}]
    BY DEF NoBodies
<1>3. Len(<<>>) = 0 /\ <<>> \in Seq(Kinds)
    OBVIOUS
<1>4. ContinueOnCancel => at' \in {"top", "endTurn"}
    BY DEF ContinueOnCancel, Resume, Aborts, Goes
<1>5. at' \in Stopped \cup Between \/ (at' = "request" /\ err' = "none")
    <2>1. CASE StartTurn \/ PreStep \/ Stopping \/ EndTurn \/ OpenStep \/ EndStep
        BY <2>1 DEF StartTurn, PreStep, Stopping, EndTurn, OpenStep, EndStep, Goes, Aborts, Between, Entering, Stopped
    <2>2. CASE Top \/ Stepped
        BY <1>4, <2>2 DEF Top, Stepped, Goes, Between, Entering, Stopped
    <2>3. CASE Crash \/ Recover
        BY <2>3 DEF Crash, Recover, Goes, Stopped
    <2> QED
        BY <2>1, <2>2, <2>3
<1>6. asked' = asked
    BY DEF StartTurn, Top, PreStep, Stepped, Stopping, EndTurn, OpenStep, EndStep, Crash, Recover, boundVars
<1>7. Bare'
    <2>1. CASE StartTurn \/ Top \/ PreStep \/ Stepped \/ Stopping \/ OpenStep \/ Recover
        <3>1. at \in Stopped \cup Between /\ UNCHANGED toolVars
            BY <2>1 DEF StartTurn, Top, PreStep, Stepped, Stopping, OpenStep, Recover, Between, Entering, Stopped
        <3>2. Bare
            BY <1>1, <3>1 DEF BodyInv
        <3> QED
            BY <3>1, <3>2 DEF Bare, toolVars
    <2>2. CASE EndTurn \/ EndStep \/ Crash
        BY <2>2 DEF EndTurn, EndStep, Crash, AtRest, Bare
    <2> QED
        BY <2>1, <2>2
<1>8. CallTypes'
    BY <1>1, <1>2, <1>3, <1>6, <1>7 DEF CallTypes, Bare
<1>9. BodyInv'
    BY <1>5, <1>7 DEF BodyInv, Stopped, Between, Entering, Asking, InStep, ToolPhase
<1> QED
    BY <1>8, <1>9

\* The model asks for calls.
LEMMA RequestBodies ==
    ASSUME TypeInvariant, Request \/ Respond \/ StreamBreaks \/ Answered
    PROVE  CallTypes' /\ BodyInv'
<1>1. CallTypes /\ BodyInv /\ MaxCalls \in Nat
    BY TypesAre, BoundsAssumption DEF TypeInvariant
<1>2. RequestFails => (at' = "request" /\ err' = err) \/ at' = "endStep"
    BY DEF RequestFails, Fails, Goes, stepVars
<1>3. CASE Request \/ StreamBreaks
    <2>1. UNCHANGED toolVars /\ asked' = asked /\ at \in Asking
        BY <1>3 DEF Request, StreamBreaks, boundVars, Asking
    <2>2. at' = "endStep" \/ (at' \in Asking /\ err' = err)
        BY <1>2, <1>3 DEF Request, StreamBreaks, Fails, Goes, Asking, stepVars
    <2>3. Bare /\ err = "none"
        <3>1. at \in InStep \ {"drain", "endStep"}
            BY <2>1 DEF Asking, InStep
        <3> QED
            BY <1>1, <2>1, <3>1 DEF BodyInv
    <2>4. Bare'
        BY <2>1, <2>3 DEF Bare, toolVars
    <2>5. CallTypes'
        BY <1>1, <2>1 DEF CallTypes, toolVars
    <2>6. BodyInv'
        BY <2>2, <2>3, <2>4 DEF BodyInv, Stopped, Between, Entering, Asking, InStep, ToolPhase
    <2> QED
        BY <2>5, <2>6
<1>4. CASE Respond
    <2>1. at = "stream" /\ next' = next /\ body' = body
        BY <1>4 DEF Respond
    <2>2. Bare /\ err = "none"
        <3>1. at \in InStep \ {"drain", "endStep"} /\ at \in Asking
            BY <2>1 DEF Asking, InStep
        <3> QED
            BY <1>1, <3>1 DEF BodyInv
    <2>3. PICK k \in 0 .. (IF StepStarts < MaxSteps THEN MaxCalls - asked ELSE 0) :
              \/ at' = "answered" /\ calls' \in [1 .. k -> Kinds] /\ asked' = asked + k /\ err' = err
              \/ at' = "endStep" /\ calls' = calls /\ asked' = asked
        BY <1>4 DEF Respond, Fails, Goes, stepVars
    <2>4. asked \in 0 .. MaxCalls
        BY <1>1 DEF CallTypes
    <2>5. k \in Nat /\ k <= MaxCalls /\ asked + k \in 0 .. MaxCalls
        BY <1>1, <2>4
    <2>6. CASE at' = "answered" /\ calls' \in [1 .. k -> Kinds] /\ asked' = asked + k /\ err' = err
        <3>1. calls' \in Seq(Kinds) /\ Len(calls') = k
            BY <2>5, <2>6
        <3>2. CallTypes'
            BY <1>1, <2>1, <2>2, <2>5, <2>6, <3>1 DEF CallTypes, Bare
        <3>3. BodyInv'
            BY <2>1, <2>2, <2>6 DEF BodyInv, Bare, NoBodies, Calls, Stopped, Between, Entering, Asking, InStep, ToolPhase
        <3> QED
            BY <3>2, <3>3
    <2>7. CASE at' = "endStep" /\ calls' = calls /\ asked' = asked
        BY <1>1, <2>1, <2>7 DEF CallTypes, BodyInv, Stopped, Between, Entering, Asking, InStep, ToolPhase
    <2> QED
        BY <2>3, <2>6, <2>7
<1>5. CASE Answered
    <2>1. at = "answered" /\ UNCHANGED toolVars /\ asked' = asked
        BY <1>5 DEF Answered, boundVars
    <2>2. at' = "endStep" \/ (at' = "tools" /\ err' = err)
        BY <1>5 DEF Answered, Fails, Goes
    <2>3. next = 1 /\ body = NoBodies /\ err = "none"
        <3>1. at \in InStep \ {"drain", "endStep"}
            BY <2>1 DEF InStep
        <3> QED
            BY <1>1, <2>1, <3>1 DEF BodyInv
    <2>4. CallTypes'
        BY <1>1, <2>1 DEF CallTypes, toolVars
    <2>5. at' = "tools" => \A n \in Calls : Pool(n)'
        <3>1. next' = 1 /\ body' = NoBodies
            BY <2>1, <2>3 DEF toolVars
        <3>2. \A n \in Calls : ~(n < 1) /\ NoBodies[n] = "none"
            BY <1>1 DEF Calls, NoBodies
        <3> QED
            BY <3>1, <3>2 DEF Pool
    <2>6. BodyInv'
        BY <2>2, <2>3, <2>5 DEF BodyInv, Stopped, Between, Entering, Asking, InStep, ToolPhase
    <2> QED
        BY <2>4, <2>6
<1> QED
    BY <1>3, <1>4, <1>5

\* When no body runs and the head is not ready, nothing is in flight.
LEMMA EmptyPool ==
    ASSUME LoopTypeOK, BodyInv, at \in {"settle", "drain"}, Running = {}, ~HeadReady
    PROVE  \A n \in Calls : n < next => body[n] = "committed"
<1>1. Len(calls) \in Nat /\ Len(calls) <= MaxCalls /\ next \in 1 .. Len(calls) + 1 /\ MaxCalls \in Nat
    BY BoundsAssumption DEF LoopTypeOK
<1>2. InFlight = {}
    <2> SUFFICES ASSUME InFlight # {} PROVE FALSE
        OBVIOUS
    <2> DEFINE h == Min(InFlight)
    <2>1. h \in InFlight
        BY HeadInFlight
    <2> HIDE DEF h
    <2>2. h \in 1 .. Len(calls) /\ body[h] \in {"running", "settled", "ready", "denied"}
        BY <2>1 DEF InFlight
    <2>3. body[h] \notin {"running", "settled"}
        BY <2>2 DEF Running
    <2>4. body[h] \in {"ready", "denied"}
        BY <2>2, <2>3
    <2> QED
        BY <2>4 DEF HeadReady, h
<1>3. ASSUME NEW n \in Calls, n < next PROVE body[n] = "committed"
    <2>1. n \in 1 .. Len(calls)
        BY <1>1, <1>3 DEF Calls
    <2>2. body[n] \notin {"running", "settled", "ready", "denied"}
        BY <1>2, <2>1 DEF InFlight
    <2>3. at \in ToolPhase
        BY DEF ToolPhase
    <2>4. body[n] # "none" /\ body[n] # "aborted"
        BY <1>3, <2>3 DEF BodyInv, Pool
    <2>5. body[n] \in {"none", "running", "settled", "ready", "denied", "committed", "aborted"}
        BY <1>3 DEF LoopTypeOK
    <2> QED
        BY <2>2, <2>4, <2>5
<1> QED
    BY <1>3

\* The pool does not change with a label that asks for no more.
LEMMA PoolKept ==
    ASSUME at \in ToolPhase, \A n \in Calls : Pool(n), UNCHANGED toolVars,
           \/ at = "tools" /\ at' \in {"fill", "abort"}
           \/ at = "fill" /\ at' \in {"settle", "drain"}
           \/ at \in {"filled", "settle"} /\ at' \in {"fill", "drain", "wait"}
           \/ at \in {"settle", "drain"} /\ at' \in {"tools", "abort"} /\ \A n \in Calls : n < next => body[n] = "committed"
           \/ at' = at
    PROVE  \A n \in Calls : Pool(n)'
<1> SUFFICES ASSUME NEW n \in Calls PROVE Pool(n)'
    OBVIOUS
<1>1. Pool(n) /\ next' = next /\ body' = body /\ calls' = calls
    BY DEF toolVars
<1>2. Len(calls') = Len(calls)
    BY <1>1
<1>3. CASE at' = at
    BY <1>1, <1>3 DEF Pool
<1>4. CASE at = "tools" /\ at' \in {"fill", "abort"}
    BY <1>1, <1>4 DEF Pool
<1>5. CASE at = "fill" /\ at' \in {"settle", "drain"}
    BY <1>1, <1>5 DEF Pool
<1>6. CASE at \in {"filled", "settle"} /\ at' \in {"fill", "drain", "wait"}
    BY <1>1, <1>6 DEF Pool
<1>7. CASE at \in {"settle", "drain"} /\ at' \in {"tools", "abort"} /\ \A k \in Calls : k < next => body[k] = "committed"
    BY <1>1, <1>7 DEF Pool
<1> QED
    BY <1>3, <1>4, <1>5, <1>6, <1>7

\* A body moves on within the pool.
LEMMA PoolMoves ==
    ASSUME CallTypes, at \in ToolPhase, \A n \in Calls : Pool(n), NEW k \in Calls, k <= Len(calls), NEW s,
           calls' = calls, body' = [body EXCEPT ![k] = s],
           \/ /\ at \in {"filled", "settle", "drain", "wait", "fill"} /\ next' = next /\ body[k] \notin {"none", "aborted"}
              /\ s \in {"settled", "ready", "committed"} /\ (at' = at \/ (at = "wait" /\ at' = "fill"))
           \/ /\ at = "exclusive" /\ at' = "exclusive" /\ k = next /\ next' = next /\ s = "settled"
           \/ /\ at \in {"exclusive"} /\ at' = "tools" /\ k = next /\ next' = next + 1 /\ s = "committed"
           \/ /\ at = "tools" /\ at' = "exclusive" /\ k = next /\ next' = next /\ s \in {"running", "denied"}
           \/ /\ at = "fill" /\ at' = "filled" /\ k = next /\ next' = next + 1 /\ s \in {"running", "denied"}
           \/ /\ at = "abort" /\ at' = "abort" /\ k = next /\ next' = next /\ s = "aborted"
    PROVE  \A n \in Calls : Pool(n)'
<1> SUFFICES ASSUME NEW n \in Calls PROVE Pool(n)'
    OBVIOUS
<1>1. Pool(n) /\ Pool(k) /\ Len(calls') = Len(calls) /\ Len(calls) \in Nat /\ next \in Nat /\ n \in Nat /\ k \in Nat
    BY BoundsAssumption DEF CallTypes, Calls
<1>2. body'[n] = IF n = k THEN s ELSE body[n]
    BY DEF CallTypes
<1>3. CASE /\ at \in {"filled", "settle", "drain", "wait", "fill"} /\ next' = next /\ body[k] \notin {"none", "aborted"}
           /\ s \in {"settled", "ready", "committed"} /\ (at' = at \/ (at = "wait" /\ at' = "fill"))
    BY <1>1, <1>2, <1>3 DEF Pool
<1>4. CASE at = "exclusive" /\ at' = "exclusive" /\ k = next /\ next' = next /\ s = "settled"
    BY <1>1, <1>2, <1>4 DEF Pool
<1>5. CASE at \in {"exclusive"} /\ at' = "tools" /\ k = next /\ next' = next + 1 /\ s = "committed"
    BY <1>1, <1>2, <1>5 DEF Pool
<1>6. CASE at = "tools" /\ at' = "exclusive" /\ k = next /\ next' = next /\ s \in {"running", "denied"}
    BY <1>1, <1>2, <1>6 DEF Pool
<1>7. CASE at = "fill" /\ at' = "filled" /\ k = next /\ next' = next + 1 /\ s \in {"running", "denied"}
    BY <1>1, <1>2, <1>7 DEF Pool
<1>8. CASE at = "abort" /\ at' = "abort" /\ k = next /\ next' = next /\ s = "aborted"
    BY <1>1, <1>2, <1>8 DEF Pool
<1> QED
    BY <1>3, <1>4, <1>5, <1>6, <1>7, <1>8

\* One call's body changes, or none.
Changes(k, s) == body' = [body EXCEPT ![k] = s] /\ k \in Calls /\ k <= Len(calls)

\* The tool phase: what is to be shown of each of its steps.
LEMMA PhaseKept ==
    ASSUME CallTypes, asked' = asked, calls' = calls, next' \in 1 .. Len(calls) + 1,
           body' = body \/ \E k \in Calls, s \in {"running", "settled", "ready", "denied", "committed", "aborted"} : Changes(k, s),
           at' = "endStep" \/ /\ at' \in ToolPhase /\ \A n \in Calls : Pool(n)'
                              /\ IF at' = "drain" THEN err' \in {"none", "failed"} ELSE err' = "none"
                              /\ at' = "exclusive" => next' <= Len(calls)
    PROVE  CallTypes' /\ BodyInv'
<1>1. body' \in [Calls -> {"none", "running", "settled", "ready", "denied", "committed", "aborted"}]
    <2>1. CASE body' = body
        BY <2>1 DEF CallTypes
    <2>2. ASSUME NEW k \in Calls, NEW s \in {"running", "settled", "ready", "denied", "committed", "aborted"}, Changes(k, s)
          PROVE  body' \in [Calls -> {"none", "running", "settled", "ready", "denied", "committed", "aborted"}]
        BY <2>2 DEF CallTypes, Changes
    <2> QED
        BY <2>1, <2>2
<1>2. CallTypes'
    BY <1>1 DEF CallTypes
<1>3. CASE at' = "endStep"
    <2>1. at' \notin Stopped \cup Between \cup Asking /\ at' \notin ToolPhase
        BY <1>3 DEF Stopped, Between, Entering, Asking, ToolPhase
    <2>2. BodyInv'
        BY <1>3, <2>1, Zenon DEF BodyInv
    <2> QED
        BY <1>2, <2>2
<1>4. CASE /\ at' \in ToolPhase /\ \A n \in Calls : Pool(n)'
           /\ IF at' = "drain" THEN err' \in {"none", "failed"} ELSE err' = "none"
           /\ at' = "exclusive" => next' <= Len(calls)
    <2>1. at' \notin Stopped \cup Between \cup Asking /\ at' # "answered"
        BY <1>4 DEF Stopped, Between, Entering, Asking, ToolPhase
    <2>2. at' = "exclusive" => next' <= Len(calls')
        BY <1>4
    <2>3. (at' # "drain" => err' = "none") /\ (at' = "drain" => err' \in {"none", "failed"})
        BY <1>4
    <2>4. BodyInv'
        BY <1>4, <2>1, <2>2, <2>3, Zenon DEF BodyInv
    <2> QED
        BY <1>2, <2>4
<1> QED
    BY <1>2, <1>3, <1>4

\* A call that is handled next is one of the response's.
LEMMA NextCall ==
    ASSUME CallTypes, next <= Len(calls)
    PROVE  next \in Calls /\ next + 1 \in 1 .. Len(calls) + 1
BY BoundsAssumption DEF CallTypes, Calls

\* A call that has a body is behind the next one, or it is the exclusive one.
LEMMA Bodied ==
    ASSUME CallTypes, \A n \in Calls : Pool(n), NEW k \in Calls, body[k] # "none"
    PROVE  k <= Len(calls) /\ (k < next \/ (k = next /\ at \in {"exclusive", "abort"}))
<1>1. Pool(k) /\ Len(calls) \in Nat /\ next \in Nat /\ k \in Nat
    BY BoundsAssumption DEF CallTypes, Calls
<1> QED
    BY <1>1 DEF Pool

\* The calls that the loop handles one by one keep the pool in order.
LEMMA SerialBodies ==
    ASSUME TypeInvariant, Tools \/ Exclusive \/ Fill \/ Abort
    PROVE  CallTypes' /\ BodyInv'
<1>1. CallTypes /\ BodyInv /\ asked' = asked /\ calls' = calls
    BY TypesAre DEF TypeInvariant, Tools, Exclusive, Fill, Abort, boundVars
<1>2. next \in 1 .. Len(calls) + 1 /\ Len(calls) \in Nat
    BY <1>1 DEF CallTypes
<1>3. ASSUME at \in {"tools", "exclusive", "fill", "abort"}
      PROVE  at \in ToolPhase /\ err = "none" /\ \A n \in Calls : Pool(n)
    <2>1. at \in InStep \ {"drain", "endStep"} /\ at \in ToolPhase
        BY <1>3 DEF InStep, ToolPhase
    <2> QED
        BY <1>1, <2>1 DEF BodyInv
<1>4. CASE Tools
    <2>1. at = "tools" /\ next' = next
        BY <1>4 DEF Tools
    <2>2. \/ body' = body /\ at' = "endStep"
          \/ body' = body /\ err' = err /\ at' \in {"fill", "abort"}
          \/ next <= Len(calls) /\ err' = err /\ at' = "exclusive" /\ \E s \in {"running", "denied"} : body' = [body EXCEPT ![next] = s]
        BY <1>4 DEF Tools, Start, Fails, Goes, stepVars
    <2>3. CASE body' = body /\ at' = "endStep"
        BY <1>1, <1>2, <2>1, <2>3, PhaseKept
    <2>4. CASE body' = body /\ err' = err /\ at' \in {"fill", "abort"}
        <3>1. \A n \in Calls : Pool(n)'
            BY <1>1, <1>3, <2>1, <2>4, PoolKept DEF toolVars
        <3> QED
            BY <1>1, <1>2, <1>3, <2>1, <2>4, <3>1, PhaseKept DEF ToolPhase
    <2>5. ASSUME next <= Len(calls), err' = err, at' = "exclusive", NEW s \in {"running", "denied"}, body' = [body EXCEPT ![next] = s]
          PROVE  CallTypes' /\ BodyInv'
        <3>1. next \in Calls
            BY <1>1, <2>5, NextCall
        <3>2. \A n \in Calls : Pool(n)'
            BY <1>1, <1>3, <2>1, <2>5, <3>1, PoolMoves
        <3>3. Changes(next, s)
            BY <2>5, <3>1 DEF Changes
        <3> QED
            BY <1>1, <1>2, <1>3, <2>1, <2>5, <3>1, <3>2, <3>3, PhaseKept DEF ToolPhase
    <2> QED
        BY <2>2, <2>3, <2>4, <2>5
<1>5. CASE Exclusive
    <2>1. at = "exclusive" /\ next <= Len(calls)
        BY <1>1, <1>5 DEF Exclusive, BodyInv
    <2>2. next \in Calls /\ next + 1 \in 1 .. Len(calls) + 1
        BY <1>1, <2>1, NextCall
    <2>3. \/ next' = next + 1 /\ at' = "tools" /\ err' = err /\ body' = [body EXCEPT ![next] = "committed"]
          \/ next' = next /\ at' = "endStep" /\ body' = body
        BY <1>5 DEF Exclusive, Commit, CommitFails, Goes, stepVars
    <2>4. CASE next' = next + 1 /\ at' = "tools" /\ err' = err /\ body' = [body EXCEPT ![next] = "committed"]
        <3>1. \A n \in Calls : Pool(n)'
            BY <1>1, <1>3, <2>1, <2>2, <2>4, PoolMoves
        <3>2. Changes(next, "committed")
            BY <2>1, <2>2, <2>4 DEF Changes
        <3> QED
            BY <1>1, <1>3, <2>1, <2>2, <2>4, <3>1, <3>2, PhaseKept DEF ToolPhase
    <2>5. CASE next' = next /\ at' = "endStep" /\ body' = body
        BY <1>1, <1>2, <2>5, PhaseKept
    <2> QED
        BY <2>3, <2>4, <2>5
<1>6. CASE Fill
    <2>1. at = "fill"
        BY <1>6 DEF Fill
    <2>2. \/ body' = body /\ next' = next /\ at' = "drain" /\ err' = "failed"
          \/ body' = body /\ next' = next /\ at' = "settle" /\ err' = err
          \/ next <= Len(calls) /\ next' = next + 1 /\ err' = err /\ at' = "filled" /\ \E s \in {"running", "denied"} : body' = [body EXCEPT ![next] = s]
        BY <1>6 DEF Fill, CanFill, Start, Goes, stepVars
    <2>3. CASE body' = body /\ next' = next /\ ((at' = "drain" /\ err' = "failed") \/ (at' = "settle" /\ err' = err))
        <3>1. \A n \in Calls : Pool(n)'
            BY <1>1, <1>3, <2>1, <2>3, PoolKept DEF toolVars
        <3> QED
            BY <1>1, <1>2, <1>3, <2>1, <2>3, <3>1, PhaseKept DEF ToolPhase
    <2>4. ASSUME next <= Len(calls), next' = next + 1, err' = err, at' = "filled", NEW s \in {"running", "denied"}, body' = [body EXCEPT ![next] = s]
          PROVE  CallTypes' /\ BodyInv'
        <3>1. next \in Calls /\ next + 1 \in 1 .. Len(calls) + 1
            BY <1>1, <2>4, NextCall
        <3>2. \A n \in Calls : Pool(n)'
            BY <1>1, <1>3, <2>1, <2>4, <3>1, PoolMoves
        <3>3. Changes(next, s)
            BY <2>4, <3>1 DEF Changes
        <3> QED
            BY <1>1, <1>3, <2>1, <2>4, <3>1, <3>2, <3>3, PhaseKept DEF ToolPhase
    <2> QED
        BY <2>2, <2>3, <2>4
<1>7. CASE Abort
    <2>1. at = "abort"
        BY <1>7 DEF Abort
    <2>2. \/ body' = body /\ next' = next /\ at' = "endStep"
          \/ next <= Len(calls) /\ next' = next /\ err' = err /\ at' = at /\ body' = [body EXCEPT ![next] = "aborted"]
          \/ next <= Len(calls) /\ body[next] = "aborted" /\ next' = next + 1 /\ err' = err /\ at' = at /\ body' = body
        BY <1>7 DEF Abort, Fails, Goes, stepVars
    <2>3. CASE body' = body /\ next' = next /\ at' = "endStep"
        BY <1>1, <1>2, <2>3, PhaseKept
    <2>4. CASE next <= Len(calls) /\ next' = next /\ err' = err /\ at' = at /\ body' = [body EXCEPT ![next] = "aborted"]
        <3>1. next \in Calls
            BY <1>1, <2>4, NextCall
        <3>2. \A n \in Calls : Pool(n)'
            BY <1>1, <1>3, <2>1, <2>4, <3>1, PoolMoves
        <3>3. Changes(next, "aborted")
            BY <2>4, <3>1 DEF Changes
        <3> QED
            BY <1>1, <1>2, <1>3, <2>1, <2>4, <3>1, <3>2, <3>3, PhaseKept DEF ToolPhase
    <2>5. CASE next <= Len(calls) /\ body[next] = "aborted" /\ next' = next + 1 /\ err' = err /\ at' = at /\ body' = body
        <3>1. next \in Calls /\ next + 1 \in 1 .. Len(calls) + 1
            BY <1>1, <2>5, NextCall
        <3>2. ASSUME NEW n \in Calls PROVE Pool(n)'
            <4>1. Pool(n) /\ n \in Nat /\ next \in Nat /\ Len(calls') = Len(calls)
                BY <1>1, <1>2, <1>3, <2>1 DEF Calls
            <4> QED
                BY <1>1, <1>2, <2>1, <2>5, <4>1 DEF Pool
        <3> QED
            BY <1>1, <1>3, <2>1, <2>5, <3>1, <3>2, PhaseKept DEF ToolPhase
    <2> QED
        BY <2>2, <2>3, <2>4, <2>5
<1> QED
    BY <1>4, <1>5, <1>6, <1>7

\* So do the calls of a parallel group.
LEMMA GroupBodies ==
    ASSUME TypeInvariant, CommitReady \/ Committed \/ Receive \/ Drained
    PROVE  CallTypes' /\ BodyInv'
<1>1. LoopTypeOK /\ CallTypes /\ BodyInv /\ asked' = asked /\ calls' = calls /\ next' = next
    BY TypesAre DEF TypeInvariant, CommitReady, Committed, Receive, Drained, boundVars, toolVars
<1>2. next \in 1 .. Len(calls) + 1 /\ Len(calls) \in Nat
    BY <1>1 DEF CallTypes
<1>3. at \in {"filled", "settle", "wait", "drain"}
    BY DEF CommitReady, Committed, Receive, Drained
<1>4. at \in ToolPhase /\ (\A n \in Calls : Pool(n)) /\ (at # "drain" => err = "none") /\ err \in {"none", "failed"}
    <2>1. at \in ToolPhase /\ (at = "drain" \/ at \in InStep \ {"drain", "endStep"})
        BY <1>3 DEF InStep, ToolPhase
    <2> QED
        BY <1>1, <2>1 DEF BodyInv
\* The head is committed.
<1>5. ASSUME HeadReady, at # "wait", at' = at, err' = err, body' = [body EXCEPT ![Min(InFlight)] = "committed"]
      PROVE  CallTypes' /\ BodyInv'
    <2> DEFINE h == Min(InFlight)
    <2>1. h \in InFlight /\ h \in 1 .. Len(calls) /\ h < next
        BY <1>1, <1>3, <1>5, HeadInFlight DEF HeadReady
    <2>2. body' = [body EXCEPT ![h] = "committed"]
        BY <1>5
    <2> HIDE DEF h
    <2>3. h \in Calls /\ h <= Len(calls)
        BY <1>1, <1>2, <2>1, BoundsAssumption DEF Calls, CallTypes
    <2>4. body[h] \notin {"none", "aborted"}
        BY <2>1 DEF InFlight
    <2>5. \A n \in Calls : Pool(n)'
        BY <1>1, <1>3, <1>4, <1>5, <2>2, <2>3, <2>4, PoolMoves
    <2>6. Changes(h, "committed")
        BY <2>2, <2>3 DEF Changes
    <2>7. at' \in ToolPhase /\ at' # "exclusive" /\ (at' # "drain" => err' = "none") /\ err' \in {"none", "failed"}
        BY <1>3, <1>4, <1>5
    <2>8. "committed" \in {"running", "settled", "ready", "denied", "committed", "aborted"} /\ h \in Calls
        BY <2>3
    <2> QED
        BY <1>1, <1>2, <2>5, <2>6, <2>7, <2>8, PhaseKept
<1>6. CASE CommitReady
    <2>1. at \in {"filled", "settle"} /\ HeadReady
        BY <1>6 DEF CommitReady
    <2>2. \/ at' = at /\ err' = err /\ body' = [body EXCEPT ![Min(InFlight)] = "committed"]
          \/ at' = "drain" /\ err' = "failed" /\ body' = body
        BY <1>6 DEF CommitReady, Commit, CommitFails, Goes, stepVars
    <2>3. CASE at' = at /\ err' = err /\ body' = [body EXCEPT ![Min(InFlight)] = "committed"]
        BY <1>5, <2>1, <2>3
    <2>4. CASE at' = "drain" /\ err' = "failed" /\ body' = body
        <3>1. \A n \in Calls : Pool(n)'
            BY <1>1, <1>4, <2>1, <2>4, PoolKept DEF toolVars
        <3> QED
            BY <1>1, <1>2, <2>4, <3>1, PhaseKept DEF ToolPhase
    <2> QED
        BY <2>2, <2>3, <2>4
<1>7. CASE Committed
    <2>1. at \in {"filled", "settle"} /\ ~HeadReady /\ body' = body /\ err' = err
        BY <1>7 DEF Committed, toolVars, stepVars
    <2>2. at' \in {"fill", "drain", "wait"} \/ (at = "settle" /\ at' = "tools" /\ Running = {})
        BY <1>7 DEF Committed, Goes
    <2>3. \A n \in Calls : Pool(n)'
        <3>1. CASE at' \in {"fill", "drain", "wait"}
            BY <1>1, <1>4, <2>1, <3>1, PoolKept DEF toolVars
        <3>2. CASE at = "settle" /\ at' = "tools" /\ Running = {}
            <4>1. \A n \in Calls : n < next => body[n] = "committed"
                BY <1>1, <2>1, <3>2, EmptyPool
            <4> QED
                BY <1>1, <1>4, <2>1, <3>2, <4>1, PoolKept DEF toolVars
        <3> QED
            BY <2>2, <3>1, <3>2
    <2>4. at' \in ToolPhase /\ at' # "exclusive" /\ err' = "none"
        BY <1>4, <2>1, <2>2 DEF ToolPhase
    <2> QED
        BY <1>1, <1>2, <2>1, <2>3, <2>4, PhaseKept
<1>8. CASE Receive
    <2>1. PICK n \in Calls : body[n] = "settled" /\ body' = [body EXCEPT ![n] = "ready"]
        BY <1>8 DEF Receive
    <2>2. at \in {"wait", "drain"} /\ (at' = at \/ (at = "wait" /\ at' = "fill")) /\ err' = err
          /\ (at = "wait" => at' = "fill")
        BY <1>8 DEF Receive, Goes, stepVars
    <2>3. n <= Len(calls)
        BY <1>1, <1>4, <2>1, Bodied
    <2>4. \A k \in Calls : Pool(k)'
        BY <1>1, <1>4, <2>1, <2>2, <2>3, PoolMoves
    <2>5. Changes(n, "ready")
        BY <2>1, <2>3 DEF Changes
    <2>6. at' \in ToolPhase /\ at' # "exclusive" /\ (at' # "drain" => err' = "none") /\ err' \in {"none", "failed"}
        BY <1>4, <2>2 DEF ToolPhase
    <2> QED
        BY <1>1, <1>2, <2>4, <2>5, <2>6, PhaseKept
<1>9. CASE Drained
    <2>1. at = "drain" /\ Running = {}
        BY <1>9 DEF Drained
    <2>2. \/ at' = "endStep" /\ body' = body
          \/ err = "none" /\ HeadReady /\ at' = at /\ err' = err /\ body' = [body EXCEPT ![Min(InFlight)] = "committed"]
          \/ err = "none" /\ ~HeadReady /\ at' = "abort" /\ err' = err /\ body' = body
        BY <1>9 DEF Drained, Commit, CommitFails, Goes, stepVars
    <2>3. CASE at' = "endStep" /\ body' = body
        BY <1>1, <1>2, <2>3, PhaseKept
    <2>4. CASE err = "none" /\ HeadReady /\ at' = at /\ err' = err /\ body' = [body EXCEPT ![Min(InFlight)] = "committed"]
        BY <1>5, <2>1, <2>4
    <2>5. CASE err = "none" /\ ~HeadReady /\ at' = "abort" /\ err' = err /\ body' = body
        <3>1. \A n \in Calls : n < next => body[n] = "committed"
            BY <1>1, <2>1, <2>5, EmptyPool
        <3>2. \A n \in Calls : Pool(n)'
            BY <1>1, <1>4, <2>1, <2>5, <3>1, PoolKept DEF toolVars
        <3> QED
            BY <1>1, <1>2, <2>5, <3>2, PhaseKept DEF ToolPhase
    <2> QED
        BY <2>2, <2>3, <2>4, <2>5
<1> QED
    BY <1>6, <1>7, <1>8, <1>9

\* A body returns; the environment touches neither calls nor bodies.
LEMMA WorldBodies ==
    ASSUME TypeInvariant, (\E n \in Calls : BodySettles(n)) \/ Cancel \/ Steer \/ SteerCancels \/ Load
    PROVE  CallTypes' /\ BodyInv'
<1>1. CallTypes /\ BodyInv /\ at \in LoopLabels
    BY TypesAre DEF TypeInvariant
<1>2. CASE Cancel \/ Steer \/ SteerCancels \/ Load
    <2>1. UNCHANGED <<at, calls, next, body, err, asked>>
        BY <1>2 DEF Cancel, Steer, SteerCancels, Load, toolVars, stepVars, boundVars
    <2>2. CallTypes'
        BY <1>1, <2>1 DEF CallTypes
    <2>3. (\A n \in Calls : Pool(n)) => \A n \in Calls : Pool(n)'
        BY <2>1 DEF Pool
    <2>4. Bare => Bare'
        BY <2>1 DEF Bare
    <2>5. BodyInv'
        BY <1>1, <2>1, <2>3, <2>4 DEF BodyInv
    <2> QED
        BY <2>2, <2>5
<1>3. ASSUME NEW n \in Calls, BodySettles(n) PROVE CallTypes' /\ BodyInv'
    <2>1. body[n] = "running" /\ at \notin Stopped /\ body' = [body EXCEPT ![n] = "settled"]
          /\ UNCHANGED <<at, calls, next, err, asked>>
        BY <1>3 DEF BodySettles, stepVars, boundVars
    <2>2. at \in ToolPhase \cup {"endStep"}
        <3>1. NoBodies[n] = "none"
            BY DEF NoBodies
        <3>2. ~(at \in Stopped \cup Between \cup Asking) /\ at # "answered"
            BY <1>1, <2>1, <3>1 DEF BodyInv, Bare
        <3> QED
            BY <1>1, <3>2 DEF LoopLabels
    <2>3. CallTypes'
        BY <1>1, <2>1 DEF CallTypes
    <2>4. CASE at = "endStep"
        <3>1. at' = "endStep" /\ at' \notin Stopped \cup Between \cup Asking /\ at' \notin ToolPhase
            BY <2>1, <2>4 DEF Stopped, Between, Entering, Asking, ToolPhase
        <3>2. BodyInv'
            BY <3>1, Zenon DEF BodyInv
        <3> QED
            BY <2>3, <3>2
    <2>5. CASE at \in ToolPhase
        <3>1. (\A k \in Calls : Pool(k)) /\ (at # "drain" => err = "none") /\ (at = "drain" => err \in {"none", "failed"})
              /\ (at = "exclusive" => next <= Len(calls))
            <4>1. at = "drain" \/ at \in InStep \ {"drain", "endStep"}
                BY <2>5 DEF InStep, ToolPhase
            <4> QED
                BY <1>1, <2>5, <4>1 DEF BodyInv
        <3>2. n <= Len(calls) /\ (n < next \/ (n = next /\ at \in {"exclusive", "abort"}))
            BY <1>1, <2>1, <3>1, Bodied
        <3>3. /\ n = next => at = "exclusive"
              /\ n < next => at \notin {"tools", "exclusive", "abort"}
            <4>1. Pool(n)
                BY <3>1
            <4> QED
                BY <2>1, <3>2, <4>1 DEF Pool
        <3>4. next' = next /\ calls' = calls /\ at' = at /\ err' = err
            BY <2>1
        <3>5. n \in Nat /\ next \in Nat
            BY <1>1 DEF Calls, CallTypes
        <3>6. (n = next /\ at = "exclusive") \/ (at \in {"filled", "settle", "drain", "wait", "fill"})
            BY <2>5, <3>2, <3>3, <3>5 DEF ToolPhase
        <3>7. \A k \in Calls : Pool(k)'
            BY <1>1, <2>1, <2>5, <3>1, <3>2, <3>4, <3>6, PoolMoves
        <3>8. Changes(n, "settled")
            BY <2>1, <3>2 DEF Changes
        <3>9. next' \in 1 .. Len(calls) + 1 /\ asked' = asked
            BY <1>1, <2>1 DEF CallTypes
        <3> QED
            BY <1>1, <2>5, <3>1, <3>4, <3>7, <3>8, <3>9, PhaseKept
    <2> QED
        BY <2>2, <2>4, <2>5
<1> QED
    BY <1>2, <1>3

-----------------------------------------------------------------------------
(* The loop's place in the log: how a step moves it.                       *)

\* The append of an end event may report an error, but the event is durable then.
EndsDurable == Faulty \cap {"turn/end", "step/end"} = {}

Still ==
    /\ stored' = stored /\ turn' = turn /\ calls' = calls
    /\ \/ at = "idle" /\ at' = "idle"
       \/ /\ at \in Between /\ at' \in Between /\ step' \in {step, step + 1}
          /\ at' \in Entering => step' = step + 1 \/ (at \in Entering /\ step' = step)
       \/ at \in InStep /\ at' \in InStep /\ step' = step /\ (at' \in Asking => at \in Asking)
Tells(e) ==
    /\ stored' = Append(stored, e) /\ turn' = turn /\ step' = step
    /\ at \in InStep /\ at' \in InStep \ Asking
    /\ e.type \in {"assistant", "call", "result"} /\ e.turn = turn /\ e.step = step
    /\ IF e.type = "assistant" THEN at \in Asking /\ e.n = Len(calls') ELSE calls' = calls
BeginsTurn(e) ==
    /\ stored' = Append(stored, e) /\ at' = "top" /\ turn' = TurnStarts(stored, Len(stored)) + 1 /\ step' = 1
    /\ e = Event("turn/start", turn', 0, 0, "")
EndsTurn(e) == stored' = Append(stored, e) /\ at' = "idle" /\ e.type = "turn/end"
BeginsStep(e) ==
    /\ stored' = Append(stored, e) /\ at = "openStep" /\ at' = "request" /\ turn' = turn /\ step' = step
    /\ e = Event("step/start", turn, step, 0, "")
EndsStep(e) ==
    /\ stored' = Append(stored, e) /\ at = "endStep" /\ at' = "stepped" /\ turn' = turn /\ step' = step
    /\ e.type = "step/end" /\ e.turn = turn /\ e.step = step
Moves == Still \/ \E e : Tells(e) \/ BeginsTurn(e) \/ EndsTurn(e) \/ BeginsStep(e) \/ EndsStep(e)

\* A live session's append either happens or leaves the log alone.
LEMMA LiveAppend ==
    ASSUME NEW e, Logs(e) \/ Refuses(e), ~diverged, ~diverged'
    PROVE  stored' = Append(stored, e) \/ (e.type \in Faulty /\ stored' = stored)
BY DEF Logs, Refuses

\* Each step of RunMessages moves the loop to where the log then is.
LEMMA TurnMoves ==
    ASSUME LoopInvariant, EndsDurable, ~diverged, ~diverged', StartTurn \/ Top \/ PreStep \/ Stepped \/ Stopping \/ EndTurn
    PROVE  Moves
<1>1. CASE StartTurn
    <2> DEFINE t == TurnStarts(stored, Len(stored)) + 1
               e == Event("turn/start", t, 0, 0, "")
    <2>1. at = "idle" /\ calls' = calls
          /\ \/ Logs(e) /\ at' = "top" /\ turn' = t /\ step' = 1
             \/ Refuses(e) /\ at' = at /\ turn' = turn
        BY <1>1 DEF StartTurn, Goes, toolVars
    <2>2. CASE Logs(e) /\ at' = "top" /\ turn' = t /\ step' = 1
        <3>1. stored' = Append(stored, e) /\ e = Event("turn/start", turn', 0, 0, "")
            BY <2>2 DEF Logs
        <3>2. BeginsTurn(e)
            BY <2>2, <3>1 DEF BeginsTurn
        <3> QED
            BY <3>2 DEF Moves
    <2>3. CASE Refuses(e) /\ at' = at /\ turn' = turn
        <3>1. stored' = stored
            BY <2>3 DEF Refuses, logVars
        <3> QED
            BY <2>1, <2>3, <3>1 DEF Moves, Still
    <2> QED
        BY <2>1, <2>2, <2>3
<1>2. ContinueOnCancel => Notes \/ NoteFails \/ UNCHANGED logVars
    BY DEF ContinueOnCancel, Resume
<1>3. ContinueOnCancel => turn' = turn /\ ((at' = "top" /\ step' = step + 1) \/ (at' = "endTurn" /\ step' = step))
    BY DEF ContinueOnCancel, Resume, Aborts, Goes
<1>4. CASE Top \/ PreStep \/ Stepped \/ Stopping
    <2>1. Notes \/ NoteFails \/ UNCHANGED logVars
        BY <1>2, <1>4 DEF Top, PreStep, Stepped, Stopping
    <2>2. stored' = stored
        BY <2>1, Unnoted DEF logVars
    <2>3. turn' = turn /\ calls' = calls
        BY <1>3, <1>4 DEF Top, PreStep, Stepped, Stopping, turnVars, toolVars
    <2>4. /\ at \in Between /\ at' \in Between /\ step' \in {step, step + 1}
          /\ at' \in Entering => step' = step + 1 \/ (at \in Entering /\ step' = step)
        <3>1. CASE Top
            BY <1>3, <3>1 DEF Top, Goes, Between, Entering, turnVars
        <3>2. CASE PreStep
            BY <3>2 DEF PreStep, Aborts, Goes, Between, Entering
        <3>3. CASE Stepped
            BY <1>3, <3>3 DEF Stepped, Goes, Between, Entering, turnVars
        <3>4. CASE Stopping
            BY <3>4 DEF Stopping, Aborts, Goes, Between, Entering
        <3> QED
            BY <1>4, <3>1, <3>2, <3>3, <3>4
    <2> QED
        BY <2>2, <2>3, <2>4 DEF Moves, Still
<1>5. CASE EndTurn
    <2> DEFINE e == Event("turn/end", turn, 0, 0, IF err # "none" THEN err ELSE IF blocked THEN "blocked" ELSE "completed")
    <2>1. (Logs(e) \/ Refuses(e)) /\ at' = "idle"
        BY <1>5 DEF EndTurn, Goes
    <2>2. e.type = "turn/end"
        BY DEF Event
    <2> HIDE DEF e
    <2>3. stored' = Append(stored, e)
        BY <2>1, <2>2, LiveAppend DEF EndsDurable
    <2>4. EndsTurn(e)
        BY <2>1, <2>2, <2>3 DEF EndsTurn
    <2> QED
        BY <2>4 DEF Moves
<1> QED
    BY <1>1, <1>4, <1>5

\* So does each step of a model request,
LEMMA RequestMoves ==
    ASSUME LoopInvariant, EndsDurable, ~diverged, ~diverged', OpenStep \/ Request \/ Respond \/ StreamBreaks \/ Answered \/ EndStep
    PROVE  Moves
<1>1. turn' = turn /\ step' = step
    BY DEF OpenStep, Request, Respond, StreamBreaks, Answered, EndStep, turnVars
<1>2. RequestFails => Notes /\ at' \in {"request", "endStep"}
    BY DEF RequestFails, Fails, Goes
<1>3. CASE OpenStep
    <2> DEFINE e == Event("step/start", turn, step, 0, "")
    <2>1. at = "openStep" /\ calls' = calls /\ ((Logs(e) /\ at' = "request") \/ (Refuses(e) /\ at' = "stepped"))
        BY <1>3 DEF OpenStep, Goes, toolVars
    <2>2. CASE stored' = Append(stored, e) /\ at' = "request"
        <3>1. BeginsStep(e)
            BY <1>1, <2>1, <2>2 DEF BeginsStep
        <3> QED
            BY <3>1 DEF Moves
    <2>3. CASE stored' = stored /\ at' = "stepped"
        BY <1>1, <2>1, <2>3 DEF Moves, Still, Between, Entering
    <2>4. (Logs(e) => stored' = Append(stored, e)) /\ (Refuses(e) => stored' = stored)
        BY DEF Logs, Refuses, logVars
    <2> QED
        BY <2>1, <2>2, <2>3, <2>4
<1>4. CASE Request \/ Answered
    <2>1. Notes \/ NoteFails
        BY <1>2, <1>4 DEF Request, Answered
    <2>2. stored' = stored
        BY <2>1, Unnoted
    <2>3. calls' = calls /\ at \in {"request", "answered"} /\ at' \in {"request", "stream", "endStep", "tools"}
          /\ (at' \in Asking => at = "request")
        BY <1>2, <1>4 DEF Request, Answered, Fails, Goes, toolVars, Asking
    <2> QED
        BY <1>1, <2>2, <2>3 DEF Moves, Still, InStep, Asking, ToolPhase
<1>5. ASSUME at = "stream", NEW k, NEW code, stored' = Append(stored, Event("assistant", turn, step, k, code)),
             k = Len(calls'), at' \in {"answered", "endStep"}
      PROVE  Moves
    <2> DEFINE e == Event("assistant", turn, step, k, code)
    <2>1. e.type = "assistant" /\ e.turn = turn /\ e.step = step /\ e.n = k /\ stored' = Append(stored, e)
        BY <1>5 DEF Event
    <2>2. at \in InStep /\ at \in Asking /\ at' \in InStep \ Asking
        BY <1>5 DEF InStep, Asking
    <2> HIDE DEF e
    <2>3. Tells(e)
        BY <1>1, <1>5, <2>1, <2>2 DEF Tells
    <2> QED
        BY <2>3 DEF Moves
<1>6. ASSUME at = "stream", stored' = stored, calls' = calls, at' \in {"endStep", "request"}
      PROVE  Moves
    BY <1>1, <1>6 DEF Moves, Still, InStep, Asking
<1>7. CASE Respond
    <2>1. PICK k \in 0 .. (IF StepStarts < MaxSteps THEN MaxCalls - asked ELSE 0) :
              \/ Logs(Event("assistant", turn, step, k, "")) /\ at' = "answered" /\ calls' \in [1 .. k -> Kinds]
              \/ Refuses(Event("assistant", turn, step, k, "")) /\ at' = "endStep" /\ calls' = calls
        BY <1>7 DEF Respond, Fails, Goes
    <2>2. at = "stream"
        BY <1>7 DEF Respond
    <2>3. CASE Logs(Event("assistant", turn, step, k, "")) /\ at' = "answered" /\ calls' \in [1 .. k -> Kinds]
        <3>1. k \in Nat
            OBVIOUS
        <3>2. \A f \in [1 .. k -> Kinds] : Len(f) = k
            BY <3>1
        <3>3. k = Len(calls')
            BY <2>3, <3>2
        <3> QED
            BY <1>5, <2>2, <2>3, <3>3 DEF Logs
    <2>4. CASE Refuses(Event("assistant", turn, step, k, "")) /\ at' = "endStep" /\ calls' = calls
        BY <1>6, <2>2, <2>4 DEF Refuses, logVars
    <2> QED
        BY <2>1, <2>3, <2>4
<1>8. CASE StreamBreaks
    <2> DEFINE e == Event("assistant", turn, step, 0, "interrupted")
    <2>1. at = "stream" /\ calls' = calls
        BY <1>8 DEF StreamBreaks, toolVars
    <2>2. \/ (Notes \/ NoteFails) /\ at' \in {"endStep", "request"}
          \/ Logs(e) /\ at' = "endStep"
          \/ Refuses(e) /\ at' = "endStep"
        BY <1>2, <1>8 DEF StreamBreaks, Fails, Goes
    <2>3. CASE (Notes \/ NoteFails) /\ at' \in {"endStep", "request"}
        <3>1. stored' = stored
            BY <2>3, Unnoted
        <3> QED
            BY <1>6, <2>1, <2>3, <3>1
    <2>4. CASE Logs(e) /\ at' = "endStep"
        <3>1. 0 = Len(calls')
            <4>1. at \in Asking
                BY <2>1 DEF Asking
            <4>2. calls' = <<>>
                BY <2>1, <4>1 DEF LoopInvariant, BodyInv, Bare
            <4> QED
                BY <4>2
        <3> QED
            BY <1>5, <2>1, <2>4, <3>1 DEF Logs
    <2>5. CASE Refuses(e) /\ at' = "endStep"
        BY <1>6, <2>1, <2>5 DEF Refuses, logVars
    <2> QED
        BY <2>2, <2>3, <2>4, <2>5
<1>9. CASE EndStep
    <2> DEFINE e == Event("step/end", turn, step, 0, IF err = "none" THEN "completed" ELSE err)
    <2>1. (Logs(e) \/ Refuses(e)) /\ at = "endStep" /\ at' = "stepped"
        BY <1>9 DEF EndStep, Goes
    <2>2. e.type = "step/end" /\ e.turn = turn /\ e.step = step
        BY DEF Event
    <2> HIDE DEF e
    <2>3. stored' = Append(stored, e)
        BY <2>1, <2>2, LiveAppend DEF EndsDurable
    <2>4. EndsStep(e)
        BY <1>1, <2>1, <2>2, <2>3 DEF EndsStep
    <2> QED
        BY <2>4 DEF Moves
<1> QED
    BY <1>3, <1>4, <1>7, <1>8, <1>9

\* each step of the tool phase,
LEMMA ToolMoves ==
    ASSUME LoopInvariant, ~diverged, ~diverged',
           Tools \/ Exclusive \/ Fill \/ CommitReady \/ Committed \/ Receive \/ Drained \/ Abort
    PROVE  Moves
<1>1. turn' = turn /\ step' = step /\ calls' = calls
    BY DEF Tools, Exclusive, Fill, CommitReady, Committed, Receive, Drained, Abort, turnVars, toolVars
<1>2. at \in ToolPhase /\ at' \in {at, "endStep"} \cup ToolPhase
    BY DEF Tools, Exclusive, Fill, CommitReady, Committed, Receive, Drained, Abort, Fails, Goes, Start, CommitFails, ToolPhase
<1>3. at \in InStep /\ at' \in InStep \ Asking
    BY <1>2 DEF InStep, Asking, ToolPhase
<1>4. CASE stored' = stored
    BY <1>1, <1>3, <1>4 DEF Moves, Still
<1>5. ASSUME NEW e, stored' = Append(stored, e), NEW n, NEW code, e = CallEvent(n) \/ e = ResultEvent(n, code)
      PROVE  Moves
    <2>1. e.type \in {"call", "result"} /\ e.turn = turn /\ e.step = step
        <3>1. CASE e = CallEvent(n)
            BY <3>1 DEF CallEvent, Event
        <3>2. CASE e = ResultEvent(n, code)
            BY <3>2 DEF ResultEvent, Event
        <3> QED
            BY <1>5, <3>1, <3>2
    <2>2. Tells(e)
        BY <1>1, <1>3, <1>5, <2>1 DEF Tells
    <2> QED
        BY <2>2 DEF Moves
<1>6. ASSUME NEW e, Logs(e) \/ Refuses(e) PROVE stored' = stored \/ stored' = Append(stored, e)
    BY <1>6, Appends
<1>7. ASSUME NEW n, NEW label, Commit(n) \/ CommitFails(n, label) \/ Start(n, label) PROVE Moves
    <2> DEFINE code == IF body[n] = "denied" THEN "denied" ELSE "ok"
               r == ResultEvent(n, code)
               c == CallEvent(n)
    <2>1. Logs(r) \/ Refuses(r) \/ Logs(c) \/ stored' = Append(stored, r)
        BY <1>7 DEF Commit, CommitFails, Start
    <2> HIDE DEF r, c
    <2>2. stored' = stored \/ stored' = Append(stored, r) \/ stored' = Append(stored, c)
        BY <1>6, <2>1
    <2>3. r = ResultEvent(n, code) /\ c = CallEvent(n)
        BY DEF r, c
    <2> HIDE DEF code
    <2> QED
        BY <1>4, <1>5, <2>2, <2>3
<1>8. ASSUME NEW n, Logs(CallEvent(n)) \/ Refuses(CallEvent(n)) PROVE Moves
    BY <1>4, <1>5, <1>6, <1>8
<1>9. ASSUME NEW n, NEW code, Logs(ResultEvent(n, code)) \/ Refuses(ResultEvent(n, code)) PROVE Moves
    BY <1>4, <1>5, <1>6, <1>9
<1>10. UNCHANGED logVars => stored' = stored
    BY DEF logVars
<1>11. CASE Tools
    BY <1>4, <1>7, <1>8, <1>10, <1>11 DEF Tools
<1>12. CASE Exclusive
    BY <1>7, <1>12 DEF Exclusive
<1>13. CASE Fill
    BY <1>4, <1>7, <1>8, <1>10, <1>13 DEF Fill
<1>14. CASE CommitReady
    BY <1>7, <1>14 DEF CommitReady
<1>15. CASE Committed \/ Receive
    BY <1>4, <1>10, <1>15 DEF Committed, Receive
<1>16. CASE Drained
    BY <1>4, <1>7, <1>10, <1>16 DEF Drained
<1>17. CASE Abort
    BY <1>4, <1>8, <1>9, <1>10, <1>17 DEF Abort
<1> QED
    BY <1>11, <1>12, <1>13, <1>14, <1>15, <1>16, <1>17

\* and with them every step of a session that can still append.
LEMMA LoopMoves ==
    ASSUME LoopInvariant, EndsDurable, Live, ~diverged',
           StartTurn \/ LoopStep \/ (\E n \in Calls : BodySettles(n)) \/ Cancel \/ Steer \/ SteerCancels
    PROVE  Moves
<1>1. ~diverged
    BY DEF Live
<1>2. CASE StartTurn \/ LoopStep
    BY <1>1, <1>2, TurnMoves, RequestMoves, ToolMoves DEF LoopStep
<1>3. CASE (\E n \in Calls : BodySettles(n)) \/ Cancel \/ Steer \/ SteerCancels
    <2>1. UNCHANGED <<stored, turn, step, calls, at>>
        BY <1>3 DEF BodySettles, Cancel, Steer, SteerCancels, logVars, turnVars, toolVars
    <2>2. at = "idle" \/ at \in Between \/ at \in InStep
        <3>1. at \in LoopLabels
            BY TypesAre DEF LoopInvariant
        <3> QED
            BY <3>1 DEF LoopLabels, Live, Alive, Stopped, InStep
    <2> QED
        BY <2>1, <2>2 DEF Moves, Still
<1> QED
    BY <1>2, <1>3

\* Every move keeps the loop in its place.
LEMMA PlaceKept ==
    ASSUME LoopInvariant, Live, Moves, stored' \in Seq(Events)
    PROVE  PlaceInv'
<1>1. /\ stored \in Seq(Events) /\ LogInv(stored, ran) /\ PlaceInv /\ step \in Nat /\ turn \in Nat
    BY LiveLog, BoundsAssumption DEF Live, LoopInvariant, LoopTypeOK
<1>2. \A e : stored' = Append(stored, e) => e \in Events
    <2>1. \A e : Append(stored, e)[Len(stored) + 1] = e /\ Len(Append(stored, e)) = Len(stored) + 1 /\ Len(stored) \in Nat
        BY <1>1
    <2>2. \A i \in 1 .. Len(stored') : stored'[i] \in Events
        OBVIOUS
    <2> QED
        BY <2>1, <2>2
<1>3. CASE Still
    <2>1. stored' = stored /\ turn' = turn /\ calls' = calls
        BY <1>3 DEF Still
    <2>2. CASE at = "idle" /\ at' = "idle"
        BY <1>1, <2>1, <2>2 DEF PlaceInv, Live, Between, Entering, InStep, Asking, ToolPhase
    <2>3. CASE /\ at \in Between /\ at' \in Between /\ step' \in {step, step + 1}
               /\ at' \in Entering => step' = step + 1 \/ (at \in Entering /\ step' = step)
        <3>1. Open(stored) = "turn" /\ OfTurn(stored, turn, step) /\ (at \in Entering => Unused(stored, turn, step))
            BY <1>1, <2>3 DEF PlaceInv
        <3>2. OfTurn(stored, turn, step + 1) /\ Unused(stored, turn, step + 1)
            BY <1>1, <3>1, NextUnused
        <3>3. OfTurn(stored, turn, step') /\ (at' \in Entering => Unused(stored, turn, step'))
            BY <2>3, <3>1, <3>2
        <3>4. at' # "idle" /\ at' \notin InStep /\ at' \notin Asking
            BY <2>3 DEF Between, Entering, InStep, Asking, ToolPhase
        <3> QED
            BY <2>1, <3>1, <3>3, <3>4 DEF PlaceInv
    <2>4. CASE at \in InStep /\ at' \in InStep /\ step' = step /\ (at' \in Asking => at \in Asking)
        <3>1. at' # "idle" /\ at' \notin Between /\ at' \notin Entering
            BY <2>4 DEF Between, Entering, InStep, Asking, ToolPhase
        <3> QED
            BY <1>1, <2>1, <2>4, <3>1 DEF PlaceInv
    <2> QED
        BY <1>3, <2>2, <2>3, <2>4 DEF Still
<1>4. ASSUME NEW e, Tells(e) PROVE PlaceInv'
    <2>1. /\ stored' = Append(stored, e) /\ turn' = turn /\ step' = step /\ at \in InStep /\ at' \in InStep \ Asking
          /\ e.type \in {"assistant", "call", "result"} /\ e.turn = turn /\ e.step = step
          /\ IF e.type = "assistant" THEN at \in Asking /\ e.n = Len(calls') ELSE calls' = calls
        BY <1>4 DEF Tells
    <2>2. Open(stored) = "step" /\ OfTurn(stored, turn, step) /\ OfStep(stored, turn, step, Len(calls))
          /\ (at \in Asking => Silent(stored))
        BY <1>1, <2>1 DEF PlaceInv
    <2>3. Open(stored') = "step"
        BY <1>1, <1>2, <2>1, <2>2, AppendOpens DEF Anchors
    <2>4. OfTurn(stored', turn, step)
        <3>1. e.type # "turn/start" /\ (e.turn = turn => e.step <= step)
            BY <1>1, <2>1
        <3> QED
            BY <1>1, <1>2, <2>1, <2>2, <3>1, TurnKept
    <2>5. OfStep(stored', turn, step, Len(calls'))
        <3> DEFINE N == Len(calls)
                   M == Len(calls')
        <3>1. e.type # "step/start" /\ (N = M \/ Silent(stored)) /\ (e.type = "assistant" => e.n = M)
            BY <2>1, <2>2
        <3>2. OfStep(stored, turn, step, N)
            BY <2>2
        <3> HIDE DEF N, M
        <3>3. OfStep(Append(stored, e), turn, step, M)
            BY <1>1, <1>2, <2>1, <3>1, <3>2, StepKept
        <3> QED
            BY <2>1, <3>3 DEF M
    <2>6. at' # "idle" /\ at' \notin Between /\ at' \notin Entering
        BY <2>1 DEF Between, Entering, InStep, Asking, ToolPhase
    <2> QED
        BY <2>1, <2>3, <2>4, <2>5, <2>6 DEF PlaceInv
<1>5. ASSUME NEW e, BeginsTurn(e) PROVE PlaceInv'
    <2>1. stored' = Append(stored, e) /\ at' = "top" /\ step' = 1 /\ turn' = e.turn
          /\ e.type = "turn/start" /\ e.turn = TurnStarts(stored, Len(stored)) + 1 /\ e.step = 0
        BY <1>5 DEF BeginsTurn, Event
    <2>2. OfTurn(stored', turn', step') /\ Unused(stored', turn', step')
        BY <1>1, <1>2, <2>1, TurnBegun DEF LogInv
    <2>3. Open(stored') = "turn"
        BY <1>1, <1>2, <2>1, AppendOpens
    <2> QED
        BY <2>1, <2>2, <2>3 DEF PlaceInv, Between, Entering, InStep, Asking, ToolPhase
<1>6. ASSUME NEW e, EndsTurn(e) PROVE PlaceInv'
    <2>1. stored' = Append(stored, e) /\ at' = "idle" /\ e.type = "turn/end"
        BY <1>6 DEF EndsTurn
    <2>2. Open(stored') = "none"
        BY <1>1, <1>2, <2>1, AppendOpens
    <2> QED
        BY <2>1, <2>2 DEF PlaceInv, Between, Entering, InStep, Asking, ToolPhase
<1>7. ASSUME NEW e, BeginsStep(e) PROVE PlaceInv'
    <2>1. stored' = Append(stored, e) /\ at = "openStep" /\ at' = "request" /\ turn' = turn /\ step' = step
          /\ e.type = "step/start" /\ e.turn = turn /\ e.step = step
        BY <1>7 DEF BeginsStep, Event
    <2>2. OfTurn(stored, turn, step)
        BY <1>1, <2>1 DEF PlaceInv, Between, Entering
    <2>3. OfTurn(stored', turn, step)
        BY <1>1, <1>2, <2>1, <2>2, TurnKept
    <2>4. OfStep(stored', turn, step, Len(calls')) /\ Silent(stored')
        BY <1>1, <1>2, <2>1, StepBegun
    <2>5. Open(stored') = "step"
        BY <1>1, <1>2, <2>1, AppendOpens
    <2> QED
        BY <2>1, <2>3, <2>4, <2>5 DEF PlaceInv, Between, Entering, InStep, Asking, ToolPhase
<1>8. ASSUME NEW e, EndsStep(e) PROVE PlaceInv'
    <2>1. stored' = Append(stored, e) /\ at = "endStep" /\ at' = "stepped" /\ turn' = turn /\ step' = step
          /\ e.type = "step/end" /\ e.turn = turn /\ e.step = step
        BY <1>8 DEF EndsStep
    <2>2. OfTurn(stored, turn, step)
        BY <1>1, <2>1 DEF PlaceInv, InStep
    <2>3. OfTurn(stored', turn, step)
        BY <1>1, <1>2, <2>1, <2>2, TurnKept
    <2>4. Open(stored') = "turn"
        BY <1>1, <1>2, <2>1, AppendOpens
    <2> QED
        BY <2>1, <2>3, <2>4 DEF PlaceInv, Between, Entering, InStep, Asking, ToolPhase
<1> QED
    BY <1>3, <1>4, <1>5, <1>6, <1>7, <1>8 DEF Moves

-----------------------------------------------------------------------------
(* The replies that the log has, against the pool.                         *)

InOrderNow(m) == InOrder(stored, OpenerOf(stored, Len(stored)), Len(stored), m)
Started == {"running", "settled", "ready", "committed"}

\* In a step, an event that is no result keeps the results.
LEMMA RepliesSkip ==
    ASSUME StoredInv, Live, Open(stored) = "step", NEW m \in Nat, InOrderNow(m),
           NEW e \in Events, stored' = Append(stored, e), e.type \notin {"result", "step/start"}
    PROVE  InOrderNow(m)'
<1> DEFINE L == Append(stored, e)
           n == Len(stored)
           f == OpenerOf(stored, n)
<1>1. stored \in Seq(Events)
    BY LiveLog DEF Live
<1>2. Extends(L, stored) /\ Len(L) = n + 1 /\ L[n + 1] = e /\ n \in Nat
    BY <1>1, AppendIs
<1>3. OpenerOf(L, n + 1) = f
    BY <1>1, AppendOpener
<1>4. f \in 1 .. n
    BY <1>1, <1>2, OpenStepIs DEF Open
<1>5. \A k \in f .. n : L[k] = stored[k]
    BY <1>2, <1>4 DEF Extends
<1>6. InOrder(stored, f, n, m)
    BY DEF InOrderNow
<1> HIDE DEF L, f, n
<1>7. f \in Nat
    BY <1>2, <1>4
<1>8. InOrder(L, f, n + 1, m)
    BY <1>2, <1>5, <1>6, <1>7, InOrderSkip
<1> QED
    BY <1>2, <1>3, <1>8 DEF InOrderNow, L

\* The pool's answered calls are the log's, and a step ends without failing only when
\* all of them are.
LEMMA RepliesKept ==
    ASSUME LoopInvariant, Live, at \in InStep, err # "failed", calls' = calls,
           stored' = stored \/ \E e \in Events : stored' = Append(stored, e) /\ e.type \notin {"result", "step/start"},
           at' = "endStep" => at = "endStep" \/ \A n \in 1 .. Len(calls) : Done(n),
           at' # "endStep" => at # "endStep" /\ \A n \in 1 .. Len(calls) : Done(n)' <=> Done(n)
    PROVE  ReplyInv'
<1>1. StoredInv /\ Len(calls) \in Nat /\ Len(calls') = Len(calls) /\ Open(stored) = "step"
    BY DEF LoopInvariant, LoopTypeOK, PlaceInv
<1>2. PICK m \in 0 .. Len(calls) :
            /\ InOrderNow(m)
            /\ at = "endStep" => m = Len(calls)
            /\ at # "endStep" => \A n \in 1 .. Len(calls) : n <= m <=> Done(n)
    BY DEF LoopInvariant, ReplyInv, InOrderNow
<1>3. InOrderNow(m)'
    <2>1. m \in Nat
        BY <1>1
    <2>2. CASE stored' = stored
        BY <1>2, <2>2 DEF InOrderNow
    <2> QED
        BY <1>1, <1>2, <2>1, <2>2, RepliesSkip
<1>4. at' = "endStep" => m = Len(calls)
    <2>1. CASE \A n \in 1 .. Len(calls) : Done(n)
        BY <1>1, <1>2, <2>1
    <2> QED
        BY <1>2, <2>1
<1>5. at' # "endStep" => \A n \in 1 .. Len(calls) : n <= m <=> Done(n)'
    BY <1>2
<1> QED
    BY <1>1, <1>3, <1>4, <1>5 DEF ReplyInv, InOrderNow

\* The head's result makes it one of them.
LEMMA ReplyNext ==
    ASSUME LoopInvariant, Live, at \in ToolPhase, err # "failed", NEW h, IsNext(h), NEW code \in Codes, NEW e,
           e = ResultEvent(h, code), stored' = Append(stored, e), calls' = calls, at' # "endStep",
           \A n \in 1 .. Len(calls) : Done(n)' <=> Done(n) \/ n = h
    PROVE  ReplyInv'
<1>1. /\ h \in Nat /\ h - 1 \in Nat /\ h - 1 < Len(calls) /\ Answers(stored, h - 1, Len(calls))
      /\ \A k \in 1 .. Len(calls) : k <= h - 1 <=> Done(k)
    BY HeadIs
<1>2. Len(calls) \in Nat /\ Len(calls') = Len(calls) /\ stored \in Seq(Events) /\ turn \in Nat /\ step \in Nat
    BY LiveLog, BoundsAssumption DEF LoopInvariant, LoopTypeOK, Live
<1>3. Open(stored) = "step"
    BY DEF LoopInvariant, PlaceInv, InStep
<1>4. e \in Events /\ e.type = "result" /\ e.n = h
    BY <1>1, <1>2 DEF ResultEvent, Event, Events
<1>5. Answers(stored', (h - 1) + 1, Len(calls))
    <2>1. e.n = (h - 1) + 1
        BY <1>1, <1>4
    <2> QED
        BY <1>1, <1>2, <1>3, <1>4, <2>1, AnswersNext
<1>6. Answers(stored', h, Len(calls)) /\ h \in 0 .. Len(calls)
    <2>1. (h - 1) + 1 = h
        BY <1>1
    <2> QED
        BY <1>1, <1>2, <1>5, <2>1
<1>7. \A n \in 1 .. Len(calls) : n <= h <=> Done(n)'
    <2>1. ASSUME NEW n \in 1 .. Len(calls) PROVE n <= h <=> Done(n)'
        <3>1. (n <= h - 1 <=> Done(n)) /\ (Done(n)' <=> Done(n) \/ n = h)
            BY <1>1, <2>1
        <3> QED
            BY <1>1, <1>2, <3>1
    <2> QED
        BY <2>1
<1> QED
    BY <1>2, <1>6, <1>7 DEF ReplyInv, Answers

\* A body that was started stays so.
LEMMA RanKept ==
    ASSUME LoopInvariant, Live, at \in InStep \ {"endStep"}, turn' = turn, step' = step, ran' = ran,
           Len(calls) <= Len(calls'), calls' \in Seq(Kinds),
           \A n \in 1 .. Len(calls) : body[n] \in Started => body'[n] \in Started
    PROVE  RanInv'
<1>1. \A n \in Nat : <<turn, step, n>> \in ran => n \in 1 .. Len(calls) /\ body[n] \in Started
    BY DEF LoopInvariant, RanInv, Started
<1>2. Len(calls) \in Nat /\ Len(calls') \in Nat
    BY DEF LoopInvariant, LoopTypeOK
<1>3. \A n \in Nat : <<turn', step', n>> \in ran' => n \in 1 .. Len(calls') /\ body'[n] \in Started
    BY <1>1, <1>2
<1> QED
    BY <1>3 DEF RanInv, Started

\* A step that is not open, or that failed, owes nothing.
LEMMA NoReplies ==
    /\ at' \notin InStep \/ err' = "failed" => ReplyInv'
    /\ at' \notin InStep \ {"endStep"} => RanInv'
BY DEF ReplyInv, RanInv

\* A step is opened: nothing is answered, and nothing of it has run.
LEMMA OpenReplies ==
    ASSUME LoopInvariant, Live, ~diverged', OpenStep
    PROVE  ReplyInv' /\ RanInv'
<1> DEFINE e == Event("step/start", turn, step, 0, "")
           L == Append(stored, e)
           n == Len(stored)
<1>1. at = "openStep" /\ turn' = turn /\ step' = step /\ calls' = calls /\ body' = body /\ next' = next /\ ran' = ran
    BY DEF OpenStep, turnVars, toolVars, boundVars
<1>2. (at' = "request" /\ stored' = L) \/ at' = "stepped"
    BY DEF OpenStep, Goes, Logs
<1>3. CASE at' = "stepped"
    <2>1. at' \notin InStep
        BY <1>3 DEF InStep, Asking, ToolPhase
    <2> QED
        BY <2>1, NoReplies
<1>4. CASE at' = "request" /\ stored' = L
    <2>1. calls = <<>> /\ body = NoBodies
        <3>1. at \in Between
            BY <1>1 DEF Between, Entering
        <3> QED
            BY <3>1 DEF LoopInvariant, BodyInv, Bare
    <2>2. stored \in Seq(Events) /\ LogInv(stored, ran) /\ turn \in Nat /\ step \in Nat
        BY LiveLog, BoundsAssumption DEF LoopInvariant, LoopTypeOK, Live
    <2>3. e \in Events /\ e.type = "step/start"
        BY <2>2 DEF Event, Events, Anchors, Codes, TurnStatuses
    <2> HIDE DEF e
    <2>4. Len(L) = n + 1 /\ L[n + 1] = e /\ n \in Nat /\ OpenerOf(L, n + 1) = n + 1
        BY <2>2, <2>3, AppendIs, AppendOpener
    <2> HIDE DEF L, n
    <2>5. InOrder(L, n + 1, n + 1, 0)
        <3>1. \A k \in n + 1 .. n + 1 : L[k].type # "result"
            BY <2>3, <2>4
        <3> QED
            BY <3>1 DEF InOrder
    <2>6. Len(calls') = 0 /\ 0 \in 0 .. Len(calls')
        BY <1>1, <2>1
    <2>7. InOrderNow(0)'
        BY <1>4, <2>4, <2>5 DEF InOrderNow
    <2>8. ReplyInv'
        BY <1>4, <2>6, <2>7 DEF ReplyInv, InOrderNow
    <2>9. \A x : <<turn, step, x>> \notin ran
        <3>1. \A i \in DOMAIN stored : stored[i].turn = turn => stored[i].step < step
            BY <1>1 DEF LoopInvariant, PlaceInv, Unused, Entering
        <3>2. SUFFICES ASSUME NEW x, <<turn, step, x>> \in ran PROVE FALSE
            OBVIOUS
        <3>3. \A r \in ran : \E j \in DOMAIN stored : stored[j] = Event("call", r[1], r[2], r[3], "")
            BY <2>2 DEF LogInv, Truthful
        <3>4. PICK j \in DOMAIN stored : stored[j] = Event("call", turn, step, x, "")
            BY <3>2, <3>3
        <3>5. Event("call", turn, step, x, "").turn = turn /\ Event("call", turn, step, x, "").step = step
            BY DEF Event
        <3>6. stored[j].turn = turn /\ stored[j].step = step
            BY <3>4, <3>5
        <3> QED
            BY <2>2, <3>1, <3>6
    <2>10. RanInv'
        BY <1>1, <2>9 DEF RanInv
    <2> QED
        BY <2>8, <2>10
<1> QED
    BY <1>2, <1>3, <1>4

\* Before its tools run, a step answers nothing.
LEMMA RequestReplies ==
    ASSUME LoopInvariant, Live, ~diverged', Request \/ Respond \/ StreamBreaks \/ Answered \/ EndStep
    PROVE  ReplyInv' /\ RanInv'
<1>1. /\ stored \in Seq(Events) /\ turn \in Nat /\ step \in Nat /\ LoopTypeOK /\ StoredInv /\ ~diverged
      /\ Len(calls) \in Nat
    BY LiveLog, BoundsAssumption DEF LoopInvariant, LoopTypeOK, Live
<1>2. CASE EndStep
    <2>1. at' \notin InStep
        BY <1>2 DEF EndStep, Goes, InStep, Asking, ToolPhase
    <2> QED
        BY <2>1, NoReplies
<1> DEFINE Says(k, code) == Event("assistant", turn, step, k, code)
<1>3. \A k \in Nat, code \in Codes : Says(k, code) \in Events /\ Says(k, code).type = "assistant"
    BY <1>1 DEF Event, Events
<1>4. \A k : at \in Asking \cup {"answered"} => /\ at \in InStep \ {"endStep"} /\ err = "none" /\ next = 1 /\ body = NoBodies
                                                /\ (at \in Asking => calls = <<>>)
    BY DEF LoopInvariant, BodyInv, Bare, InStep, Asking
<1>5. ASSUME at \in Asking \cup {"answered"}, turn' = turn, step' = step, ran' = ran, body' = body, next' = next, calls' = calls,
             stored' = stored \/ \E code \in Codes : stored' = Append(stored, Says(0, code)),
             at' = "endStep" /\ err' # "failed" => calls = <<>>
      PROVE  ReplyInv' /\ RanInv'
    <2>1. at \in InStep \ {"endStep"} /\ err = "none"
        BY <1>4, <1>5
    <2>2. RanInv'
        <3>1. calls' \in Seq(Kinds) /\ Len(calls) <= Len(calls')
            BY <1>1, <1>5 DEF LoopTypeOK
        <3> QED
            BY <1>5, <2>1, <3>1, RanKept
    <2>3. CASE err' = "failed"
        BY <2>2, <2>3, NoReplies
    <2>4. CASE err' # "failed"
        <3>1. at' = "endStep" => \A n \in 1 .. Len(calls) : Done(n)
            BY <1>5, <2>4
        <3>2. \A n \in 1 .. Len(calls) : Done(n)' <=> Done(n)
            BY <1>5 DEF Done
        <3>3. stored' = stored \/ \E e \in Events : stored' = Append(stored, e) /\ e.type \notin {"result", "step/start"}
            <4>1. 0 \in Nat
                OBVIOUS
            <4> HIDE DEF Says
            <4>2. ASSUME NEW code \in Codes, stored' = Append(stored, Says(0, code))
                  PROVE  \E e \in Events : stored' = Append(stored, e) /\ e.type \notin {"result", "step/start"}
                BY <1>3, <4>1, <4>2
            <4> QED
                BY <1>5, <4>2
        <3>4. ReplyInv'
            BY <1>5, <2>1, <3>1, <3>2, <3>3, RepliesKept
        <3> QED
            BY <2>2, <3>4
    <2> QED
        BY <2>3, <2>4
<1>6. RequestFails => UNCHANGED logVars /\ ((at' = "request" /\ err' = err) \/ at' = "endStep")
    BY DEF RequestFails, Notes, Fails, Goes, stepVars
<1>7. CASE Request
    <2>1. /\ at = "request" /\ turn' = turn /\ step' = step /\ ran' = ran /\ calls' = calls /\ body' = body /\ next' = next
          /\ stored' = stored
        BY <1>7, <1>6, Unnoted DEF Request, turnVars, toolVars, boundVars, logVars
    <2>2. at \in Asking
        BY <2>1 DEF Asking
    <2> QED
        BY <1>4, <1>5, <2>1, <2>2
<1>8. CASE StreamBreaks
    <2>1. /\ at = "stream" /\ turn' = turn /\ step' = step /\ ran' = ran /\ calls' = calls /\ body' = body /\ next' = next
        BY <1>8 DEF StreamBreaks, turnVars, toolVars, boundVars
    <2>2. stored' = stored \/ stored' = Append(stored, Says(0, "interrupted"))
        BY <1>6, <1>8, Appends DEF StreamBreaks, logVars
    <2>3. at \in Asking /\ "interrupted" \in Codes
        BY <2>1 DEF Asking, Codes, TurnStatuses
    <2> QED
        BY <1>4, <1>5, <2>1, <2>2, <2>3
<1>9. CASE Answered
    <2>1. /\ at = "answered" /\ turn' = turn /\ step' = step /\ ran' = ran /\ calls' = calls /\ body' = body /\ next' = next
          /\ stored' = stored
        BY <1>9, Unnoted DEF Answered, turnVars, toolVars, boundVars
    <2>2. at' = "endStep" /\ err' # "failed" => calls = <<>>
        BY <1>9 DEF Answered, Fails, Goes
    <2> QED
        BY <1>5, <2>1, <2>2
<1>10. CASE Respond
    <2>1. at = "stream" /\ turn' = turn /\ step' = step /\ ran' = ran /\ body' = body /\ next' = next
        BY <1>10 DEF Respond, turnVars
    <2>2. at \in Asking /\ at \in InStep \ {"endStep"} /\ err = "none" /\ body = NoBodies /\ calls = <<>>
        BY <1>4, <2>1 DEF Asking
    <2>3. PICK k \in 0 .. (IF StepStarts < MaxSteps THEN MaxCalls - asked ELSE 0) : \E kinds \in [1 .. k -> Kinds] :
              \/ /\ Logs(Says(k, "")) /\ Goes("answered") /\ calls' = kinds /\ asked' = asked + k
                 /\ UNCHANGED stepVars
              \/ Refuses(Says(k, "")) /\ Fails("failed") /\ UNCHANGED <<calls, asked>>
        BY <1>10 DEF Respond
    <2>4. k \in Nat /\ k <= MaxCalls /\ MaxCalls \in Nat
        <3> DEFINE top == IF StepStarts < MaxSteps THEN MaxCalls - asked ELSE 0
        <3>1. asked \in Nat /\ asked <= MaxCalls /\ MaxCalls \in Nat
            BY <1>1, BoundsAssumption DEF LoopTypeOK
        <3>2. top \in {MaxCalls - asked, 0}
            OBVIOUS
        <3>3. k \in 0 .. top
            BY <2>3
        <3> HIDE DEF top
        <3> QED
            BY <3>1, <3>2, <3>3
    <2>5. CASE Refuses(Says(k, "")) /\ Fails("failed") /\ UNCHANGED <<calls, asked>>
        <3>1. err' = "failed" /\ at' = "endStep"
            BY <2>5 DEF Fails, Goes
        <3> QED
            BY <3>1, NoReplies
    <2>6. ASSUME NEW kinds \in [1 .. k -> Kinds], Logs(Says(k, "")), Goes("answered"), calls' = kinds
          PROVE  ReplyInv' /\ RanInv'
        <3>1. stored' = Append(stored, Says(k, "")) /\ at' = "answered"
            BY <2>6 DEF Logs, Goes
        <3>2. Says(k, "") \in Events /\ Says(k, "").type = "assistant"
            BY <1>3, <2>4 DEF Codes, TurnStatuses
        <3>3. kinds \in Seq(Kinds) /\ Len(kinds) = k
            <4>1. \A j \in Nat : \A g \in [1 .. j -> Kinds] : g \in Seq(Kinds) /\ Len(g) = j
                OBVIOUS
            <4> QED
                BY <2>4, <2>6, <4>1
        <3>11. Len(calls') = k
            BY <2>6, <3>3
        <3>4. RanInv'
            <4>1. calls' \in Seq(Kinds) /\ Len(calls') = k
                BY <2>6, <3>3
            <4>2. Len(calls) = 0
                BY <2>2
            <4>3. Len(calls) <= Len(calls')
                BY <2>4, <4>1, <4>2
            <4> QED
                BY <2>1, <2>2, <4>1, <4>2, <4>3, RanKept
        <3>5. PICK m \in 0 .. Len(calls) : InOrderNow(m)
            BY <2>2 DEF LoopInvariant, ReplyInv, InOrderNow
        <3>6. m = 0
            BY <2>2, <3>5
        <3>7. Open(stored) = "step"
            BY <2>2 DEF LoopInvariant, PlaceInv
        <3> HIDE DEF Says
        <3>8. InOrderNow(0)'
            BY <1>1, <3>1, <3>2, <3>5, <3>6, <3>7, RepliesSkip
        <3>9. \A n \in 1 .. Len(calls') : ~Done(n)'
            <4>1. ASSUME NEW n \in 1 .. Len(calls') PROVE body'[n] = "none"
                <5>1. n \in Calls
                    BY <2>4, <3>11 DEF Calls
                <5> QED
                    BY <2>1, <2>2, <5>1 DEF NoBodies
            <4> QED
                BY <4>1 DEF Done
        <3>10. ReplyInv'
            <4>1. 0 \in 0 .. Len(calls') /\ at' # "endStep"
                <5>1. 0 \in 0 .. Len(calls')
                    BY <2>4, <3>11
                <5>2. at' = "answered"
                    BY <3>1
                <5> QED
                    BY <5>1, <5>2
            <4>2. \A n \in 1 .. Len(calls') : n <= 0 <=> Done(n)'
                BY <3>9
            <4> QED
                BY <3>8, <4>1, <4>2 DEF ReplyInv, InOrderNow
        <3> QED
            BY <3>4, <3>10
    <2> QED
        BY <2>3, <2>5, <2>6
<1> QED
    BY <1>2, <1>7, <1>8, <1>9, <1>10

\* What a step of the tool phase has to show: the log keeps its results or takes the
\* head's, and the bodies stay started.
LEMMA PhaseReplies ==
    ASSUME LoopInvariant, Live, at \in ToolPhase, turn' = turn, step' = step, ran' = ran, calls' = calls,
           \A n \in 1 .. Len(calls) : body[n] \in Started => body'[n] \in Started,
           \/ err' = "failed"
           \/ /\ err # "failed"
              /\ stored' = stored \/ \E e \in Events : stored' = Append(stored, e) /\ e.type \notin {"result", "step/start"}
              /\ at' = "endStep" => \A n \in 1 .. Len(calls) : Done(n)
              /\ at' # "endStep" => \A n \in 1 .. Len(calls) : Done(n)' <=> Done(n)
           \/ \E h, code : /\ IsNext(h) /\ code \in Codes /\ err # "failed" /\ at' # "endStep"
                           /\ stored' = Append(stored, ResultEvent(h, code))
                           /\ \A n \in 1 .. Len(calls) : Done(n)' <=> Done(n) \/ n = h
    PROVE  ReplyInv' /\ RanInv'
<1>1. at \in InStep \ {"endStep"}
    BY DEF ToolPhase, InStep
<1>2. RanInv'
    <2>1. calls' \in Seq(Kinds) /\ Len(calls) <= Len(calls')
        BY DEF LoopInvariant, LoopTypeOK
    <2> QED
        BY <1>1, <2>1, RanKept
<1>3. CASE err' = "failed"
    BY <1>2, <1>3, NoReplies
<1>4. CASE /\ err # "failed"
           /\ stored' = stored \/ \E e \in Events : stored' = Append(stored, e) /\ e.type \notin {"result", "step/start"}
           /\ at' = "endStep" => \A n \in 1 .. Len(calls) : Done(n)
           /\ at' # "endStep" => \A n \in 1 .. Len(calls) : Done(n)' <=> Done(n)
    BY <1>1, <1>2, <1>4, RepliesKept
<1>5. ASSUME NEW h, NEW code \in Codes, IsNext(h), err # "failed", at' # "endStep",
             stored' = Append(stored, ResultEvent(h, code)), \A n \in 1 .. Len(calls) : Done(n)' <=> Done(n) \/ n = h
      PROVE  ReplyInv'
    <2> DEFINE e == ResultEvent(h, code)
    <2>1. e = ResultEvent(h, code) /\ stored' = Append(stored, e)
        BY <1>5
    <2> HIDE DEF e
    <2> QED
        BY <1>5, <2>1, ReplyNext
<1> QED
    BY <1>2, <1>3, <1>4, <1>5

\* A call that is started.
LEMMA StartReplies ==
    ASSUME LoopInvariant, Live, at \in {"tools", "fill"}, next <= Len(calls), next' \in {next, next + 1}, NEW label, label # "endStep",
           Start(next, label), turn' = turn, step' = step, calls' = calls
    PROVE  ReplyInv' /\ RanInv'
<1> DEFINE k == next
<1>1. /\ at \in ToolPhase /\ at \in InStep \ {"endStep"} /\ Len(calls) \in Nat /\ next \in 1 .. Len(calls) /\ next \in Calls
      /\ turn \in Nat /\ step \in Nat /\ MaxCalls \in Nat /\ err = "none" /\ CallTypes /\ next \in Nat
    <2>1. at \in ToolPhase /\ at \in InStep \ {"endStep", "drain"}
        BY DEF ToolPhase, InStep
    <2>2. CallTypes /\ MaxCalls \in Nat /\ turn \in Nat /\ step \in Nat /\ err = "none"
        BY <2>1, TypesAre, BoundsAssumption DEF LoopInvariant, LoopTypeOK, BodyInv
    <2>3. next \in Calls
        BY <2>2, NextCall
    <2> QED
        BY <2>1, <2>2, <2>3 DEF CallTypes, Calls
<1>2. Pool(k)
    BY <1>1 DEF LoopInvariant, BodyInv
<1>3. body[k] = "none"
    BY <1>2 DEF Pool
<1>4. stored' = Append(stored, CallEvent(next)) /\ at' = label /\ err' = err
    BY DEF Start, Logs, Goes, stepVars
<1>5. CallEvent(next) \in Events /\ CallEvent(next).type = "call"
    BY <1>1 DEF CallEvent, Event, Events, Codes, TurnStatuses
<1>6. PICK s \in {"running", "denied"} : body' = [body EXCEPT ![k] = s] /\ (s = "running" => ran' = ran \cup {<<turn, step, next>>})
                                         /\ (s = "denied" => ran' = ran)
    BY DEF Start
<1>7. \A n \in Calls : body'[n] = IF n = k THEN s ELSE body[n]
    BY <1>1, <1>6 DEF CallTypes
<1>8. \A n \in 1 .. Len(calls) : n \in Calls
    BY <1>1 DEF CallTypes, Calls
<1>9. ASSUME NEW n \in 1 .. Len(calls) PROVE Done(n)' <=> Done(n)
    <2>1. n \in Calls /\ n \in Nat /\ Pool(n)
        BY <1>1, <1>8 DEF LoopInvariant, BodyInv
    <2>2. CASE n = k
        BY <1>3, <1>7, <2>1, <2>2 DEF Done
    <2>3. CASE n # k
        <3>1. body'[n] = body[n]
            BY <1>7, <2>1, <2>3
        <3>2. body[n] = "aborted" => FALSE
            BY <1>1, <1>8, <2>1, <2>3 DEF Pool
        <3> QED
            BY <3>1, <3>2 DEF Done
    <2> QED
        BY <2>2, <2>3
<1>10. ReplyInv'
    BY <1>1, <1>4, <1>5, <1>9, RepliesKept
<1>11. RanInv'
    <2>1. \A n \in Nat : <<turn, step, n>> \in ran => n \in 1 .. Len(calls) /\ body[n] \in Started
        BY <1>1 DEF LoopInvariant, RanInv, Started
    <2>2. ASSUME NEW n \in Nat, <<turn', step', n>> \in ran' PROVE n \in 1 .. Len(calls') /\ body'[n] \in Started
        <3>1. CASE <<turn, step, n>> \in ran
            <4>1. n \in 1 .. Len(calls) /\ body[n] \in Started /\ n # k
                BY <1>3, <2>1, <3>1 DEF Started
            <4> QED
                BY <1>7, <1>8, <4>1
        <3>2. CASE <<turn, step, n>> \notin ran
            <4>1. s = "running" /\ n = k
                BY <1>6, <2>2, <3>2
            <4> QED
                BY <1>1, <1>7, <4>1 DEF Started
        <3> QED
            BY <3>1, <3>2
    <2> QED
        BY <2>2 DEF RanInv, Started
<1> QED
    BY <1>10, <1>11

\* The head's outcome is committed.
LEMMA CommitReplies ==
    ASSUME LoopInvariant, Live, at \in ToolPhase, err = "none", NEW h \in Calls, IsNext(h), Commit(h), at' # "endStep",
           turn' = turn, step' = step, ran' = ran, calls' = calls, next' \in {next, next + 1}, at # "abort"
    PROVE  ReplyInv' /\ RanInv'
<1>1. CallTypes /\ body' = [body EXCEPT ![h] = "committed"]
    BY TypesAre DEF LoopInvariant, Commit
<1>2. \A n \in Calls : body'[n] = IF n = h THEN "committed" ELSE body[n]
    BY <1>1 DEF CallTypes
<1>3. \A n \in 1 .. Len(calls) : n \in Calls
    BY <1>1, BoundsAssumption DEF CallTypes, Calls
<1>4. ASSUME NEW n \in 1 .. Len(calls) PROVE Done(n)' <=> Done(n) \/ n = h
    <2>1. n \in Calls /\ n \in Nat /\ next \in Nat /\ Pool(n)
        BY <1>1, <1>3 DEF LoopInvariant, BodyInv, CallTypes
    <2>2. CASE n = h
        BY <1>2, <2>1, <2>2 DEF Done
    <2>3. CASE n # h
        <3>1. body'[n] = body[n]
            BY <1>2, <2>1, <2>3
        <3>2. body[n] = "aborted" => FALSE
            BY <1>1, <2>1 DEF Pool, CallTypes
        <3> QED
            BY <2>3, <3>1, <3>2 DEF Done
    <2> QED
        BY <2>2, <2>3
<1> DEFINE code == IF body[h] = "denied" THEN "denied" ELSE "ok"
<1>5. code \in Codes /\ stored' = Append(stored, ResultEvent(h, code))
    BY DEF Commit, Logs, Codes, TurnStatuses
<1>6. \A n \in 1 .. Len(calls) : body[n] \in Started => body'[n] \in Started
    BY <1>2, <1>3 DEF Started
<1> HIDE DEF code
<1> QED
    BY <1>4, <1>5, <1>6, PhaseReplies

\* The calls that the loop handles one by one.
LEMMA SerialReplies ==
    ASSUME LoopInvariant, Live, ~diverged', Tools \/ Exclusive \/ Fill \/ Abort
    PROVE  ReplyInv' /\ RanInv'
<1>1. /\ turn' = turn /\ step' = step /\ calls' = calls /\ asked' = asked /\ LoopTypeOK /\ BodyInv /\ CallTypes
      /\ next \in 1 .. Len(calls) + 1 /\ next \in Nat /\ Len(calls) \in Nat /\ ~diverged
      /\ turn \in Nat /\ step \in Nat
    BY TypesAre, BoundsAssumption DEF LoopInvariant, LoopTypeOK, Live, Tools, Exclusive, Fill, Abort, turnVars, boundVars
<1>2. ASSUME at \in {"tools", "exclusive", "fill", "abort"}
      PROVE  at \in ToolPhase /\ err = "none" /\ \A n \in Calls : Pool(n)
    <2>1. at \in InStep \ {"drain", "endStep"} /\ at \in ToolPhase
        BY <1>2 DEF InStep, ToolPhase
    <2> QED
        BY <1>1, <2>1 DEF BodyInv
<1>3. \A n \in 1 .. Len(calls) : n \in Calls /\ n \in Nat
    BY <1>1, BoundsAssumption DEF CallTypes, Calls
\* Nothing changes but the label.
<1>4. ASSUME at \in ToolPhase, err = "none", ran' = ran, body' = body, next' = next,
             err' = "failed" \/ stored' = stored,
             at' = "endStep" /\ err' # "failed" => \A n \in 1 .. Len(calls) : Done(n)
      PROVE  ReplyInv' /\ RanInv'
    <2>1. \A n \in 1 .. Len(calls) : (Done(n)' <=> Done(n)) /\ (body[n] \in Started => body'[n] \in Started)
        BY <1>4 DEF Done
    <2>2. err # "failed"
        BY <1>4
    <2> QED
        BY <1>1, <1>4, <2>1, <2>2, PhaseReplies
<1>5. CASE Tools
    <2>1. at = "tools" /\ next' = next /\ at \in ToolPhase /\ err = "none" /\ \A n \in Calls : Pool(n)
        BY <1>2, <1>5 DEF Tools
    <2>2. \/ next > Len(calls) /\ stored' = stored /\ body' = body /\ ran' = ran
          \/ stored' = stored /\ body' = body /\ ran' = ran /\ at' \in {"abort", "fill"}
          \/ next <= Len(calls) /\ Start(next, "exclusive")
          \/ body' = body /\ ran' = ran /\ err' = "failed"
        BY <1>5 DEF Tools, Fails, Goes, logVars
    <2>3. CASE next > Len(calls) /\ stored' = stored /\ body' = body /\ ran' = ran
        <3>1. ASSUME NEW n \in 1 .. Len(calls) PROVE Done(n)
            <4>1. Pool(n) /\ n < next
                BY <1>1, <1>3, <2>1, <2>3
            <4> QED
                BY <2>1, <4>1 DEF Pool, Done
        <3> QED
            BY <1>4, <2>1, <2>3, <3>1
    <2>4. CASE stored' = stored /\ body' = body /\ ran' = ran /\ at' \in {"abort", "fill"}
        BY <1>4, <2>1, <2>4
    <2>5. CASE next <= Len(calls) /\ Start(next, "exclusive")
        <3>1. "exclusive" # "endStep" /\ next' \in {next, next + 1}
            BY <2>1
        <3> QED
            BY <1>1, <2>1, <2>5, <3>1, StartReplies
    <2>6. CASE body' = body /\ ran' = ran /\ err' = "failed"
        BY <1>4, <2>1, <2>6
    <2> QED
        BY <2>2, <2>3, <2>4, <2>5, <2>6
<1>6. CASE Exclusive
    <2>1. at = "exclusive" /\ at \in ToolPhase /\ err = "none" /\ ran' = ran
        BY <1>2, <1>6 DEF Exclusive, boundVars
    <2>2. IsNext(next) /\ next \in Calls
        <3>1. IsNext(next)
            BY <1>1, <2>1, HeadNext
        <3> QED
            BY <1>3, <3>1 DEF IsNext
    <2>3. \/ Commit(next) /\ next' = next + 1 /\ at' = "tools"
          \/ body' = body /\ next' = next /\ err' = "failed"
        BY <1>6 DEF Exclusive, CommitFails, Goes
    <2>4. CASE Commit(next) /\ next' = next + 1 /\ at' = "tools"
        BY <1>1, <2>1, <2>2, <2>4, CommitReplies
    <2> QED
        BY <1>4, <2>1, <2>3, <2>4
<1>7. CASE Fill
    <2>1. at = "fill" /\ at \in ToolPhase /\ err = "none"
        BY <1>2, <1>7 DEF Fill
    <2>2. \/ next <= Len(calls) /\ Start(next, "filled") /\ next' = next + 1
          \/ body' = body /\ next' = next /\ ran' = ran /\ err' = "failed"
          \/ body' = body /\ next' = next /\ ran' = ran /\ stored' = stored /\ at' = "settle"
        BY <1>7 DEF Fill, CanFill, Goes, logVars
    <2>3. CASE next <= Len(calls) /\ Start(next, "filled") /\ next' = next + 1
        <3>1. "filled" # "endStep"
            OBVIOUS
        <3> QED
            BY <1>1, <2>1, <2>3, <3>1, StartReplies
    <2> QED
        BY <1>4, <2>1, <2>2, <2>3
<1>8. CASE Abort
    <2>1. at = "abort" /\ at \in ToolPhase /\ err = "none" /\ ran' = ran /\ \A n \in Calls : Pool(n)
        BY <1>2, <1>8 DEF Abort, boundVars
    <2>2. \/ next > Len(calls) /\ stored' = stored /\ body' = body /\ next' = next
          \/ /\ next <= Len(calls) /\ body[next] = "none" /\ next' = next /\ at' = at
             /\ stored' = Append(stored, CallEvent(next)) /\ body' = [body EXCEPT ![next] = "aborted"]
          \/ /\ next <= Len(calls) /\ body[next] = "aborted" /\ next' = next + 1 /\ at' = at
             /\ stored' = Append(stored, ResultEvent(next, "aborted")) /\ body' = body
          \/ body' = body /\ next' = next /\ err' = "failed"
        BY <1>8 DEF Abort, Fails, Logs, logVars
    <2>3. CASE next > Len(calls) /\ stored' = stored /\ body' = body /\ next' = next
        <3>1. ASSUME NEW n \in 1 .. Len(calls) PROVE Done(n)
            <4>1. Pool(n) /\ n < next
                BY <1>1, <1>3, <2>1, <2>3
            <4> QED
                BY <2>1, <4>1 DEF Pool, Done
        <3> QED
            BY <1>4, <2>1, <2>3, <3>1
    <2>4. CASE /\ next <= Len(calls) /\ body[next] = "none" /\ next' = next /\ at' = at
               /\ stored' = Append(stored, CallEvent(next)) /\ body' = [body EXCEPT ![next] = "aborted"]
        <3>1. CallEvent(next) \in Events /\ CallEvent(next).type = "call"
            BY <1>1 DEF CallEvent, Event, Events, Codes, TurnStatuses
        <3>2. next \in Calls
            BY <1>1, <2>4, NextCall
        <3>3. \A n \in Calls : body'[n] = IF n = next THEN "aborted" ELSE body[n]
            BY <1>1, <2>4 DEF CallTypes
        <3>4. ASSUME NEW n \in 1 .. Len(calls)
              PROVE  (Done(n)' <=> Done(n)) /\ (body[n] \in Started => body'[n] \in Started)
            <4>1. n \in Calls /\ n \in Nat
                BY <1>3
            <4>2. CASE n = next
                <5>1. ~(next < next) /\ body'[next] = "aborted"
                    BY <1>1, <3>2, <3>3
                <5> QED
                    BY <2>4, <4>2, <5>1 DEF Done, Started
            <4>3. CASE n # next
                BY <2>4, <3>3, <4>1, <4>3 DEF Done
            <4> QED
                BY <4>2, <4>3
        <3>5. at' # "endStep" /\ err # "failed"
            BY <2>1, <2>4
        <3>6. \E e \in Events : stored' = Append(stored, e) /\ e.type \notin {"result", "step/start"}
            BY <2>4, <3>1
        <3> QED
            BY <1>1, <2>1, <3>4, <3>5, <3>6, PhaseReplies
    <2>5. CASE /\ next <= Len(calls) /\ body[next] = "aborted" /\ next' = next + 1 /\ at' = at
               /\ stored' = Append(stored, ResultEvent(next, "aborted")) /\ body' = body
        <3>1. IsNext(next)
            BY <1>1, <2>1, <2>5, HeadNext
        <3>2. ASSUME NEW n \in 1 .. Len(calls) PROVE Done(n)' <=> Done(n) \/ n = next
            <4>1. n \in Calls /\ n \in Nat /\ Pool(n)
                BY <1>3, <2>1
            <4>2. body[n] = "aborted" => n <= next
                BY <1>1, <2>1, <4>1 DEF Pool
            <4> QED
                BY <1>1, <2>5, <4>1, <4>2 DEF Done
        <3>3. "aborted" \in Codes /\ at' # "endStep" /\ err # "failed"
            BY <2>1, <2>5 DEF Codes, TurnStatuses
        <3>4. \A n \in 1 .. Len(calls) : body[n] \in Started => body'[n] \in Started
            BY <2>5
        <3> QED
            BY <1>1, <2>1, <2>5, <3>1, <3>2, <3>3, <3>4, PhaseReplies
    <2> QED
        BY <1>4, <2>1, <2>2, <2>3, <2>4, <2>5
<1> QED
    BY <1>5, <1>6, <1>7, <1>8

\* The pool of parallel calls.
LEMMA GroupReplies ==
    ASSUME LoopInvariant, Live, ~diverged', CommitReady \/ Committed \/ Receive \/ Drained
    PROVE  ReplyInv' /\ RanInv'
<1>1. /\ turn' = turn /\ step' = step /\ calls' = calls /\ next' = next /\ ran' = ran
      /\ LoopTypeOK /\ BodyInv /\ CallTypes /\ Len(calls) \in Nat /\ next \in Nat
    BY TypesAre DEF LoopInvariant, LoopTypeOK, CommitReady, Committed, Receive, Drained, turnVars, toolVars, boundVars
<1>2. at \in {"filled", "settle", "wait", "drain"} /\ at \in ToolPhase /\ err \in {"none", "failed"} /\ (at # "drain" => err = "none")
      /\ \A n \in Calls : Pool(n)
    <2>1. at \in {"filled", "settle", "wait", "drain"}
        BY DEF CommitReady, Committed, Receive, Drained
    <2>2. at \in ToolPhase /\ (at = "drain" \/ at \in InStep \ {"drain", "endStep"})
        BY <2>1 DEF InStep, ToolPhase
    <2> QED
        BY <1>1, <2>1, <2>2 DEF BodyInv
<1>3. \A n \in 1 .. Len(calls) : n \in Calls /\ n \in Nat
    BY <1>1, BoundsAssumption DEF CallTypes, Calls
<1>4. ASSUME err' = "failed" \/ (stored' = stored /\ err = "none" /\ at' # "endStep"), body' = body
      PROVE  ReplyInv' /\ RanInv'
    <2>1. \A n \in 1 .. Len(calls) : (Done(n)' <=> Done(n)) /\ (body[n] \in Started => body'[n] \in Started)
        BY <1>1, <1>4 DEF Done
    <2> QED
        BY <1>1, <1>2, <1>4, <2>1, PhaseReplies
<1>5. ASSUME err = "none", HeadReady, at # "wait", at' = at, Commit(Min(InFlight))
      PROVE  ReplyInv' /\ RanInv'
    <2> DEFINE h == Min(InFlight)
    <2>1. h \in 1 .. Len(calls) /\ IsNext(h)
        BY <1>1, <1>2, <1>5, HeadInFlight DEF HeadReady
    <2>2. Commit(h)
        BY <1>5
    <2> HIDE DEF h
    <2>3. h \in Calls /\ at' # "endStep" /\ at # "abort"
        BY <1>2, <1>3, <1>5, <2>1
    <2> QED
        BY <1>1, <1>2, <1>5, <2>1, <2>2, <2>3, CommitReplies
<1>6. CASE CommitReady
    <2>1. at # "wait" /\ at # "drain" /\ HeadReady /\ err = "none"
        BY <1>2, <1>6 DEF CommitReady
    <2>2. (Commit(Min(InFlight)) /\ at' = at) \/ (err' = "failed" /\ body' = body)
        BY <1>6 DEF CommitReady, CommitFails
    <2> QED
        BY <1>4, <1>5, <2>1, <2>2
<1>7. CASE Committed
    <2>1. at # "drain" /\ stored' = stored /\ body' = body
        BY <1>7 DEF Committed, logVars, toolVars
    <2>2. at' # "endStep"
        BY <1>7 DEF Committed, Goes
    <2> QED
        BY <1>2, <1>4, <2>1, <2>2
<1>8. CASE Receive
    <2>1. PICK k \in Calls : body[k] = "settled" /\ body' = [body EXCEPT ![k] = "ready"]
        BY <1>8 DEF Receive
    <2>2. stored' = stored /\ err' = err /\ at' # "endStep"
        BY <1>8 DEF Receive, logVars, stepVars, Goes
    <2>3. \A n \in Calls : body'[n] = IF n = k THEN "ready" ELSE body[n]
        BY <1>1, <2>1 DEF CallTypes
    <2>4. \A n \in 1 .. Len(calls) : (Done(n)' <=> Done(n)) /\ (body[n] \in Started => body'[n] \in Started)
        BY <1>1, <1>3, <2>1, <2>3 DEF Done, Started
    <2> QED
        BY <1>1, <1>2, <2>2, <2>4, PhaseReplies
<1>9. CASE Drained
    <2>1. \/ err = "failed" /\ err' = err /\ body' = body
          \/ err = "none" /\ HeadReady /\ Commit(Min(InFlight)) /\ at' = at /\ at = "drain"
          \/ err' = "failed" /\ body' = body
          \/ err = "none" /\ stored' = stored /\ body' = body /\ at' = "abort"
        BY <1>9 DEF Drained, CommitFails, Goes, logVars, stepVars
    <2> QED
        BY <1>4, <1>5, <2>1
<1> QED
    BY <1>6, <1>7, <1>8, <1>9

\* A body returns; the environment touches neither log nor calls.
LEMMA WorldReplies ==
    ASSUME LoopInvariant, Live, (\E n \in Calls : BodySettles(n)) \/ Cancel \/ Steer \/ SteerCancels
    PROVE  ReplyInv' /\ RanInv'
<1>1. /\ turn' = turn /\ step' = step /\ calls' = calls /\ next' = next /\ ran' = ran /\ stored' = stored /\ at' = at
      /\ err' = err /\ CallTypes
    BY TypesAre DEF LoopInvariant, BodySettles, Cancel, Steer, SteerCancels, turnVars, toolVars, boundVars, stepVars, logVars
<1>2. \A n \in 1 .. Len(calls) : n \in Calls /\ n \in Nat
    BY <1>1, BoundsAssumption DEF CallTypes, Calls
<1>3. \A n \in 1 .. Len(calls) : (Done(n)' <=> Done(n)) /\ (body[n] \in Started => body'[n] \in Started)
    <2>1. CASE body' = body
        BY <1>1, <2>1 DEF Done
    <2>2. ASSUME NEW k \in Calls, body[k] = "running", body' = [body EXCEPT ![k] = "settled"]
          PROVE  \A n \in 1 .. Len(calls) : (Done(n)' <=> Done(n)) /\ (body[n] \in Started => body'[n] \in Started)
        <3>1. \A n \in Calls : body'[n] = IF n = k THEN "settled" ELSE body[n]
            BY <1>1, <2>2 DEF CallTypes
        <3> QED
            BY <1>1, <1>2, <2>2, <3>1 DEF Done, Started
    <2>3. body' = body \/ \E k \in Calls : body[k] = "running" /\ body' = [body EXCEPT ![k] = "settled"]
        BY DEF BodySettles, Cancel, Steer, SteerCancels, toolVars
    <2> QED
        BY <2>1, <2>2, <2>3
<1>4. ReplyInv'
    <2>1. CASE at \in InStep /\ err # "failed"
        BY <1>1, <1>3, <2>1, RepliesKept
    <2>2. CASE ~(at \in InStep /\ err # "failed")
        BY <1>1, <2>2 DEF ReplyInv
    <2> QED
        BY <2>1, <2>2
<1>5. RanInv'
    <2>1. CASE at \in InStep \ {"endStep"}
        <3>1. calls' \in Seq(Kinds) /\ Len(calls) <= Len(calls')
            BY <1>1 DEF CallTypes
        <3> QED
            BY <1>1, <1>3, <2>1, <3>1, RanKept
    <2>2. CASE at \notin InStep \ {"endStep"}
        BY <1>1, <2>2 DEF RanInv
    <2> QED
        BY <2>1, <2>2
<1> QED
    BY <1>4, <1>5

-----------------------------------------------------------------------------
(* Every step keeps the invariant.                                         *)

\* The store does not come back to the live log while the process lives.
Sticks == diverged => diverged'

\* A live log that has fallen behind its store never catches up.
LEMMA LoopSticks ==
    ASSUME StartTurn \/ LoopStep \/ (\E n \in Calls : BodySettles(n)) \/ Cancel \/ Steer \/ SteerCancels
    PROVE  Sticks
<1>1. (\A e : Logs(e) \/ Refuses(e) => Sticks) /\ (Notes \/ NoteFails \/ UNCHANGED logVars => Sticks)
    BY DEF Sticks, Logs, Refuses, Notes, NoteFails, logVars
<1>2. CASE StartTurn \/ EndTurn \/ OpenStep \/ EndStep
    BY <1>1, <1>2 DEF StartTurn, EndTurn, OpenStep, EndStep
<1>3. CASE Top \/ Stepped \/ PreStep \/ Stopping
    <2>1. ContinueOnCancel => Notes \/ NoteFails \/ UNCHANGED logVars
        BY DEF ContinueOnCancel, Resume
    <2>2. diverged' = diverged \/ Notes \/ NoteFails \/ UNCHANGED logVars
        BY <1>3, <2>1 DEF Top, Stepped, PreStep, Stopping, logVars
    <2> QED
        BY <1>1, <2>2 DEF Sticks
<1>4. CASE Request \/ Respond \/ StreamBreaks \/ Answered
    <2>1. RequestFails => Notes
        BY DEF RequestFails
    <2> QED
        BY <1>1, <1>4, <2>1 DEF Request, Respond, StreamBreaks, Answered
<1>5. ASSUME NEW n, NEW label, Start(n, label) \/ Commit(n) \/ CommitFails(n, label) PROVE Sticks
    BY <1>1, <1>5 DEF Start, Commit, CommitFails, Sticks
<1>6. CASE Tools \/ Exclusive \/ Fill \/ CommitReady \/ Committed \/ Receive \/ Drained \/ Abort
    BY <1>1, <1>5, <1>6 DEF Tools, Exclusive, Fill, CommitReady, Committed, Receive, Drained, Abort
<1>7. CASE (\E n \in Calls : BodySettles(n)) \/ Cancel \/ Steer \/ SteerCancels
    <2>1. diverged' = diverged
        BY <1>7 DEF BodySettles, Cancel, Steer, SteerCancels, logVars
    <2> QED
        BY <2>1 DEF Sticks
<1> QED
    BY <1>2, <1>3, <1>4, <1>6, <1>7 DEF LoopStep

\* Nor does the loop run before its process does.
LEMMA LoopLives ==
    ASSUME StartTurn \/ LoopStep \/ (\E n \in Calls : BodySettles(n)) \/ Cancel \/ Steer \/ SteerCancels
    PROVE  Alive \/ at' = at
<1>1. CASE StartTurn \/ LoopStep
    <2>1. at \notin {"down", "refused"}
        BY <1>1 DEF StartTurn, LoopStep, Top, PreStep, OpenStep, Request, Respond, StreamBreaks, Answered, EndStep, Stepped,
                    Stopping, EndTurn, Tools, Exclusive, Fill, CommitReady, Committed, Receive, Drained, Abort
    <2> QED
        BY <2>1 DEF Alive
<1>2. CASE (\E n \in Calls : BodySettles(n)) \/ Cancel \/ Steer \/ SteerCancels
    BY <1>2 DEF BodySettles, Cancel, Steer, SteerCancels
<1> QED
    BY <1>1, <1>2

\* The types of the next state.
LEMMA NextTypes ==
    ASSUME Flags', at' \in LoopLabels, Counts', CallTypes', Recorded'
    PROVE  LoopTypeOK'
<1>1. \A i \in DOMAIN stored' : stored'[i].type \in Anchors \cup {"assistant", "call", "result", "torn"}
    <2>1. PICK S : Record(S) /\ stored' \in Seq(S)
        BY DEF Recorded
    <2>2. \A i \in DOMAIN stored' : stored'[i] \in S
        BY <2>1
    <2> QED
        BY <2>1, <2>2 DEF Record, Recordable
<1>2. at' \in Stopped \cup {"top", "preStep", "openStep", "request", "stream", "answered", "tools",
       "exclusive", "fill", "filled", "settle", "wait", "drain", "abort", "endStep", "stepped",
       "stopping", "endTurn"}
    BY DEF LoopLabels, Between, Entering, Asking, ToolPhase
<1> QED
    BY <1>1, <1>2 DEF LoopTypeOK, Flags, Counts, CallTypes

\* The types follow from the invariant, and they are kept whatever the log says.
LEMMA TypesFollow == LoopInvariant => TypeInvariant
    BY StoredRecorded DEF LoopInvariant, TypeInvariant

LEMMA TypesKept ==
    ASSUME TypeInvariant, [LoopNext]_loopVars
    PROVE  TypeInvariant'
<1>1. CASE LoopNext
    <2>1. Recorded'
        <3>1. CASE Load \/ Crash \/ Recover
            BY <3>1, RestartRecords DEF TypeInvariant
        <3>2. CASE StartTurn \/ LoopStep \/ (\E n \in Calls : BodySettles(n)) \/ Cancel \/ Steer \/ SteerCancels
            <4>1. MaxCalls \in Nat /\ asked \in Nat
                BY BoundsAssumption DEF TypeInvariant, LoopTypeOK
            <4>2. CASE stored' = stored
                BY <4>2 DEF TypeInvariant, Recorded
            <4>3. ASSUME NEW e, Recordable(e), stored' = Append(stored, e) PROVE Recorded'
                BY <4>3, RecordAdded DEF TypeInvariant
            <4> QED
                BY <3>2, <4>1, <4>2, <4>3, LoopRecords DEF Grows
        <3> QED
            BY <1>1, <3>1, <3>2 DEF LoopNext
    <2>2. CallTypes' /\ BodyInv'
        BY <1>1, BareKept, RequestBodies, SerialBodies, GroupBodies, WorldBodies DEF LoopNext, LoopStep
    <2>3. Flags' /\ at' \in LoopLabels /\ Counts'
        BY <1>1, TurnTypes, RequestTypes, ToolTypes, WorldTypes DEF LoopNext, LoopStep
    <2> QED
        BY <2>1, <2>2, <2>3, NextTypes DEF TypeInvariant
<1>2. CASE UNCHANGED loopVars
    <2> USE <1>2 DEF loopVars, logVars, turnVars, stepVars, toolVars, boundVars
    <2>1. LoopTypeOK'
        BY DEF TypeInvariant, LoopTypeOK
    <2>2. BodyInv'
        BY DEF TypeInvariant, BodyInv, Bare, Pool
    <2>3. Recorded'
        BY DEF TypeInvariant, Recorded
    <2> QED
        BY <2>1, <2>2, <2>3 DEF TypeInvariant
<1> QED
    BY <1>1, <1>2

\* A step of the loop.
LEMMA LoopStepKeeps ==
    ASSUME LoopInvariant, EndsDurable,
           StartTurn \/ LoopStep \/ (\E n \in Calls : BodySettles(n)) \/ Cancel \/ Steer \/ SteerCancels
    PROVE  LoopInvariant'
<1>1. Alive \/ at' = at
    BY LoopLives
<1>2. StoredInv'
    <2>1. at = "down" => at' = "down"
        BY <1>1 DEF Alive
    <2> QED
        BY <2>1, LoopKeeps, LoopStored
<1>3. LoopNext
    BY DEF LoopNext
<1>4. LoopTypeOK' /\ BodyInv'
    BY <1>3, TypesFollow, TypesKept DEF TypeInvariant
<1>5. CASE ~Live'
    BY <1>2, <1>4, <1>5 DEF LoopInvariant, PlaceInv, ReplyInv, RanInv
<1>6. CASE Live'
    <2>1. Live /\ ~diverged /\ ~diverged' /\ at' # "down"
        <3>1. ~diverged' /\ at' \notin {"down", "refused"}
            BY <1>6 DEF Live, Alive
        <3>2. ~diverged
            BY <3>1, LoopSticks DEF Sticks
        <3>3. Alive
            BY <1>1, <3>1 DEF Alive
        <3> QED
            BY <3>1, <3>2, <3>3 DEF Live
    <2>2. stored' \in Seq(Events)
        BY <1>2, <2>1 DEF StoredInv
    <2>3. PlaceInv'
        <3>1. Moves
            BY <2>1, LoopMoves
        <3> QED
            BY <2>1, <2>2, <3>1, PlaceKept
    <2>4. ReplyInv' /\ RanInv'
        <3>1. CASE StartTurn \/ Top \/ PreStep \/ Stepped \/ Stopping \/ EndTurn
            <4>1. at \in {"idle", "top", "preStep", "stepped", "stopping", "endTurn"}
                BY <3>1 DEF StartTurn, Top, PreStep, Stepped, Stopping, EndTurn
            <4>2. ContinueOnCancel => at' \in {"top", "endTurn"}
                BY DEF ContinueOnCancel, Resume, Aborts, Goes
            <4>3. at' \in {at, "top", "preStep", "openStep", "stopping", "endTurn", "idle"}
                BY <3>1, <4>2 DEF StartTurn, Top, PreStep, Stepped, Stopping, EndTurn, Aborts, Goes
            <4>4. at' \notin InStep
                BY <4>1, <4>3 DEF InStep, Asking, ToolPhase
            <4> QED
                BY <4>4, NoReplies
        <3> QED
            BY <2>1, <3>1, OpenReplies, RequestReplies, SerialReplies, GroupReplies, WorldReplies DEF LoopStep
    <2> QED
        BY <1>2, <1>4, <2>3, <2>4 DEF LoopInvariant
<1> QED
    BY <1>5, <1>6

\* A load, a crash or a recovery leaves a log that nobody appends to.
LEMMA RestartKeeps ==
    ASSUME LoopInvariant, Load \/ Crash \/ Recover
    PROVE  LoopInvariant'
<1>1. StoredInv'
    BY LoadStored, CrashStored, RecoverStored
<1>2. LoopTypeOK' /\ BodyInv'
    <2>1. LoopNext
        BY DEF LoopNext
    <2> QED
        BY <2>1, TypesFollow, TypesKept DEF TypeInvariant
<1>3. ~Live' \/ (at' = "idle" /\ Open(stored') = "none")
    <2>1. CASE Load
        BY <2>1 DEF Load, Live
    <2>2. CASE Crash
        BY <2>2 DEF Crash, Goes, Live, Alive
    <2>3. CASE Recover
        <3>1. at' \in {"idle", "refused", "down"}
            BY <2>3 DEF Recover, Goes
        <3>2. at' = "idle" => Open(stored') = "none"
            BY <2>3, RecoverStored
        <3> QED
            BY <3>1, <3>2 DEF Live, Alive
    <2> QED
        BY <2>1, <2>2, <2>3
<1>4. CASE ~Live'
    BY <1>1, <1>2, <1>4 DEF LoopInvariant, PlaceInv, ReplyInv, RanInv
<1>5. CASE at' = "idle" /\ Open(stored') = "none"
    <2>1. at' \notin InStep /\ at' \notin Between /\ at' \notin Entering /\ at' \notin Asking
        BY <1>5 DEF InStep, Between, Entering, Asking, ToolPhase
    <2> QED
        BY <1>1, <1>2, <1>5, <2>1 DEF LoopInvariant, PlaceInv, ReplyInv, RanInv
<1> QED
    BY <1>3, <1>4, <1>5

\* The invariant is inductive.
LEMMA InvariantKept ==
    ASSUME LoopInvariant, EndsDurable, [LoopNext]_loopVars
    PROVE  LoopInvariant'
<1>1. CASE LoopNext
    BY <1>1, LoopStepKeeps, RestartKeeps DEF LoopNext
<1>2. CASE UNCHANGED loopVars
    <2> USE <1>2 DEF loopVars, logVars, turnVars, stepVars, toolVars, boundVars
    <2>1. LoopTypeOK'
        BY DEF LoopInvariant, LoopTypeOK
    <2>2. StoredInv'
        BY DEF LoopInvariant, StoredInv
    <2>3. Live' = Live /\ at' = at /\ stored' = stored /\ turn' = turn /\ step' = step /\ calls' = calls /\ body' = body
          /\ next' = next /\ err' = err /\ ran' = ran
        BY DEF Live, Alive
    <2>4. PlaceInv'
        BY <2>3 DEF LoopInvariant, PlaceInv
    <2>5. BodyInv'
        BY <2>3 DEF LoopInvariant, BodyInv, Bare, Pool
    <2>6. ReplyInv'
        BY <2>3 DEF LoopInvariant, ReplyInv, Done
    <2>7. RanInv'
        BY <2>3 DEF LoopInvariant, RanInv
    <2> QED
        BY <2>1, <2>2, <2>4, <2>5, <2>6, <2>7 DEF LoopInvariant
<1> QED
    BY <1>1, <1>2

\* A new session.
LEMMA InvariantBegins ==
    ASSUME LoopInit
    PROVE  LoopInvariant
<1> USE DEF LoopInit
<1>1. Open(<<>>) = "none"
    <2>1. LastBefore(<<>>, 0, Anchors) = 0
        <3> DEFINE log == <<>>
                   b == 0
        <3>1. 0 \in Nat /\ b \in 0 .. 0 /\ (b # 0 => log[b].type \in Anchors) /\ \A j \in 1 .. 0 : log[j].type \in Anchors => j <= b
            OBVIOUS
        <3> HIDE DEF log, b
        <3>2. LastBefore(log, 0, Anchors) = b
            BY <3>1, LastBeforeUnique
        <3> QED
            BY <3>2 DEF log, b
    <2>2. Len(<<>>) = 0
        OBVIOUS
    <2> QED
        BY <2>1, <2>2 DEF Open, OpenAt, AnchorAt
<1>2. StoredInv
    <2>1. LogInv(<<>>, {})
        <3>1. Before(<<>>, 0, {"turn/start"}) = {} /\ Len(<<>>) = 0
            BY DEF Before
        <3>2. TurnStarts(<<>>, Len(<<>>)) = 0
            BY <3>1, FS_EmptySet DEF TurnStarts
        <3>3. Marked(<<>>)
            BY <1>1, <3>2 DEF Marked
        <3>4. Nested(<<>>) /\ Within(<<>>) /\ Unique(<<>>) /\ Ordered(<<>>) /\ Truthful(<<>>, {})
            BY <1>1 DEF Nested, Within, Unique, Ordered, Truthful
        <3> QED
            BY <3>3, <3>4 DEF LogInv
    <2>2. <<>> \in Seq(Events)
        OBVIOUS
    <2> QED
        BY <2>1, <2>2 DEF StoredInv
<1>3. Bare /\ at = "idle"
    BY DEF Bare
<1>4. at \notin InStep /\ at \notin Between /\ at \notin Entering /\ at \notin Asking /\ at \notin ToolPhase /\ at # "answered" /\ at # "drain"
    BY DEF InStep, Between, Entering, Asking, ToolPhase
<1>5. PlaceInv /\ BodyInv /\ ReplyInv /\ RanInv
    BY <1>1, <1>3, <1>4 DEF PlaceInv, BodyInv, ReplyInv, RanInv
<1>6. LoopTypeOK
    <2>1. calls \in Seq(Kinds) /\ Len(calls) = 0 /\ DOMAIN stored = {} /\ next = 1 /\ 1 \in 1 .. 0 + 1
        OBVIOUS
    <2>2. body \in [Calls -> {"none", "running", "settled", "ready", "denied", "committed", "aborted"}]
        BY DEF NoBodies
    <2>3. 0 \in 0 .. MaxTurns /\ 0 \in 0 .. MaxRetries /\ 0 \in 0 .. MaxCalls /\ 0 \in 0 .. Troubles + 1 /\ 0 <= MaxCalls
        BY BoundsAssumption
    <2>4. Flags
        BY DEF Flags
    <2>5. CallTypes
        BY <2>1, <2>2, <2>3 DEF CallTypes
    <2>6. Counts /\ at \in LoopLabels
        BY <2>3 DEF Counts, LoopLabels, Stopped
    <2> QED
        BY <1>2, <2>4, <2>5, <2>6, StoredRecorded, TypesAre
<1> QED
    BY <1>2, <1>5, <1>6 DEF LoopInvariant

-----------------------------------------------------------------------------
(* What the invariant says of the session.                                 *)

\* A settled step answers each call once and in order.
LEMMA SettledAnswers ==
    ASSUME NEW S, NEW f \in Nat, NEW i \in Nat, Settled(S, f, i), NEW j \in f .. i, S[j].type = "assistant",
           S[j].n \in Nat, NEW n \in 1 .. S[j].n
    PROVE  LET results == {k \in f .. i : S[k].type = "result" /\ S[k].n = n}
           IN  /\ Cardinality(results) <= 1
               /\ S[i].code # "failed" => Cardinality(results) = 1
               /\ \A k \in results : \A l \in f .. i : S[l].type = "result" /\ l < k => S[l].n < n
<1> DEFINE results == {k \in f .. i : S[k].type = "result" /\ S[k].n = n}
<1>1. PICK m \in Nat : /\ InOrder(S, f, i, m)
                       /\ S[i].code # "failed" => \A x \in f .. i : S[x].type = "assistant" => S[x].n <= m
    BY DEF Settled
<1>2. \A k, l \in f .. i : S[k].type = "result" /\ S[l].type = "result" /\ l < k => S[l].n < S[k].n
    BY <1>1 DEF InOrder
<1>3. \A k \in results : \A l \in f .. i : S[l].type = "result" /\ l < k => S[l].n < n
    BY <1>2
<1>4. n \in Nat /\ ~(n < n)
    OBVIOUS
<1>5. \A k, l \in results : k = l
    <2>1. SUFFICES ASSUME NEW k \in results, NEW l \in results, l < k PROVE FALSE
        OBVIOUS
    <2>2. S[l].n < n /\ S[l].n = n
        BY <1>3, <2>1
    <2> QED
        BY <1>4, <2>2
<1>6. S[i].code # "failed" => results # {}
    <2>1. SUFFICES ASSUME S[i].code # "failed" PROVE \E k \in f .. i : S[k].type = "result" /\ S[k].n = n
        OBVIOUS
    <2>2. S[j].n <= m
        BY <1>1, <2>1
    <2>3. n \in 1 .. m
        BY <2>2
    <2> QED
        BY <1>1, <2>3 DEF InOrder
<1> HIDE DEF results
<1>7. (results = {} /\ Cardinality(results) = 0) \/ Cardinality(results) = 1
    <2>1. CASE results = {}
        BY <2>1, FS_EmptySet
    <2>2. ASSUME NEW k \in results PROVE Cardinality(results) = 1
        <3>1. results = {k}
            BY <1>5
        <3> QED
            BY <3>1, FS_Singleton
    <2> QED
        BY <2>1, <2>2
<1>8. Cardinality(results) <= 1 /\ (S[i].code # "failed" => Cardinality(results) = 1)
    BY <1>6, <1>7
<1> QED
    BY <1>3, <1>8 DEF results

\* The log behind the store.
LEMMA StoredLog ==
    ASSUME StoredInv
    PROVE  \E log \in Seq(Events) :
               /\ LogInv(log, ran) /\ Complete(stored) = log /\ (\A k \in DOMAIN log : stored[k] = log[k])
               /\ \A i \in DOMAIN stored : \/ i \in DOMAIN log /\ stored[i] = log[i] /\ stored[i] # Torn
                                           \/ stored[i] = Torn /\ i = Len(stored) /\ at = "down"
<1>1. PICK log \in Seq(Events) : LogInv(log, ran) /\ (stored = log \/ (at = "down" /\ stored = Append(log, Torn)))
    BY DEF StoredInv
<1>2. Complete(stored) = log
    BY <1>1, CompleteIs
<1>3. \A i \in DOMAIN log : log[i] # Torn
    <2>1. \A i \in DOMAIN log : log[i] \in Events
        OBVIOUS
    <2>2. \A i \in DOMAIN log : log[i].type # "torn"
        BY <2>1 DEF Events, Anchors
    <2>3. Torn.type = "torn"
        BY DEF Torn, Event
    <2> QED
        BY <2>2, <2>3
<1> DEFINE T == Torn
<1>4. \A x : /\ DOMAIN Append(log, x) = 1 .. Len(log) + 1 /\ Append(log, x)[Len(log) + 1] = x
             /\ \A i \in 1 .. Len(log) : Append(log, x)[i] = log[i]
             /\ Len(Append(log, x)) = Len(log) + 1 /\ Len(log) \in Nat /\ DOMAIN log = 1 .. Len(log)
    OBVIOUS
<1>5. \A i \in DOMAIN log : log[i] # T
    BY <1>3
<1>6. stored = log \/ (at = "down" /\ stored = Append(log, T))
    BY <1>1
<1> HIDE DEF T
<1>7. /\ (\A k \in DOMAIN log : stored[k] = log[k])
      /\ \A i \in DOMAIN stored : \/ i \in DOMAIN log /\ stored[i] = log[i] /\ stored[i] # T
                                  \/ stored[i] = T /\ i = Len(stored) /\ at = "down"
    <2>1. CASE stored = log
        BY <1>4, <1>5, <2>1
    <2>2. CASE at = "down" /\ stored = Append(log, T)
        <3>1. \A k \in DOMAIN log : stored[k] = log[k]
            BY <1>4, <2>2
        <3>2. ASSUME NEW i \in DOMAIN stored
              PROVE  \/ i \in DOMAIN log /\ stored[i] = log[i] /\ stored[i] # T
                     \/ stored[i] = T /\ i = Len(stored) /\ at = "down"
            <4>1. i \in 1 .. Len(log) \/ i = Len(log) + 1
                BY <1>4, <2>2
            <4> QED
                BY <1>4, <1>5, <2>2, <4>1
        <3> QED
            BY <3>1, <3>2
    <2> QED
        BY <1>6, <2>1, <2>2
<1> QED
    BY <1>1, <1>2, <1>7 DEF T

\* A log that satisfies the invariant can be repaired.
LEMMA InvariantRecovers ==
    ASSUME LoopInvariant
    PROVE  Recoverable
<1>1. PICK log \in Seq(Events) :
          /\ LogInv(log, ran) /\ Complete(stored) = log /\ (\A k \in DOMAIN log : stored[k] = log[k])
          /\ \A i \in DOMAIN stored : \/ i \in DOMAIN log /\ stored[i] = log[i] /\ stored[i] # Torn
                                      \/ stored[i] = Torn /\ i = Len(stored) /\ at = "down"
    BY StoredLog DEF LoopInvariant
<1> QED
    BY <1>1 DEF Recoverable, LogInv

\* Its closed steps have their answers, and the answers are true.
LEMMA InvariantAnswers ==
    ASSUME LoopInvariant
    PROVE  CallsAnswered
<1>1. PICK log \in Seq(Events) :
          /\ LogInv(log, ran) /\ Complete(stored) = log /\ (\A k \in DOMAIN log : stored[k] = log[k])
          /\ \A i \in DOMAIN stored : \/ i \in DOMAIN log /\ stored[i] = log[i] /\ stored[i] # Torn
                                      \/ stored[i] = Torn /\ i = Len(stored) /\ at = "down"
    BY StoredLog DEF LoopInvariant
<1>2. \A i \in DOMAIN stored : stored[i].type # "torn" => i \in DOMAIN log /\ stored[i] = log[i]
    <2>1. Torn.type = "torn"
        BY DEF Torn, Event
    <2> QED
        BY <1>1, <2>1
<1>3. AnsweredOnce
    <2>1. SUFFICES ASSUME NEW i \in DOMAIN stored, stored[i].type = "step/end",
                          NEW j \in StepOf(stored, i), stored[j].type = "assistant", NEW n \in 1 .. stored[j].n
                   PROVE  LET results == {k \in StepOf(stored, i) : stored[k].type = "result" /\ stored[k].n = n}
                          IN  /\ Cardinality(results) <= 1
                              /\ stored[i].code # "failed" => Cardinality(results) = 1
                              /\ \A k \in results : \A l \in StepOf(stored, i) :
                                     stored[l].type = "result" /\ l < k => stored[l].n < n
        BY Zenon DEF AnsweredOnce
    <2> DEFINE f == OpenerOf(log, i)
    <2>2. i \in DOMAIN log /\ log[i].type = "step/end" /\ i \in 0 .. Len(log) /\ i \in Nat
        BY <1>2, <2>1
    <2>3. f \in 1 .. i
        BY <1>1, <2>2 DEF LogInv, Within, StepTypes
    <2>4. StepOf(stored, i) = f .. i
        <3>1. \A k \in 1 .. i : stored[k] = log[k]
            BY <1>1, <2>2
        <3>2. Before(stored, i, {"step/start"}) = Before(log, i, {"step/start"})
            BY <3>1 DEF Before
        <3> QED
            BY <3>2 DEF StepOf, OpenerOf, LastBefore
    <2>5. Settled(log, f, i)
        BY <1>1, <2>2 DEF LogInv, Ordered
    <2> HIDE DEF f
    <2>6. \A k \in f .. i : k \in DOMAIN log /\ stored[k] = log[k]
        BY <1>1, <2>2, <2>3
    <2>7. f \in Nat /\ f <= i
        BY <2>2, <2>3
    <2>8. Settled(stored, f, i)
        BY <2>2, <2>5, <2>6, <2>7, SettledSame
    <2>9. stored[j].n \in Nat /\ j \in f .. i
        <3>1. j \in f .. i
            BY <2>1, <2>4
        <3>2. log[j] \in Events
            BY <2>6, <3>1
        <3> QED
            BY <2>6, <3>1, <3>2 DEF Events
    <2> QED
        <3>1. i \in Nat /\ f \in Nat /\ j \in f .. i /\ stored[j].type = "assistant" /\ stored[j].n \in Nat /\ n \in 1 .. stored[j].n
            BY <2>1, <2>2, <2>7, <2>9
        <3>2. LET results == {k \in f .. i : stored[k].type = "result" /\ stored[k].n = n}
              IN  /\ Cardinality(results) <= 1
                  /\ stored[i].code # "failed" => Cardinality(results) = 1
                  /\ \A k \in results : \A l \in f .. i : stored[l].type = "result" /\ l < k => stored[l].n < n
            BY <2>8, <3>1, SettledAnswers
        <3> QED
            BY <2>4, <3>2
<1>4. NotStartedHonest
    <2>1. ASSUME NEW i \in DOMAIN stored, stored[i].type = "result", stored[i].code \in {"not-started", "aborted", "denied"}
          PROVE  <<stored[i].turn, stored[i].step, stored[i].n>> \notin ran
        <3>1. i \in DOMAIN log /\ stored[i] = log[i]
            BY <1>2, <2>1
        <3> QED
            BY <1>1, <2>1, <3>1 DEF LogInv, Truthful
    <2> QED
        BY <2>1 DEF NotStartedHonest
<1> QED
    BY <1>3, <1>4 DEF CallsAnswered

\* The invariant holds of every state of a session.
LEMMA LoopInvariantHolds ==
    ASSUME EndsDurable
    PROVE  LoopSpec => []LoopInvariant
<1>1. LoopInit => LoopInvariant
    BY InvariantBegins
<1>2. LoopInvariant /\ [LoopNext]_loopVars => LoopInvariant'
    BY InvariantKept
<1> QED
    BY <1>1, <1>2, PTL DEF LoopSpec

\* A turn loop's state is well typed (Loop.Run, RunMessages, executeCalls): above all the
\* counters of the tool phase stay within the calls of the response, whatever order the bodies
\* finish in and whichever append fails, the appends of step/end and turn/end among them.
THEOREM LoopTypeCorrect == LoopSpec => []LoopTypeOK
<1>1. LoopInit => TypeInvariant
    BY InvariantBegins, TypesFollow
<1>2. TypeInvariant /\ [LoopNext]_loopVars => TypeInvariant'
    BY TypesKept
<1>3. TypeInvariant => LoopTypeOK
    BY DEF TypeInvariant
<1> QED
    BY <1>1, <1>2, <1>3, PTL DEF LoopSpec

\* Whenever the process dies, the log it leaves is a balanced prefix with at most a torn last
\* record, so that InterruptedTurnClosers can close it (LoadSession, JSONL.Append), also when
\* it dies during such a repair. The hypothesis is that the appends that close a step and a
\* turn do not fail cleanly: after a turn/end or a step/end
\* that failed and is not durable, the next turn/start is appended to an open turn.
THEOREM RecoverableHolds ==
    ASSUME EndsDurable
    PROVE  LoopSpec => []Recoverable
<1>1. LoopInvariant => Recoverable
    BY InvariantRecovers
<1> QED
    BY <1>1, LoopInvariantHolds, PTL

\* Each call of a closed step is answered once, in the order of the calls, unless the step
\* failed, and a result that says that a body did not run is true, then and later
\* (commitReady, appendAbortedCalls, InterruptedTurnClosers), under the same hypothesis.
THEOREM CallsAnsweredHolds ==
    ASSUME EndsDurable
    PROVE  LoopSpec => []CallsAnswered
<1>1. LoopInvariant => CallsAnswered
    BY InvariantAnswers
<1> QED
    BY <1>1, LoopInvariantHolds, PTL

-----------------------------------------------------------------------------
(* The log implements the history of turns.                                *)

\* The k-th turn as the log shows it.
TurnRecord(log, k) ==
    [status |-> IF OfType(log, "turn/end", k) = {} THEN "open" ELSE log[Min(OfType(log, "turn/end", k))].code,
     steps |-> Cardinality(OfType(log, "step/end", k))]

\* The history, with its records named.
LEMMA TurnsAre ==
    ASSUME NEW log
    PROVE  TurnsOf(log) = [k \in 1 .. TurnStarts(log, Len(log)) |-> TurnRecord(log, k)]
BY DEF TurnsOf, TurnRecord, OfType

\* One step of a history.
TurnIsOpen(a) == a # <<>> /\ a[Len(a)].status = "open"
BeginsIn(a, b) == ~TurnIsOpen(a) /\ b = Append(a, [status |-> "open", steps |-> 0])
StepsIn(a, b) == TurnIsOpen(a) /\ b = [a EXCEPT ![Len(a)].steps = @ + 1]
EndsIn(a, b, status, open) ==
    TurnIsOpen(a) /\ b = [a EXCEPT ![Len(a)] = [status |-> status, steps |-> @.steps + open]]
Follows(a, b) ==
    a = b \/ BeginsIn(a, b) \/ StepsIn(a, b) \/ \E status \in TurnStatuses, open \in {0, 1} : EndsIn(a, b, status, open)

\* It is a step of TurnHistory.
LEMMA FollowsIs ==
    ASSUME Follows(TurnsOf(stored), TurnsOf(stored'))
    PROVE  History!Next \/ TurnsOf(stored)' = TurnsOf(stored)
<1>1. TurnsOf(stored)' = TurnsOf(stored')
    OBVIOUS
<1> QED
    BY <1>1 DEF Follows, BeginsIn, StepsIn, EndsIn, TurnIsOpen, TurnStatuses, History!Next, History!Begin, History!Step,
                History!Finish, History!TurnOpen

\* The history's last turn is open exactly when the log leaves a turn open.
LEMMA OpenInHistory ==
    ASSUME NEW log \in Seq(Events), Marked(log)
    PROVE  /\ TurnStarts(log, Len(log)) \in Nat
           /\ Len(TurnsOf(log)) = TurnStarts(log, Len(log))
           /\ DOMAIN TurnsOf(log) = 1 .. TurnStarts(log, Len(log))
           /\ TurnIsOpen(TurnsOf(log)) <=> Open(log) # "none"
           /\ \A k \in 1 .. TurnStarts(log, Len(log)) : TurnsOf(log)[k] = TurnRecord(log, k)
<1> DEFINE T == TurnStarts(log, Len(log))
           R(k) == TurnRecord(log, k)
           A == [k \in 1 .. T |-> R(k)]
<1>1. T \in Nat
    <2>1. Len(log) \in 0 .. Len(log)
        OBVIOUS
    <2> QED
        BY <2>1, TurnStartsUpTo
<1>2. TurnsOf(log) = A
    BY TurnsAre
<1>3. /\ Open(log) = "none" => T = 0 \/ OfType(log, "turn/end", T) # {}
      /\ Open(log) # "none" => T > 0 /\ OfType(log, "turn/end", T) = {}
    BY DEF Marked
<1>4. R(T).status = "open" <=> OfType(log, "turn/end", T) = {}
    <2>1. R(T).status = IF OfType(log, "turn/end", T) = {} THEN "open" ELSE log[Min(OfType(log, "turn/end", T))].code
        BY DEF TurnRecord
    <2>2. ASSUME OfType(log, "turn/end", T) # {} PROVE log[Min(OfType(log, "turn/end", T))].code # "open"
        <3>1. OfType(log, "turn/end", T) \in SUBSET Nat /\ OfType(log, "turn/end", T) \subseteq DOMAIN log
            BY DEF OfType
        <3>2. Min(OfType(log, "turn/end", T)) \in DOMAIN log
            BY <2>2, <3>1, MinIs
        <3>3. log[Min(OfType(log, "turn/end", T))] \in Events
            BY <3>2
        <3> QED
            BY <3>3 DEF Events, Codes, TurnStatuses
    <2> QED
        BY <2>1, <2>2
<1> HIDE DEF T, R
<1>5. Len(A) = T /\ DOMAIN A = 1 .. T /\ (A # <<>> <=> T # 0) /\ \A k \in 1 .. T : A[k] = R(k)
    BY <1>1
<1> HIDE DEF A
<1>6. TurnIsOpen(A) <=> Open(log) # "none"
    <2>1. CASE T = 0
        BY <1>3, <1>5, <2>1 DEF TurnIsOpen
    <2>2. CASE T # 0
        <3>1. T \in 1 .. T /\ T > 0
            BY <1>1, <2>2
        <3>2. A[Len(A)] = R(T) /\ A # <<>>
            BY <1>5, <2>2, <3>1
        <3> QED
            BY <1>3, <1>4, <2>2, <3>1, <3>2 DEF TurnIsOpen
    <2> QED
        BY <2>1, <2>2
<1> QED
    BY <1>1, <1>2, <1>5, <1>6 DEF T, R

\* A turn whose events stay looks the same.
LEMMA RecordSame ==
    ASSUME NEW L, NEW log \in Seq(Events), NEW k, \A i \in DOMAIN log : L[i] = log[i],
           OfType(L, "turn/end", k) = OfType(log, "turn/end", k)
    PROVE  TurnRecord(L, k).status = TurnRecord(log, k).status
<1> DEFINE E == OfType(log, "turn/end", k)
<1>1. E # {} => Min(E) \in DOMAIN log
    <2>1. E \in SUBSET Nat /\ E \subseteq DOMAIN log
        BY DEF OfType
    <2> HIDE DEF E
    <2> QED
        BY <2>1, MinIs
<1>2. TurnRecord(L, k).status = (IF E = {} THEN "open" ELSE L[Min(E)].code)
    BY DEF TurnRecord
<1>3. TurnRecord(log, k).status = (IF E = {} THEN "open" ELSE log[Min(E)].code)
    BY DEF TurnRecord
<1> HIDE DEF E
<1> QED
    BY <1>1, <1>2, <1>3

\* An event that is no such bracket does not show.
LEMMA RecordIs ==
    ASSUME NEW log, NEW k
    PROVE  TurnRecord(log, k) = [status |-> TurnRecord(log, k).status, steps |-> Cardinality(OfType(log, "step/end", k))]
BY DEF TurnRecord

\* One more event is at most one step of the history.
LEMMA HistoryAppend ==
    ASSUME NEW log \in Seq(Events), NEW e \in Events, Marked(log), Nested(Append(log, e))
    PROVE  LET a == TurnsOf(log)
               b == TurnsOf(Append(log, e))
           IN  /\ e.type \notin {"turn/start", "turn/end", "step/end"} => b = a
               /\ e.type = "turn/start" => BeginsIn(a, b)
               /\ e.type = "step/end" => StepsIn(a, b)
               /\ e.type = "turn/end" => EndsIn(a, b, e.code, 0)
<1> DEFINE L == Append(log, e)
           n == Len(log)
           T == TurnStarts(log, n)
           U == TurnStarts(L, n + 1)
           a == TurnsOf(log)
           b == TurnsOf(L)
           ends(k) == OfType(log, "turn/end", k)
           stepEnds(k) == OfType(log, "step/end", k)
<1>1. Extends(L, log) /\ Len(L) = n + 1 /\ L[n + 1] = e /\ n \in Nat /\ DOMAIN log = 1 .. n
    BY AppendIs
<1>2. T \in Nat /\ (e.type = "turn/start" => U = T + 1) /\ (e.type # "turn/start" => U = T)
    BY TurnStartsAppend
<1>3. \A k : /\ ends(k) \subseteq 1 .. n /\ stepEnds(k) \subseteq 1 .. n
             /\ e.type = "turn/end" /\ U = k => OfType(L, "turn/end", k) = ends(k) \cup {n + 1}
             /\ ~(e.type = "turn/end" /\ U = k) => OfType(L, "turn/end", k) = ends(k)
             /\ e.type = "step/end" /\ U = k => OfType(L, "step/end", k) = stepEnds(k) \cup {n + 1}
             /\ ~(e.type = "step/end" /\ U = k) => OfType(L, "step/end", k) = stepEnds(k)
    <2>1. ASSUME NEW type \in {"turn/end", "step/end"}, NEW k
          PROVE  /\ OfType(log, type, k) \subseteq 1 .. n
                 /\ e.type = type /\ U = k => OfType(L, type, k) = OfType(log, type, k) \cup {n + 1}
                 /\ ~(e.type = type /\ U = k) => OfType(L, type, k) = OfType(log, type, k)
        BY OfTypeAppend
    <2>2. "turn/end" \in {"turn/end", "step/end"} /\ "step/end" \in {"turn/end", "step/end"}
        OBVIOUS
    <2> HIDE DEF L, n, U
    <2> QED
        BY <2>1, <2>2
<1>4. /\ Open(log) # "none" => T > 0 /\ ends(T) = {}
      /\ e.type = "turn/start" => Open(log) = "none"
      /\ e.type = "turn/end" => Open(log) = "turn"
      /\ e.type = "step/end" => Open(log) = "step"
    <2>1. Bracketed(L, n + 1) /\ OpenAt(L, n) = Open(log) /\ (n + 1) - 1 = n
        <3>1. n + 1 \in DOMAIN L /\ n \in 0 .. n /\ Len(log) = n
            BY <1>1
        <3>2. OpenAt(L, n) = OpenAt(log, n)
            BY <1>1, <3>1, PrefixSame
        <3>3. Nested(L)
            OBVIOUS
        <3>4. OpenAt(log, n) = Open(log) /\ (n + 1) - 1 = n
            BY <1>1 DEF Open
        <3> HIDE DEF L, n
        <3>5. Bracketed(L, n + 1)
            BY <3>1, <3>3, NestedIs
        <3> QED
            BY <3>2, <3>4, <3>5
    <2> HIDE DEF L, n, T
    <2> QED
        BY <1>1, <2>1 DEF Marked, Bracketed, n, T
<1>5. /\ Len(a) = T /\ DOMAIN a = 1 .. T /\ (TurnIsOpen(a) <=> Open(log) # "none")
      /\ a = [k \in 1 .. T |-> TurnRecord(log, k)]
    BY OpenInHistory, TurnsAre
<1>6. b = [k \in 1 .. U |-> TurnRecord(L, k)]
    BY <1>1, TurnsAre
<1>7. \A i \in DOMAIN log : L[i] = log[i]
    BY <1>1 DEF Extends
<1>8. ends(T + 1) = {} /\ stepEnds(T + 1) = {}
    <2>1. ASSUME NEW i \in DOMAIN log, TurnStarts(log, i) = T + 1 PROVE FALSE
        <3>1. i \in 0 .. Len(log)
            OBVIOUS
        <3>2. TurnStarts(log, i) <= T /\ TurnStarts(log, i) \in Nat
            BY <3>1, TurnStartsUpTo
        <3> QED
            BY <1>2, <2>1, <3>2
    <2> QED
        BY <2>1 DEF OfType
<1> HIDE DEF L, n, T, U, a, b
\* A turn without such an event.
<1>9. ASSUME NEW k, ~(e.type \in {"turn/end", "step/end"} /\ U = k) PROVE TurnRecord(L, k) = TurnRecord(log, k)
    <2>1. OfType(L, "turn/end", k) = ends(k) /\ OfType(L, "step/end", k) = stepEnds(k)
        BY <1>3, <1>9
    <2>2. TurnRecord(L, k).status = TurnRecord(log, k).status
        BY <1>7, <2>1, RecordSame
    <2> QED
        BY <2>1, <2>2, RecordIs
<1>10. ASSUME e.type \notin {"turn/start", "turn/end", "step/end"} PROVE b = a
    BY <1>2, <1>5, <1>6, <1>9, <1>10
<1>11. ASSUME e.type = "turn/start" PROVE BeginsIn(a, b)
    <2>1. TurnRecord(L, T + 1) = [status |-> "open", steps |-> 0]
        <3>1. OfType(L, "turn/end", T + 1) = {} /\ OfType(L, "step/end", T + 1) = {}
            BY <1>3, <1>8, <1>11
        <3> QED
            BY <3>1, FS_EmptySet DEF TurnRecord
    <2> DEFINE x == [status |-> "open", steps |-> 0]
    <2>2. TurnRecord(L, T + 1) = x
        BY <2>1
    <2> HIDE DEF x
    <2>3. Append(a, x) = [k \in 1 .. T + 1 |-> IF k = T + 1 THEN x ELSE a[k]]
        BY <1>2, <1>5
    <2>4. \A k \in 1 .. T + 1 : k # T + 1 => k \in 1 .. T
        BY <1>2
    <2>5. \A k \in 1 .. T + 1 : TurnRecord(L, k) = IF k = T + 1 THEN x ELSE a[k]
        BY <1>5, <1>9, <1>11, <2>2, <2>4
    <2>6. b = Append(a, x)
        BY <1>2, <1>6, <1>11, <2>3, <2>5
    <2> QED
        BY <1>4, <1>5, <1>11, <2>6 DEF BeginsIn, x
<1>12. ASSUME e.type = "step/end" PROVE StepsIn(a, b)
    <2>1. U = T /\ T \in 1 .. T /\ Open(log) # "none"
        BY <1>2, <1>4, <1>12
    <2>2. Cardinality(stepEnds(T) \cup {n + 1}) = Cardinality(stepEnds(T)) + 1
        <3> DEFINE S == stepEnds(T)
        <3>1. S \subseteq 1 .. n
            BY <1>3
        <3> HIDE DEF S
        <3>2. IsFiniteSet(1 .. n) /\ n + 1 \notin 1 .. n
            BY <1>1, FS_Interval
        <3>3. IsFiniteSet(S) /\ n + 1 \notin S
            BY <3>1, <3>2, FS_Subset
        <3>4. Cardinality(S \cup {n + 1}) = Cardinality(S) + 1
            BY <3>3, FS_AddElement
        <3> QED
            BY <3>4 DEF S
    <2>3. TurnRecord(L, T) = [TurnRecord(log, T) EXCEPT !.steps = @ + 1]
        <3>1. OfType(L, "turn/end", T) = ends(T) /\ OfType(L, "step/end", T) = stepEnds(T) \cup {n + 1}
            BY <1>3, <1>12, <2>1
        <3>2. TurnRecord(L, T).status = TurnRecord(log, T).status
            BY <1>7, <3>1, RecordSame
        <3>3. TurnRecord(L, T) = [status |-> TurnRecord(log, T).status, steps |-> Cardinality(stepEnds(T)) + 1]
            BY <2>2, <3>1, <3>2, RecordIs
        <3>4. TurnRecord(log, T) = [status |-> TurnRecord(log, T).status, steps |-> Cardinality(stepEnds(T))]
            BY RecordIs
        <3> QED
            BY <3>3, <3>4
    <2>4. \A k \in 1 .. T : k # T => TurnRecord(L, k) = TurnRecord(log, k)
        BY <1>9, <2>1
    <2>5. b = [a EXCEPT ![T] = [TurnRecord(log, T) EXCEPT !.steps = @ + 1]]
        BY <1>5, <1>6, <2>1, <2>3, <2>4
    <2>6. a[T] = TurnRecord(log, T)
        BY <1>5, <2>1
    <2>7. b = [a EXCEPT ![Len(a)].steps = @ + 1]
        BY <1>5, <2>5, <2>6
    <2> QED
        BY <1>5, <2>1, <2>7 DEF StepsIn
<1>13. ASSUME e.type = "turn/end" PROVE EndsIn(a, b, e.code, 0)
    <2>1. U = T /\ T \in 1 .. T /\ Open(log) # "none" /\ ends(T) = {}
        BY <1>2, <1>4, <1>13
    <2>2. TurnRecord(L, T) = [status |-> e.code, steps |-> Cardinality(stepEnds(T))]
        <3>1. OfType(L, "turn/end", T) = {n + 1} /\ OfType(L, "step/end", T) = stepEnds(T)
            BY <1>3, <1>13, <2>1
        <3>2. Min({n + 1}) = n + 1
            <4>1. {n + 1} \in SUBSET Nat /\ {n + 1} # {}
                BY <1>1
            <4> QED
                BY <4>1, MinIs
        <3>3. TurnRecord(L, T).status = e.code
            BY <1>1, <3>1, <3>2 DEF TurnRecord
        <3> QED
            BY <3>1, <3>3, RecordIs
    <2>3. \A k \in 1 .. T : k # T => TurnRecord(L, k) = TurnRecord(log, k)
        BY <1>9, <2>1
    <2>4. a[T].steps = Cardinality(stepEnds(T)) /\ a[T].steps \in Nat
        <3> DEFINE S == stepEnds(T)
        <3>1. S \subseteq 1 .. n /\ IsFiniteSet(1 .. n)
            BY <1>1, <1>3, FS_Interval
        <3> HIDE DEF S
        <3>2. Cardinality(S) \in Nat
            BY <3>1, FS_Subset, FS_CardinalityType
        <3>3. a[T] = TurnRecord(log, T)
            BY <1>5, <2>1
        <3>4. a[T].steps = Cardinality(S)
            BY <3>3 DEF TurnRecord, S
        <3> QED
            BY <3>2, <3>4 DEF S
    <2>5. TurnRecord(L, T) = [status |-> e.code, steps |-> a[T].steps + 0]
        BY <2>2, <2>4
    <2>6. b = [a EXCEPT ![T] = [status |-> e.code, steps |-> a[T].steps + 0]]
        BY <1>5, <1>6, <2>1, <2>3, <2>5
    <2>7. b = [a EXCEPT ![Len(a)] = [status |-> e.code, steps |-> @.steps + 0]]
        BY <1>5, <2>6
    <2> QED
        BY <1>5, <2>1, <2>7 DEF EndsIn
<1>14. /\ e.type \notin {"turn/start", "turn/end", "step/end"} => b = a
       /\ e.type = "turn/start" => BeginsIn(a, b)
       /\ e.type = "step/end" => StepsIn(a, b)
       /\ e.type = "turn/end" => EndsIn(a, b, e.code, 0)
    BY <1>10, <1>11, <1>12, <1>13
<1> QED
    BY <1>14 DEF a, b, L

\* A torn record does not show.
LEMMA HistoryTorn ==
    ASSUME NEW log \in Seq(Events)
    PROVE  TurnsOf(Append(log, Torn)) = TurnsOf(log)
<1> DEFINE T == Torn
           L == Append(log, T)
           n == Len(log)
<1>1. T.type = "torn"
    BY DEF Torn, Event
<1>2. Len(L) = n + 1 /\ L[n + 1] = T /\ n \in Nat /\ DOMAIN L = 1 .. n + 1 /\ DOMAIN log = 1 .. n /\ \A i \in 1 .. n : L[i] = log[i]
    OBVIOUS
<1> HIDE DEF T, L, n
<1>3. 1 .. n + 1 = (1 .. n) \cup {n + 1}
    BY <1>2
<1>4. TurnStarts(L, n + 1) = TurnStarts(log, n)
    <2>1. Before(L, n + 1, {"turn/start"}) = Before(log, n, {"turn/start"})
        BY <1>1, <1>2, <1>3 DEF Before
    <2> QED
        BY <2>1 DEF TurnStarts
<1>5. ASSUME NEW type \in {"turn/end", "step/end"}, NEW k PROVE OfType(L, type, k) = OfType(log, type, k)
    <2>1. \A i \in 1 .. n : i \in Nat /\ \A x \in 1 .. i : L[x] = log[x]
        BY <1>2
    <2>2. \A i \in 1 .. n : TurnStarts(L, i) = TurnStarts(log, i)
        BY <2>1, TurnStartsSame
    <2> QED
        BY <1>1, <1>2, <1>3, <2>2 DEF OfType
<1>6. ASSUME NEW k PROVE TurnRecord(L, k) = TurnRecord(log, k)
    <2>1. OfType(L, "turn/end", k) = OfType(log, "turn/end", k) /\ OfType(L, "step/end", k) = OfType(log, "step/end", k)
        BY <1>5
    <2>2. \A i \in DOMAIN log : L[i] = log[i]
        BY <1>2
    <2>3. TurnRecord(L, k).status = TurnRecord(log, k).status
        BY <2>1, <2>2, RecordSame
    <2> QED
        BY <2>1, <2>3, RecordIs
<1>7. TurnsOf(L) = [k \in 1 .. TurnStarts(L, n + 1) |-> TurnRecord(L, k)]
    BY <1>2, TurnsAre
<1>8. TurnsOf(log) = [k \in 1 .. TurnStarts(log, n) |-> TurnRecord(log, k)]
    BY TurnsAre DEF n
<1>9. TurnsOf(L) = TurnsOf(log)
    BY <1>4, <1>6, <1>7, <1>8
<1> QED
    BY <1>9 DEF L, T

\* Two steps of the history that a load takes at once.
LEMMA StepThenEnd ==
    ASSUME NEW a, NEW b, NEW c, NEW status, StepsIn(a, b), EndsIn(b, c, status, 0),
           NEW T \in Nat, Len(a) = T, DOMAIN a = 1 .. T, a = [k \in 1 .. T |-> a[k]],
           NEW s, NEW n \in Nat, a[T] = [status |-> s, steps |-> n]
    PROVE  EndsIn(a, c, status, 1)
<1> DEFINE x == [status |-> s, steps |-> n + 1]
           y == [status |-> status, steps |-> n + 1]
<1>1. T \in 1 .. T
    <2>1. a # <<>>
        BY DEF StepsIn, TurnIsOpen
    <2> QED
        BY <2>1
<1>2. b = [a EXCEPT ![T] = x]
    <2>1. b = [a EXCEPT ![T].steps = @ + 1]
        BY DEF StepsIn
    <2>2. b = [a EXCEPT ![T] = [a[T] EXCEPT !.steps = @ + 1]]
        BY <2>1
    <2>3. [a[T] EXCEPT !.steps = @ + 1] = x
        OBVIOUS
    <2> QED
        BY <2>2, <2>3
<1>3. Len(b) = T /\ DOMAIN b = 1 .. T /\ b[T] = x /\ \A k \in 1 .. T : k # T => b[k] = a[k]
    <2>1. Len(b) = T
        BY <1>2 
    <2> QED
        BY <1>1, <1>2, <2>1
<1>4. c = [b EXCEPT ![T] = y]
    <2>1. c = [b EXCEPT ![T] = [status |-> status, steps |-> b[T].steps + 0]]
        BY <1>3 DEF EndsIn
    <2>2. b[T].steps + 0 = n + 1
        BY <1>3
    <2> QED
        BY <2>1, <2>2
<1>5. c = [a EXCEPT ![T] = y]
    BY <1>2, <1>4
<1>6. y = [status |-> status, steps |-> a[T].steps + 1]
    OBVIOUS
<1>7. c = [a EXCEPT ![Len(a)] = [status |-> status, steps |-> @.steps + 1]]
    BY <1>5, <1>6
<1> QED
    BY <1>7 DEF StepsIn, EndsIn

\* What a load appends closes the last turn, and nothing before the turn's own end shows
\* but the end of its step.
LEMMA ClosersFollow ==
    ASSUME NEW log \in Seq(Events), NEW runs, LogInv(log, runs)
    PROVE  LET C == InterruptedTurnClosers(log)
           IN  /\ C \in Seq(Events)
               /\ \A k \in 0 .. Len(C) : /\ log \o SubSeq(C, 1, k) \in Seq(Events)
                                         /\ Follows(TurnsOf(log), TurnsOf(log \o SubSeq(C, 1, k)))
<1> DEFINE C == InterruptedTurnClosers(log)
           P(k) == log \o SubSeq(C, 1, k)
           a == TurnsOf(log)
           t == log[LastBefore(log, Len(log), {"turn/start"})].turn
           s == log[OpenerOf(log, Len(log))].step
           stepEnd == Event("step/end", t, s, 0, "interrupted")
           turnEnd == Event("turn/end", t, 0, 0, "interrupted")
<1>1. C \in Seq(Events) /\ \A k \in 0 .. Len(C) : LogInv(P(k), runs) /\ P(k) \in Seq(Events)
    BY ClosersKeep
<1>2. P(0) = log /\ \A k \in 0 .. Len(C) - 1 : P(k + 1) = Append(P(k), C[k + 1])
    BY <1>1, PrefixStep
<1>3. Len(C) \in Nat
    BY <1>1
<1> SUFFICES \A k \in 0 .. Len(C) : Follows(a, TurnsOf(P(k)))
    BY <1>1
<1> HIDE DEF a, P
\* Every closer but the brackets leaves the history alone.
<1>4. ASSUME NEW k \in 0 .. Len(C) - 1
      PROVE  /\ k \in 0 .. Len(C) /\ k + 1 \in 0 .. Len(C)
             /\ C[k + 1].type = "result" => TurnsOf(P(k + 1)) = TurnsOf(P(k))
             /\ C[k + 1].type = "step/end" => StepsIn(TurnsOf(P(k)), TurnsOf(P(k + 1)))
             /\ C[k + 1].type = "turn/end" => EndsIn(TurnsOf(P(k)), TurnsOf(P(k + 1)), C[k + 1].code, 0)
    <2>1. k \in 0 .. Len(C) /\ k + 1 \in 0 .. Len(C) /\ k + 1 \in 1 .. Len(C)
        BY <1>3
    <2> DEFINE L == P(k)
               e == C[k + 1]
    <2>2. L \in Seq(Events) /\ Marked(L) /\ e \in Events
        BY <1>1, <2>1 DEF LogInv
    <2>3. P(k + 1) = Append(L, e) /\ Nested(Append(L, e))
        BY <1>1, <1>2, <2>1 DEF LogInv
    <2> HIDE DEF L, e
    <2>4. LET x == TurnsOf(L)
              y == TurnsOf(Append(L, e))
          IN  /\ e.type \notin {"turn/start", "turn/end", "step/end"} => y = x
              /\ e.type = "step/end" => StepsIn(x, y)
              /\ e.type = "turn/end" => EndsIn(x, y, e.code, 0)
        BY <2>2, <2>3, HistoryAppend
    <2> HIDE DEF C
    <2> QED
        BY <2>1, <2>3, <2>4 DEF L, e
<1>5. stepEnd.type = "step/end" /\ turnEnd.type = "turn/end" /\ turnEnd.code = "interrupted"
    BY DEF Event
<1>6. Follows(a, TurnsOf(P(0)))
    BY <1>2 DEF Follows, a
<1>7. CASE Open(log) = "none"
    <2>1. C = <<>>
        BY <1>7, ClosersAre
    <2>2. \A k \in 0 .. Len(<<>>) : k = 0
        OBVIOUS
    <2> HIDE DEF C
    <2> QED
        BY <1>6, <2>1, <2>2
<1>8. CASE Open(log) = "turn"
    <2>1. C = <<turnEnd>>
        BY <1>8, ClosersAre
    <2> HIDE DEF C, turnEnd
    <2>2. Len(C) = 1 /\ C[0 + 1] = turnEnd /\ 0 \in 0 .. Len(C) - 1 /\ 0 + 1 = 1
        BY <2>1
    <2>3. EndsIn(TurnsOf(P(0)), TurnsOf(P(0 + 1)), C[0 + 1].code, 0)
        BY <1>4, <1>5, <2>2
    <2>4. EndsIn(a, TurnsOf(P(1)), "interrupted", 0)
        BY <1>2, <1>5, <2>2, <2>3 DEF a
    <2>5. Follows(a, TurnsOf(P(1)))
        BY <2>4 DEF Follows, TurnStatuses
    <2>6. \A k \in 0 .. 1 : k = 0 \/ k = 1
        OBVIOUS
    <2> QED
        BY <1>6, <2>2, <2>5, <2>6
<1>9. CASE Open(log) = "step"
    <2>1. PICK m \in Nat, N \in Nat :
              /\ m <= N /\ Answers(log, m, N)
              /\ C = AnswersOf(log, m, N) \o <<stepEnd>> \o <<turnEnd>>
        BY <1>9, ClosersAre
    <2> DEFINE r == AnswersOf(log, m, N)
               A == N - m
    <2>2. A \in Nat /\ Len(r) = A /\ DOMAIN r = 1 .. A /\ \A k \in 1 .. A : r[k].type = "result"
        <3>1. A \in Nat
            BY <2>1
        <3> HIDE DEF A
        <3>2. \A w, x, y, z, code : Event("result", w, x, y, code).type = "result"
            BY DEF Event
        <3>3. r = [k \in 1 .. N - m |-> r[k]] /\ \A k \in 1 .. N - m : r[k].type = "result"
            BY <3>2 DEF AnswersOf
        <3> HIDE DEF r
        <3> QED
            BY <3>1, <3>3 DEF A
    <2>3. Len(C) = A + 2 /\ C[A + 1] = stepEnd /\ C[A + 2] = turnEnd /\ \A k \in 1 .. A : C[k] = r[k]
        <3> DEFINE S == {r[k] : k \in 1 .. A} \cup {stepEnd, turnEnd}
        <3>1. r = [k \in 1 .. A |-> r[k]]
            <4>1. r = [k \in 1 .. N - m |-> r[k]]
                BY DEF AnswersOf
            <4> QED
                BY <4>1
        <3> HIDE DEF r, A, stepEnd, turnEnd, C
        <3>2. r \in Seq(S) /\ stepEnd \in S /\ turnEnd \in S
            BY <2>2, <3>1
        <3> HIDE DEF S
        <3> DEFINE D == r \o <<stepEnd>> \o <<turnEnd>>
        <3>3. Len(D) = Len(r) + 2 /\ D[Len(r) + 1] = stepEnd /\ D[Len(r) + 2] = turnEnd /\ \A k \in 1 .. Len(r) : D[k] = r[k]
            <4>1. /\ r \o <<stepEnd>> \in Seq(S) /\ Len(r \o <<stepEnd>>) = Len(r) + 1
                  /\ (r \o <<stepEnd>>)[Len(r) + 1] = stepEnd /\ \A k \in 1 .. Len(r) : (r \o <<stepEnd>>)[k] = r[k]
                BY <3>2
            <4> DEFINE d == r \o <<stepEnd>>
            <4>2. /\ d \in Seq(S) /\ Len(d) = Len(r) + 1 /\ d[Len(r) + 1] = stepEnd /\ \A k \in 1 .. Len(r) : d[k] = r[k]
                BY <4>1
            <4> HIDE DEF d
            <4>3. /\ Len(d \o <<turnEnd>>) = Len(d) + 1 /\ (d \o <<turnEnd>>)[Len(d) + 1] = turnEnd
                  /\ \A k \in 1 .. Len(d) : (d \o <<turnEnd>>)[k] = d[k]
                BY <3>2, <4>2
            <4>4. D = d \o <<turnEnd>>
                BY DEF d
            <4>5. Len(r) \in Nat
                BY <2>2
            <4> HIDE DEF D
            <4> QED
                BY <4>2, <4>3, <4>4, <4>5
        <3> HIDE DEF D
        <3>4. C = D
            BY <2>1 DEF D, r
        <3> QED
            BY <2>2, <3>3, <3>4
    <2> HIDE DEF C, r, A, stepEnd, turnEnd
    <2> DEFINE S == {k \in 0 .. A : TurnsOf(P(k)) = a}
    <2>4. \A k \in 0 .. A : k \in S
        <3>1. 0 \in S
            BY <1>2, <2>2 DEF a
        <3>2. ASSUME NEW k \in 0 .. A - 1, k \in S PROVE k + 1 \in S
            <4>1. k \in 0 .. Len(C) - 1 /\ k + 1 \in 1 .. A /\ k + 1 \in 0 .. A
                BY <2>2, <2>3
            <4>2. C[k + 1].type = "result"
                BY <2>2, <2>3, <4>1
            <4> QED
                BY <1>4, <3>2, <4>1, <4>2
        <3> HIDE DEF S
        <3> QED
            BY <2>2, <3>1, <3>2, UpTo
    <2>5. TurnsOf(P(A)) = a
        <3>1. A \in 0 .. A
            BY <2>2
        <3> QED
            BY <2>4, <3>1
    <2>6. A \in 0 .. Len(C) - 1 /\ A + 1 \in 0 .. Len(C) - 1 /\ (A + 1) + 1 = A + 2
        BY <2>2, <2>3
    <2>7. StepsIn(a, TurnsOf(P(A + 1)))
        BY <1>4, <1>5, <2>3, <2>5, <2>6
    <2>8. EndsIn(TurnsOf(P(A + 1)), TurnsOf(P(A + 2)), "interrupted", 0)
        <3>1. EndsIn(TurnsOf(P(A + 1)), TurnsOf(P((A + 1) + 1)), C[(A + 1) + 1].code, 0)
            BY <1>4, <1>5, <2>3, <2>6
        <3> QED
            BY <1>5, <2>3, <2>6, <3>1
    <2>9. EndsIn(a, TurnsOf(P(A + 2)), "interrupted", 1)
        <3> DEFINE T == TurnStarts(log, Len(log))
                   c == Cardinality(OfType(log, "step/end", T))
        <3>1. /\ T \in Nat /\ Len(a) = T /\ DOMAIN a = 1 .. T /\ (TurnIsOpen(a) <=> Open(log) # "none")
              /\ \A k \in 1 .. T : a[k] = TurnRecord(log, k)
            BY OpenInHistory DEF LogInv, a
        <3>2. a = [k \in 1 .. T |-> a[k]]
            <4>1. a = [k \in 1 .. T |-> TurnRecord(log, k)]
                BY TurnsAre DEF a
            <4> HIDE DEF T, a
            <4> QED
                BY <4>1
        <3>3. c \in Nat
            <4>1. OfType(log, "step/end", T) \subseteq 1 .. Len(log) /\ IsFiniteSet(1 .. Len(log))
                <5>1. Len(log) \in Nat /\ DOMAIN log = 1 .. Len(log)
                    OBVIOUS
                <5> QED
                    BY <5>1, FS_Interval DEF OfType
            <4> QED
                BY <4>1, FS_Subset, FS_CardinalityType
        <3>4. a # <<>>
            BY <1>9, <3>1 DEF TurnIsOpen
        <3> HIDE DEF T
        <3>5. T \in 1 .. T
            <4>1. T # 0
                BY <3>1, <3>2, <3>4
            <4> QED
                BY <3>1, <4>1
        <3>6. a[T] = [status |-> TurnRecord(log, T).status, steps |-> c]
            BY <3>1, <3>5, RecordIs
        <3> HIDE DEF c
        <3> QED
            BY <2>7, <2>8, <3>1, <3>2, <3>3, <3>6, StepThenEnd
    <2>10. Follows(a, TurnsOf(P(A + 1))) /\ Follows(a, TurnsOf(P(A + 2)))
        BY <2>7, <2>9 DEF Follows, TurnStatuses
    <2>11. \A k \in 0 .. Len(C) : k \in 0 .. A \/ k = A + 1 \/ k = A + 2
        BY <2>2, <2>3
    <2>12. \A k \in 0 .. A : Follows(a, TurnsOf(P(k)))
        BY <2>4 DEF Follows
    <2> QED
        BY <2>10, <2>11, <2>12
<1>10. Open(log) \in {"none", "turn", "step"}
    BY OpenKinds
<1> QED
    BY <1>7, <1>8, <1>9, <1>10

\* An event that fits is at most one step of the history.
LEMMA AppendFollows ==
    ASSUME NEW log \in Seq(Events), NEW e \in Events, NEW runs, Marked(log), Nested(Append(log, e)),
           e.type = "turn/end" => e.code \in TurnStatuses
    PROVE  Follows(TurnsOf(log), TurnsOf(Append(log, e)))
<1> DEFINE a == TurnsOf(log)
           b == TurnsOf(Append(log, e))
<1>1. /\ e.type \notin {"turn/start", "turn/end", "step/end"} => b = a
      /\ e.type = "turn/start" => BeginsIn(a, b)
      /\ e.type = "step/end" => StepsIn(a, b)
      /\ e.type = "turn/end" => EndsIn(a, b, e.code, 0)
    BY HistoryAppend
<1> HIDE DEF a, b
<1>2. Follows(a, b)
    BY <1>1 DEF Follows
<1> QED
    BY <1>2 DEF a, b

\* A turn ends with one of the statuses of a turn.
LEMMA DueStatus ==
    ASSUME NEW e, Due(e), e.type = "turn/end"
    PROVE  e.code \in TurnStatuses
<1>1. \A type, t, s, n, code : Event(type, t, s, n, code).type = type /\ Event(type, t, s, n, code).code = code
    BY EventIs
<1>2. ~\E n : e = CallEvent(n)
    <2>1. \A n : CallEvent(n).type = "call"
        BY DEF CallEvent, Event
    <2> QED
        BY <2>1
<1>3. ~\E n, code : e = ResultEvent(n, code)
    BY <1>1 DEF ResultEvent
<1>4. \A t, s, n, code : /\ e # Event("turn/start", t, s, n, code) /\ e # Event("step/start", t, s, n, code)
                         /\ e # Event("assistant", t, s, n, code) /\ e # Event("step/end", t, s, n, code)
    BY <1>1
<1>5. \E code \in TurnStatuses : e = Event("turn/end", turn, 0, 0, code)
    BY <1>2, <1>3, <1>4 DEF Due
<1> QED
    BY <1>1, <1>5

\* What the loop writes is at most one step of the history.
LEMMA LoopFollows ==
    ASSUME LoopInvariant, Keeps
    PROVE  Follows(TurnsOf(stored), TurnsOf(stored'))
<1>1. ASSUME NEW e, Live, Due(e), stored' = Append(stored, e)
      PROVE  Follows(TurnsOf(stored), TurnsOf(stored'))
    <2>1. stored \in Seq(Events) /\ LogInv(stored, ran)
        BY <1>1, LiveLog DEF LoopInvariant, Live
    <2>2. Fits(stored, e, ran)
        BY <1>1, DueFits
    <2>3. LogInv(Append(stored, e), ran)
        BY <2>1, <2>2, LogAppend
    <2>4. Marked(stored) /\ Nested(Append(stored, e)) /\ e \in Events
        BY <2>1, <2>2, <2>3 DEF LogInv, Fits
    <2>5. e.type = "turn/end" => e.code \in TurnStatuses
        BY <1>1, DueStatus
    <2> QED
        BY <1>1, <2>1, <2>4, <2>5, AppendFollows
<1>2. CASE Keeping
    BY <1>2 DEF Keeping, Follows
<1>3. CASE \E e : Writing(e)
    BY <1>1, <1>3 DEF Writing
<1>4. CASE \E n : Starting(n)
    <2>1. PICK n : Starting(n)
        BY <1>4
    <2>2. Due(CallEvent(n)) /\ Live /\ stored' = Append(stored, CallEvent(n))
        <3>1. n \in Nat
            BY <2>1 DEF Starting
        <3> QED
            BY <2>1, <3>1 DEF Starting, Due
    <2> QED
        BY <1>1, <2>2
<1> QED
    BY <1>2, <1>3, <1>4 DEF Keeps

\* A torn record does not show behind a log, and neither does it after a crash.
LEMMA CompleteSame ==
    ASSUME StoredInv
    PROVE  /\ Complete(stored) \in Seq(Events) /\ LogInv(Complete(stored), ran)
           /\ TurnsOf(stored) = TurnsOf(Complete(stored))
<1>1. PICK log \in Seq(Events) : LogInv(log, ran) /\ (stored = log \/ (at = "down" /\ stored = Append(log, Torn)))
    BY DEF StoredInv
<1>2. Complete(stored) = log
    BY <1>1, CompleteIs
<1>3. TurnsOf(stored) = TurnsOf(log)
    BY <1>1, HistoryTorn
<1> QED
    BY <1>1, <1>2, <1>3

\* So is what a load and a recovery write, and a crash changes nothing.
LEMMA RestartFollows ==
    ASSUME LoopInvariant, Load \/ Crash \/ Recover
    PROVE  Follows(TurnsOf(stored), TurnsOf(stored'))
<1> DEFINE base == Complete(stored)
           C == InterruptedTurnClosers(base)
<1>1. base \in Seq(Events) /\ LogInv(base, ran) /\ TurnsOf(stored) = TurnsOf(base)
    BY CompleteSame DEF LoopInvariant
<1>2. ASSUME NEW k \in 0 .. Len(C), stored' = base \o SubSeq(C, 1, k) \/ stored' = base \o SubSeq(C, 1, k) \o <<Torn>>
      PROVE  Follows(TurnsOf(stored), TurnsOf(stored'))
    <2> DEFINE P == base \o SubSeq(C, 1, k)
    <2>1. P \in Seq(Events) /\ Follows(TurnsOf(base), TurnsOf(P))
        BY <1>1, <1>2, ClosersFollow
    <2>2. stored' = P \/ stored' = P \o <<Torn>>
        BY <1>2
    <2> HIDE DEF P, base
    <2>3. P \o <<Torn>> = Append(P, Torn)
        BY <2>1
    <2>4. TurnsOf(Append(P, Torn)) = TurnsOf(P)
        BY <2>1, HistoryTorn
    <2>5. TurnsOf(stored') = TurnsOf(P)
        BY <2>2, <2>3, <2>4
    <2> QED
        BY <1>1, <2>1, <2>5
<1>3. Len(C) \in 0 .. Len(C) /\ base \o SubSeq(C, 1, Len(C)) = base \o C
    <2>1. C \in Seq(Events)
        BY <1>1, ClosersFollow
    <2> HIDE DEF C, base
    <2> QED
        BY <1>1, <2>1, PrefixStep
<1>4. CASE Load
    <2>1. Complete(stored) = stored
        <3>1. Alive
            BY <1>4 DEF Load, Alive
        <3> QED
            BY <3>1, LiveLog DEF LoopInvariant
    <2>2. stored' = base \o C
        BY <1>4, <2>1 DEF Load
    <2> HIDE DEF C, base
    <2> QED
        BY <1>2, <1>3, <2>2
<1>5. CASE Crash
    <2>1. Alive /\ (stored' = stored \/ stored' = Append(stored, Torn))
        BY <1>5 DEF Crash, Alive
    <2>2. stored \in Seq(Events)
        BY <2>1, LiveLog DEF LoopInvariant
    <2>3. TurnsOf(Append(stored, Torn)) = TurnsOf(stored)
        BY <2>2, HistoryTorn
    <2> QED
        BY <2>1, <2>3 DEF Follows
<1>6. CASE Recover
    <2>1. stored' = base \o C \/ \E k \in 0 .. Len(C) : stored' = base \o SubSeq(C, 1, k) \o <<Torn>>
        BY <1>6 DEF Recover
    <2> HIDE DEF C, base
    <2> QED
        BY <1>2, <1>3, <2>1
<1> QED
    BY <1>4, <1>5, <1>6

\* Every step of the loop is a step of the history or leaves it alone.
LEMMA NextFollows ==
    ASSUME LoopInvariant, [LoopNext]_loopVars
    PROVE  [History!Next]_(TurnsOf(stored))
<1>1. CASE LoopNext
    <2>1. Follows(TurnsOf(stored), TurnsOf(stored'))
        BY <1>1, LoopKeeps, LoopFollows, RestartFollows DEF LoopNext
    <2> QED
        BY <2>1, FollowsIs
<1>2. CASE UNCHANGED loopVars
    <2>1. stored' = stored
        BY <1>2 DEF loopVars, logVars
    <2> QED
        BY <2>1
<1> QED
    BY <1>1, <1>2

\* The log of a session is a history of turns: they come one after the other, an open turn
\* only gains steps, it ends once, and no crash, failed append, cancellation or recovery
\* changes what has ended (Loop.RunMessages, ValidateLifecycle, InterruptedTurnClosers),
\* as long as the appends that close a step and a turn do not fail cleanly.
THEOREM ImplementsTurnHistoryHolds ==
    ASSUME EndsDurable
    PROVE  LoopSpec => ImplementsTurnHistory
<1>1. LoopInit => History!Init
    <2>1. ASSUME LoopInit PROVE TurnsOf(stored) = <<>>
        <3>1. stored = <<>> /\ Len(<<>>) = 0
            BY <2>1 DEF LoopInit
        <3>2. Before(<<>>, 0, {"turn/start"}) = {}
            BY DEF Before
        <3>3. TurnStarts(<<>>, 0) = 0
            BY <3>2, FS_EmptySet DEF TurnStarts
        <3>4. TurnsOf(stored) = [k \in 1 .. 0 |-> TurnRecord(stored, k)]
            BY <3>1, <3>3, TurnsAre
        <3> QED
            BY <3>4
    <2> QED
        BY <2>1 DEF History!Init
<1>2. LoopInvariant /\ [LoopNext]_loopVars => [History!Next]_(TurnsOf(stored))
    BY NextFollows
<1> QED
    BY <1>1, <1>2, LoopInvariantHolds, PTL DEF LoopSpec, ImplementsTurnHistory, History!Spec
=============================================================================
