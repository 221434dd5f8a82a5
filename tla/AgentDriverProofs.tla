-------------------------- MODULE AgentDriverProofs --------------------------
(***************************************************************************)
(* Proofs about AgentDriver, for any number of callers of every kind and   *)
(* any number of failing commits.                                          *)
(***************************************************************************)
EXTENDS AgentDriver, TLAPS

USE DEF Procs, Messages, lifecycle, turnVars, maintVars, inboxVars, runVars, history,
        Goto, Return, JournalFails

\* No step turns a flag into anything but a flag.
LEMMA NextFlags == FlagsType /\ [Next]_vars => FlagsType'
<1> SUFFICES ASSUME FlagsType, [Next]_vars PROVE FlagsType'
    OBVIOUS
<1> USE DEF FlagsType
<1>1. CASE DriverGate  BY <1>1 DEF DriverGate
<1>2. CASE DriverBarrier  BY <1>2 DEF DriverBarrier
<1>3. CASE DriverClaim  BY <1>3 DEF DriverClaim
<1>4. CASE DriverNoClaim  BY <1>4 DEF DriverNoClaim
<1>5. CASE DriverBarrier2  BY <1>5 DEF DriverBarrier2
<1>6. CASE DriverWait  BY <1>6 DEF DriverWait
<1>7. CASE DriverBegin  BY <1>7 DEF DriverBegin
<1>8. CASE Settle  BY <1>8 DEF Settle, DriverSettle, completeWaitersLocked, Answer, WaitersOf
<1>9. CASE DriverLoop  BY <1>9 DEF DriverLoop
<1>10. CASE DriverExit  BY <1>10 DEF DriverExit, TakeWaiters, WaitersOf
<1>11. CASE DriverRelease  BY <1>11 DEF DriverRelease, Release, Answer
<1>12. CASE DriverDispose  BY <1>12 DEF DriverDispose
<1>13. CASE RunnerClaimStep  BY <1>13 DEF RunnerClaimStep, TakeStepInput
<1>14. CASE RunnerClaimSteer  BY <1>14 DEF RunnerClaimSteer, TakeStepInput
<1>15. CASE Start  BY <1>15 DEF Start
<1>16. CASE ParentCancel  BY <1>16 DEF ParentCancel
<1>17. ASSUME NEW r \in Runs, RunBegin(r) PROVE FlagsType'
    BY <1>17 DEF RunBegin
<1>18. ASSUME NEW r \in Runs, RunStart(r) PROVE FlagsType'
    BY <1>18 DEF RunStart
<1>19. ASSUME NEW r \in Runs, RunSubmit(r) PROVE FlagsType'
    BY <1>19 DEF RunSubmit, WakeAfter
<1>20. ASSUME NEW r \in Runs, RunReceive(r) PROVE FlagsType'
    BY <1>20 DEF RunReceive
<1>21. ASSUME NEW r \in Runs, RunAbandon(r) PROVE FlagsType'
    BY <1>21 DEF RunAbandon
<1>22. ASSUME NEW r \in Runs, RunForget(r) PROVE FlagsType'
    BY <1>22 DEF RunForget
<1>23. ASSUME NEW r \in Runs, RunContextDone(r) PROVE FlagsType'
    BY <1>23 DEF RunContextDone
<1>24. ASSUME NEW p \in Runs \cup Cancellers, CancelGrab(p) PROVE FlagsType'
    BY <1>24 DEF CancelGrab
<1>25. ASSUME NEW p \in Runs \cup Cancellers, CancelUnsteer(p) PROVE FlagsType'
    BY <1>25 DEF CancelUnsteer
<1>26. ASSUME NEW p \in Runs \cup Cancellers, CancelClear(p) PROVE FlagsType'
    BY <1>26 DEF CancelClear
<1>27. ASSUME NEW p \in Runs \cup Cancellers \cup Senders, CancelAbort(p) PROVE FlagsType'
    BY <1>27 DEF CancelAbort
<1>28. ASSUME NEW s \in Senders, Send(s) PROVE FlagsType'
    BY <1>28 DEF Send
<1>29. ASSUME NEW s \in Senders, Steer(s) PROVE FlagsType'
    BY <1>29 DEF Steer
<1>30. ASSUME NEW m \in Maintainers, MaintBegin(m) PROVE FlagsType'
    BY <1>30 DEF MaintBegin
<1>31. ASSUME NEW m \in Maintainers, MaintDone(m) PROVE FlagsType'
    BY <1>31 DEF MaintDone
<1>32. ASSUME NEW m \in Maintainers, MaintClear(m) PROVE FlagsType'
    BY <1>32 DEF MaintClear
<1>33. ASSUME NEW w \in Idlers, IdleSnapshot(w) PROVE FlagsType'
    BY <1>33 DEF IdleSnapshot
<1>34. ASSUME NEW w \in Idlers, IdleCheck(w) PROVE FlagsType'
    BY <1>34 DEF IdleCheck
<1>35. ASSUME NEW c \in Closers, CloseBegin(c) PROVE FlagsType'
    BY <1>35 DEF CloseBegin, CancelDriver, TakeWaiters, WaitersOf, CloseRoute
<1>36. ASSUME NEW c \in Closers, CloseRelease(c) PROVE FlagsType'
    BY <1>36 DEF CloseRelease, Release, Answer
<1>37. ASSUME NEW c \in Closers, CloseAwait(c) PROVE FlagsType'
    BY <1>37 DEF CloseAwait
<1>38. ASSUME NEW c \in Closers, CloseMark(c) PROVE FlagsType'
    BY <1>38 DEF CloseMark
<1>39. ASSUME NEW c \in Closers, CloseDispose(c) PROVE FlagsType'
    BY <1>39 DEF CloseDispose
<1>40. CASE UNCHANGED vars  BY <1>40 DEF vars
<1> QED
    BY <1>1, <1>2, <1>3, <1>4, <1>5, <1>6, <1>7, <1>8, <1>9, <1>10, <1>11, <1>12, <1>13,
       <1>14, <1>15, <1>16, <1>17, <1>18, <1>19, <1>20, <1>21, <1>22, <1>23, <1>24,
       <1>25, <1>26, <1>27, <1>28, <1>29, <1>30, <1>31, <1>32, <1>33, <1>34, <1>35,
       <1>36, <1>37, <1>38, <1>39, <1>40
    DEF Next, DriverStep, RunStep, CancelStep, MaintStep, CloseStep

\* Every step keeps the types of the other variables.
LEMMA NextData == DataType /\ [Next]_vars => DataType'
<1> SUFFICES ASSUME DataType, [Next]_vars PROVE DataType'
    OBVIOUS
<1> USE ActorsAssumption, FaultsAssumption DEF DataType, Labels, DriverLabels, Outcomes
<1>1. CASE DriverGate  BY <1>1 DEF DriverGate
<1>2. CASE DriverBarrier  BY <1>2 DEF DriverBarrier
<1>3. CASE DriverClaim  BY <1>3 DEF DriverClaim
<1>4. CASE DriverNoClaim  BY <1>4 DEF DriverNoClaim
<1>5. CASE DriverBarrier2  BY <1>5 DEF DriverBarrier2
<1>6. CASE DriverWait  BY <1>6 DEF DriverWait
<1>7. CASE DriverBegin  BY <1>7 DEF DriverBegin
<1>8. CASE Settle
    <2>1. PICK err \in {"ok", "failed", "canceled"} : DriverSettle(err)
        BY <1>8 DEF Settle
    <2> QED
        BY <2>1 DEF DriverSettle, completeWaitersLocked, Answer, WaitersOf
<1>9. CASE DriverLoop  BY <1>9 DEF DriverLoop
<1>10. CASE DriverExit  BY <1>10 DEF DriverExit, TakeWaiters, WaitersOf
<1>11. CASE DriverRelease  BY <1>11 DEF DriverRelease, Release, Answer
<1>12. CASE DriverDispose  BY <1>12 DEF DriverDispose
<1>13. CASE RunnerClaimStep  BY <1>13 DEF RunnerClaimStep, TakeStepInput
<1>14. CASE RunnerClaimSteer  BY <1>14 DEF RunnerClaimSteer, TakeStepInput
<1>15. CASE Start  BY <1>15 DEF Start
<1>16. CASE ParentCancel  BY <1>16 DEF ParentCancel
<1>17. ASSUME NEW r \in Runs, RunBegin(r) PROVE DataType'
    BY <1>17 DEF RunBegin
<1>18. ASSUME NEW r \in Runs, RunStart(r) PROVE DataType'
    BY <1>18 DEF RunStart
<1>19. ASSUME NEW r \in Runs, RunSubmit(r) PROVE DataType'
    <2>1. Submitted(r) \in Runs
        BY DEF Submitted
    <2>2. pc' \in [Procs -> Labels] /\ pc'[Driver] \in DriverLabels
        BY <1>19 DEF RunSubmit
    <2>3. waiters' \in [Messages -> Runs \cup {None}] /\ msg' \in [Runs -> Runs \cup {None}]
        BY <1>19, <2>1 DEF RunSubmit
    <2>4. queued' \subseteq Messages /\ faults' \in 0 .. MaxFaults
        BY <1>19, <2>1 DEF RunSubmit
    <2>5. result' \in [Runs -> Outcomes]
        BY <1>19 DEF RunSubmit
    <2>6. UNCHANGED <<status, turn, turnCancel, cancelled, maintenance, maintDone, maintCancelled,
                      input, seenMaint, seenTurn, taken, reply, answers, turnOf, ran, idleSeen>>
        BY <1>19 DEF RunSubmit
    <2> QED
        BY <2>2, <2>3, <2>4, <2>5, <2>6
<1>20. ASSUME NEW r \in Runs, RunReceive(r) PROVE DataType'
    BY <1>20 DEF RunReceive
<1>21. ASSUME NEW r \in Runs, RunAbandon(r) PROVE DataType'
    BY <1>21 DEF RunAbandon
<1>22. ASSUME NEW r \in Runs, RunForget(r) PROVE DataType'
    BY <1>22 DEF RunForget
<1>23. ASSUME NEW r \in Runs, RunContextDone(r) PROVE DataType'
    BY <1>23 DEF RunContextDone
<1>24. ASSUME NEW p \in Runs \cup Cancellers, CancelGrab(p) PROVE DataType'
    BY <1>24 DEF CancelGrab
<1>25. ASSUME NEW p \in Runs \cup Cancellers, CancelUnsteer(p) PROVE DataType'
    BY <1>25 DEF CancelUnsteer
<1>26. ASSUME NEW p \in Runs \cup Cancellers, CancelClear(p) PROVE DataType'
    BY <1>26 DEF CancelClear
<1>27. ASSUME NEW p \in Runs \cup Cancellers \cup Senders, CancelAbort(p) PROVE DataType'
    <2>1. p \in Procs /\ p # Driver
        OBVIOUS
    <2>2. cancelled' \subseteq Nat
        <3>1. cancelled' = cancelled \cup ({seenTurn[p]} \ {0}) /\ seenTurn[p] \in Nat
            BY <1>27, <2>1 DEF CancelAbort
        <3> QED
            BY <3>1
    <2>3. maintCancelled' \subseteq Maintainers
        BY <1>27, <2>1 DEF CancelAbort
    <2>4. pc' \in [Procs -> Labels] /\ pc'[Driver] \in DriverLabels
        BY <1>27, <2>1 DEF CancelAbort
    <2>5. result' \in [Runs -> Outcomes]
        BY <1>27 DEF CancelAbort
    <2>6. UNCHANGED <<status, turn, turnCancel, maintenance, maintDone, waiters, queued, input,
                      seenMaint, seenTurn, taken, msg, reply, answers, faults, turnOf, ran, idleSeen>>
        BY <1>27 DEF CancelAbort
    <2> QED
        BY <2>2, <2>3, <2>4, <2>5, <2>6
<1>28. ASSUME NEW s \in Senders, Send(s) PROVE DataType'
    BY <1>28 DEF Send
<1>29. ASSUME NEW s \in Senders, Steer(s) PROVE DataType'
    BY <1>29 DEF Steer
<1>30. ASSUME NEW m \in Maintainers, MaintBegin(m) PROVE DataType'
    BY <1>30 DEF MaintBegin
<1>31. ASSUME NEW m \in Maintainers, MaintDone(m) PROVE DataType'
    BY <1>31 DEF MaintDone
<1>32. ASSUME NEW m \in Maintainers, MaintClear(m) PROVE DataType'
    BY <1>32 DEF MaintClear
<1>33. ASSUME NEW w \in Idlers, IdleSnapshot(w) PROVE DataType'
    BY <1>33 DEF IdleSnapshot
<1>34. ASSUME NEW w \in Idlers, IdleCheck(w) PROVE DataType'
    BY <1>34 DEF IdleCheck
<1>35. ASSUME NEW c \in Closers, CloseBegin(c) PROVE DataType'
    <2>1. WaitersOf(Messages) \subseteq Runs
        BY DEF WaitersOf
    <2>2. pc' \in [Procs -> Labels] /\ pc'[Driver] \in DriverLabels
        BY <1>35 DEF CloseBegin, CloseRoute
    <2>3. status' \in {"idle", "running", "closed"}
        BY <1>35 DEF CloseBegin
    <2>8. cancelled' \subseteq Nat
        <3>1. CASE cancelled' = cancelled
            BY <3>1
        <3>2. CASE cancelled' = cancelled \cup ({turnCancel} \ {0})
            BY <3>2
        <3> QED
            BY <1>35, <3>1, <3>2, Zenon DEF CloseBegin
    <2>4. seenMaint' \in [Procs -> Maintainers \cup {None}]
        BY <1>35 DEF CloseBegin
    <2>5. taken' \in [Procs -> SUBSET Runs]
        <3>1. taken' = taken \/ taken' = [taken EXCEPT ![c] = WaitersOf(Messages)]
            BY <1>35 DEF CloseBegin, TakeWaiters
        <3>2. taken \in [Procs -> SUBSET Runs]
            OBVIOUS
        <3>3. \A S \in SUBSET Runs : [taken EXCEPT ![c] = S] \in [Procs -> SUBSET Runs]
            BY <3>2
        <3> DEFINE W == WaitersOf(Messages)
        <3>4. W \in SUBSET Runs
            BY <2>1
        <3>5. taken' = taken \/ taken' = [taken EXCEPT ![c] = W]
            BY <3>1
        <3> HIDE DEF W
        <3>6. [taken EXCEPT ![c] = W] \in [Procs -> SUBSET Runs]
            BY <3>3, <3>4
        <3> QED
            BY <3>2, <3>5, <3>6, Zenon
    <2>6. waiters' \in [Messages -> Runs \cup {None}]
        BY <1>35 DEF CloseBegin, TakeWaiters
    <2>7. UNCHANGED <<turn, turnCancel, maintenance, maintDone, maintCancelled, queued, input,
                      seenTurn, msg, reply, answers, result, faults, turnOf, ran, idleSeen>>
        BY <1>35 DEF CloseBegin
    <2> QED
        BY <2>2, <2>3, <2>4, <2>5, <2>6, <2>7, <2>8
<1>36. ASSUME NEW c \in Closers, CloseRelease(c) PROVE DataType'
    BY <1>36 DEF CloseRelease, Release, Answer
<1>37. ASSUME NEW c \in Closers, CloseAwait(c) PROVE DataType'
    BY <1>37 DEF CloseAwait
<1>38. ASSUME NEW c \in Closers, CloseMark(c) PROVE DataType'
    BY <1>38 DEF CloseMark
<1>39. ASSUME NEW c \in Closers, CloseDispose(c) PROVE DataType'
    BY <1>39 DEF CloseDispose
<1>40. CASE UNCHANGED vars  BY <1>40 DEF vars
<1> QED
    BY <1>1, <1>2, <1>3, <1>4, <1>5, <1>6, <1>7, <1>8, <1>9, <1>10, <1>11, <1>12, <1>13,
       <1>14, <1>15, <1>16, <1>17, <1>18, <1>19, <1>20, <1>21, <1>22, <1>23, <1>24,
       <1>25, <1>26, <1>27, <1>28, <1>29, <1>30, <1>31, <1>32, <1>33, <1>34, <1>35,
       <1>36, <1>37, <1>38, <1>39, <1>40
    DEF Next, DriverStep, RunStep, CancelStep, MaintStep, CloseStep

\* A new Agent is well typed: no driver, an open gate, nobody waiting.
LEMMA InitTypeOK == Init => TypeOK
<1> SUFFICES ASSUME Init PROVE TypeOK
    OBVIOUS
<1> USE ActorsAssumption, FaultsAssumption DEF Init
<1>1. FlagsType
    BY DEF FlagsType
<1>2. pc \in [Procs -> Labels] /\ pc[Driver] \in DriverLabels
    BY DEF Labels, DriverLabels
<1>3. /\ waiters \in [Messages -> Runs \cup {None}] /\ taken \in [Procs -> SUBSET Runs]
      /\ seenMaint \in [Procs -> Maintainers \cup {None}] /\ seenTurn \in [Procs -> Nat]
      /\ msg \in [Runs -> Runs \cup {None}] /\ turnOf \in [Messages -> Nat]
    OBVIOUS
<1>4. reply \in [Runs -> Outcomes] /\ result \in [Runs -> Outcomes]
    BY DEF Outcomes
<1>5. /\ status \in {"idle", "running", "closed"} /\ turn \in Nat /\ turnCancel \in Nat
      /\ cancelled \subseteq Nat /\ maintenance \in Maintainers \cup {None}
      /\ maintDone \subseteq Maintainers /\ maintCancelled \subseteq Maintainers
      /\ queued \subseteq Messages /\ input \subseteq Messages /\ faults \in 0 .. MaxFaults
      /\ ran \subseteq Messages /\ idleSeen \subseteq Idlers
    OBVIOUS
<1>6. DataType
    BY <1>2, <1>3, <1>4, <1>5 DEF DataType
<1> QED
    BY <1>1, <1>6 DEF TypeOK

\* The variables of the Agent keep their types under any interleaving of its
\* callers, and the driver never leaves its loop.
THEOREM TypeCorrect == Spec => []TypeOK
<1>1. TypeOK /\ [Next]_vars => TypeOK'
    BY NextFlags, NextData DEF TypeOK
<1> QED
    BY InitTypeOK, <1>1, PTL DEF Spec

\* Admission, completion and clearing keep one owner of the maintenance phase,
\* and no other caller touches it.
LEMMA NextMaintOwner == TypeOK /\ MaintOwner /\ [Next]_vars => MaintOwner'
<1> SUFFICES ASSUME TypeOK, MaintOwner, [Next]_vars PROVE MaintOwner'
    OBVIOUS
<1>0. pc \in [Procs -> Labels] /\ maintenance \in Maintainers \cup {None}
    BY DEF TypeOK, DataType
<1> USE ActorsAssumption, <1>0 DEF MaintOwner
<1>1. CASE DriverGate  BY <1>1 DEF DriverGate
<1>2. CASE DriverBarrier  BY <1>2 DEF DriverBarrier
<1>3. CASE DriverClaim  BY <1>3 DEF DriverClaim
<1>4. CASE DriverNoClaim  BY <1>4 DEF DriverNoClaim
<1>5. CASE DriverBarrier2  BY <1>5 DEF DriverBarrier2
<1>6. CASE DriverWait  BY <1>6 DEF DriverWait
<1>7. CASE DriverBegin  BY <1>7 DEF DriverBegin
<1>8. CASE Settle  BY <1>8 DEF Settle, DriverSettle, completeWaitersLocked, Answer, WaitersOf
<1>9. CASE DriverLoop  BY <1>9 DEF DriverLoop
<1>10. CASE DriverExit  BY <1>10 DEF DriverExit, TakeWaiters, WaitersOf
<1>11. CASE DriverRelease  BY <1>11 DEF DriverRelease, Release, Answer
<1>12. CASE DriverDispose  BY <1>12 DEF DriverDispose
<1>13. CASE RunnerClaimStep  BY <1>13 DEF RunnerClaimStep, TakeStepInput
<1>14. CASE RunnerClaimSteer  BY <1>14 DEF RunnerClaimSteer, TakeStepInput
<1>15. CASE Start  BY <1>15 DEF Start
<1>16. CASE ParentCancel  BY <1>16 DEF ParentCancel
<1>17. ASSUME NEW r \in Runs, RunBegin(r) PROVE MaintOwner'
    BY <1>17 DEF RunBegin
<1>18. ASSUME NEW r \in Runs, RunStart(r) PROVE MaintOwner'
    BY <1>18 DEF RunStart
<1>19. ASSUME NEW r \in Runs, RunSubmit(r) PROVE MaintOwner'
    BY <1>19 DEF RunSubmit, WakeAfter
<1>20. ASSUME NEW r \in Runs, RunReceive(r) PROVE MaintOwner'
    BY <1>20 DEF RunReceive
<1>21. ASSUME NEW r \in Runs, RunAbandon(r) PROVE MaintOwner'
    BY <1>21 DEF RunAbandon
<1>22. ASSUME NEW r \in Runs, RunForget(r) PROVE MaintOwner'
    BY <1>22 DEF RunForget
<1>23. ASSUME NEW r \in Runs, RunContextDone(r) PROVE MaintOwner'
    BY <1>23 DEF RunContextDone
<1>24. ASSUME NEW p \in Runs \cup Cancellers, CancelGrab(p) PROVE MaintOwner'
    BY <1>24 DEF CancelGrab
<1>25. ASSUME NEW p \in Runs \cup Cancellers, CancelUnsteer(p) PROVE MaintOwner'
    BY <1>25 DEF CancelUnsteer
<1>26. ASSUME NEW p \in Runs \cup Cancellers, CancelClear(p) PROVE MaintOwner'
    BY <1>26 DEF CancelClear
<1>27. ASSUME NEW p \in Runs \cup Cancellers \cup Senders, CancelAbort(p) PROVE MaintOwner'
    BY <1>27 DEF CancelAbort
<1>28. ASSUME NEW s \in Senders, Send(s) PROVE MaintOwner'
    BY <1>28 DEF Send
<1>29. ASSUME NEW s \in Senders, Steer(s) PROVE MaintOwner'
    BY <1>29 DEF Steer
<1>30. ASSUME NEW m \in Maintainers, MaintBegin(m) PROVE MaintOwner'
    BY <1>30 DEF MaintBegin
<1>31. ASSUME NEW m \in Maintainers, MaintDone(m) PROVE MaintOwner'
    BY <1>31 DEF MaintDone
<1>32. ASSUME NEW m \in Maintainers, MaintClear(m) PROVE MaintOwner'
    BY <1>32 DEF MaintClear
<1>33. ASSUME NEW w \in Idlers, IdleSnapshot(w) PROVE MaintOwner'
    BY <1>33 DEF IdleSnapshot
<1>34. ASSUME NEW w \in Idlers, IdleCheck(w) PROVE MaintOwner'
    BY <1>34 DEF IdleCheck
<1>35. ASSUME NEW c \in Closers, CloseBegin(c) PROVE MaintOwner'
    BY <1>35 DEF CloseBegin, CancelDriver, TakeWaiters, WaitersOf, CloseRoute
<1>36. ASSUME NEW c \in Closers, CloseRelease(c) PROVE MaintOwner'
    BY <1>36 DEF CloseRelease, Release, Answer
<1>37. ASSUME NEW c \in Closers, CloseAwait(c) PROVE MaintOwner'
    BY <1>37 DEF CloseAwait
<1>38. ASSUME NEW c \in Closers, CloseMark(c) PROVE MaintOwner'
    BY <1>38 DEF CloseMark
<1>39. ASSUME NEW c \in Closers, CloseDispose(c) PROVE MaintOwner'
    BY <1>39 DEF CloseDispose
<1>40. CASE UNCHANGED vars  BY <1>40 DEF vars
<1> QED
    BY <1>1, <1>2, <1>3, <1>4, <1>5, <1>6, <1>7, <1>8, <1>9, <1>10, <1>11, <1>12, <1>13,
       <1>14, <1>15, <1>16, <1>17, <1>18, <1>19, <1>20, <1>21, <1>22, <1>23, <1>24,
       <1>25, <1>26, <1>27, <1>28, <1>29, <1>30, <1>31, <1>32, <1>33, <1>34, <1>35,
       <1>36, <1>37, <1>38, <1>39, <1>40
    DEF Next, DriverStep, RunStep, CancelStep, MaintStep, CloseStep

\* What each disposal path knows about the last maintenance call survives the
\* steps of everybody else.
LEMMA NextDisposal == TypeOK /\ Disposal /\ [Next]_vars => Disposal'
<1> SUFFICES ASSUME TypeOK, Disposal, [Next]_vars PROVE Disposal'
    OBVIOUS
<1>0. pc \in [Procs -> Labels] /\ seenMaint \in [Procs -> Maintainers \cup {None}]
    BY DEF TypeOK, DataType
<1> USE ActorsAssumption, <1>0 DEF Disposal, HoldsLastMaint
<1>1. CASE DriverGate  BY <1>1 DEF DriverGate
<1>2. CASE DriverBarrier  BY <1>2 DEF DriverBarrier
<1>3. CASE DriverClaim  BY <1>3 DEF DriverClaim
<1>4. CASE DriverNoClaim  BY <1>4 DEF DriverNoClaim
<1>5. CASE DriverBarrier2  BY <1>5 DEF DriverBarrier2
<1>6. CASE DriverWait  BY <1>6 DEF DriverWait
<1>7. CASE DriverBegin  BY <1>7 DEF DriverBegin
<1>8. CASE Settle  BY <1>8 DEF Settle, DriverSettle, completeWaitersLocked, Answer, WaitersOf
<1>9. CASE DriverLoop  BY <1>9 DEF DriverLoop
<1>10. CASE DriverExit  BY <1>10 DEF DriverExit, TakeWaiters, WaitersOf
<1>11. CASE DriverRelease  BY <1>11 DEF DriverRelease, Release, Answer
<1>12. CASE DriverDispose  BY <1>12 DEF DriverDispose
<1>13. CASE RunnerClaimStep  BY <1>13 DEF RunnerClaimStep, TakeStepInput
<1>14. CASE RunnerClaimSteer  BY <1>14 DEF RunnerClaimSteer, TakeStepInput
<1>15. CASE Start  BY <1>15 DEF Start
<1>16. CASE ParentCancel  BY <1>16 DEF ParentCancel
<1>17. ASSUME NEW r \in Runs, RunBegin(r) PROVE Disposal'
    BY <1>17 DEF RunBegin
<1>18. ASSUME NEW r \in Runs, RunStart(r) PROVE Disposal'
    BY <1>18 DEF RunStart
<1>19. ASSUME NEW r \in Runs, RunSubmit(r) PROVE Disposal'
    BY <1>19 DEF RunSubmit, WakeAfter
<1>20. ASSUME NEW r \in Runs, RunReceive(r) PROVE Disposal'
    BY <1>20 DEF RunReceive
<1>21. ASSUME NEW r \in Runs, RunAbandon(r) PROVE Disposal'
    BY <1>21 DEF RunAbandon
<1>22. ASSUME NEW r \in Runs, RunForget(r) PROVE Disposal'
    BY <1>22 DEF RunForget
<1>23. ASSUME NEW r \in Runs, RunContextDone(r) PROVE Disposal'
    BY <1>23 DEF RunContextDone
<1>24. ASSUME NEW p \in Runs \cup Cancellers, CancelGrab(p) PROVE Disposal'
    BY <1>24 DEF CancelGrab
<1>25. ASSUME NEW p \in Runs \cup Cancellers, CancelUnsteer(p) PROVE Disposal'
    BY <1>25 DEF CancelUnsteer
<1>26. ASSUME NEW p \in Runs \cup Cancellers, CancelClear(p) PROVE Disposal'
    BY <1>26 DEF CancelClear
<1>27. ASSUME NEW p \in Runs \cup Cancellers \cup Senders, CancelAbort(p) PROVE Disposal'
    BY <1>27 DEF CancelAbort
<1>28. ASSUME NEW s \in Senders, Send(s) PROVE Disposal'
    BY <1>28 DEF Send
<1>29. ASSUME NEW s \in Senders, Steer(s) PROVE Disposal'
    BY <1>29 DEF Steer
<1>30. ASSUME NEW m \in Maintainers, MaintBegin(m) PROVE Disposal'
    BY <1>30 DEF MaintBegin
<1>31. ASSUME NEW m \in Maintainers, MaintDone(m) PROVE Disposal'
    BY <1>31 DEF MaintDone
<1>32. ASSUME NEW m \in Maintainers, MaintClear(m) PROVE Disposal'
    BY <1>32 DEF MaintClear
<1>33. ASSUME NEW w \in Idlers, IdleSnapshot(w) PROVE Disposal'
    BY <1>33 DEF IdleSnapshot
<1>34. ASSUME NEW w \in Idlers, IdleCheck(w) PROVE Disposal'
    BY <1>34 DEF IdleCheck
<1>35. ASSUME NEW c \in Closers, CloseBegin(c) PROVE Disposal'
    BY <1>35 DEF CloseBegin, CancelDriver, TakeWaiters, WaitersOf, CloseRoute
<1>36. ASSUME NEW c \in Closers, CloseRelease(c) PROVE Disposal'
    BY <1>36 DEF CloseRelease, Release, Answer
<1>37. ASSUME NEW c \in Closers, CloseAwait(c) PROVE Disposal'
    BY <1>37 DEF CloseAwait
<1>38. ASSUME NEW c \in Closers, CloseMark(c) PROVE Disposal'
    BY <1>38 DEF CloseMark
<1>39. ASSUME NEW c \in Closers, CloseDispose(c) PROVE Disposal'
    BY <1>39 DEF CloseDispose
<1>40. CASE UNCHANGED vars  BY <1>40 DEF vars
<1> QED
    BY <1>1, <1>2, <1>3, <1>4, <1>5, <1>6, <1>7, <1>8, <1>9, <1>10, <1>11, <1>12, <1>13,
       <1>14, <1>15, <1>16, <1>17, <1>18, <1>19, <1>20, <1>21, <1>22, <1>23, <1>24,
       <1>25, <1>26, <1>27, <1>28, <1>29, <1>30, <1>31, <1>32, <1>33, <1>34, <1>35,
       <1>36, <1>37, <1>38, <1>39, <1>40
    DEF Next, DriverStep, RunStep, CancelStep, MaintStep, CloseStep

\* Registering, answering and handing over to a closing process keep each Run
\* caller in at most one place.
LEMMA NextWaiters == TypeOK /\ WaiterOwnership /\ [Next]_vars => WaiterOwnership'
<1> SUFFICES ASSUME TypeOK, WaiterOwnership, [Next]_vars PROVE WaiterOwnership'
    OBVIOUS
<1>0. /\ pc \in [Procs -> Labels] /\ waiters \in [Messages -> Runs \cup {None}]
      /\ taken \in [Procs -> SUBSET Runs] /\ msg \in [Runs -> Runs \cup {None}]
      /\ reply \in [Runs -> Outcomes]
    BY DEF TypeOK, DataType
<1> USE ActorsAssumption, <1>0 DEF WaiterOwnership
<1>1. CASE DriverGate  BY <1>1 DEF DriverGate
<1>2. CASE DriverBarrier  BY <1>2 DEF DriverBarrier
<1>3. CASE DriverClaim  BY <1>3 DEF DriverClaim
<1>4. CASE DriverNoClaim  BY <1>4 DEF DriverNoClaim
<1>5. CASE DriverBarrier2  BY <1>5 DEF DriverBarrier2
<1>6. CASE DriverWait  BY <1>6 DEF DriverWait
<1>7. CASE DriverBegin  BY <1>7 DEF DriverBegin
<1>8. CASE Settle
    <2>1. PICK err \in {"ok", "failed", "canceled"} : DriverSettle(err)
        BY <1>8 DEF Settle
    <2>2. /\ reply' = [r \in Runs |-> IF \E m \in input : waiters[m] = r THEN err ELSE reply[r]]
          /\ waiters' = [m \in Messages |-> IF m \in input THEN None ELSE waiters[m]]
          /\ UNCHANGED <<msg, taken>>
        BY <2>1 DEF DriverSettle, completeWaitersLocked, Answer, WaitersOf
    <2>3. input \subseteq Messages
        BY DEF TypeOK, DataType
    <2>4. ASSUME NEW m \in Messages, waiters'[m] # None
          PROVE  /\ msg'[waiters'[m]] = m /\ reply'[waiters'[m]] = "none"
                 /\ \A p \in Procs : waiters'[m] \notin taken'[p]
        BY <2>2, <2>3, <2>4
    <2>5. ASSUME NEW p \in Procs, NEW r \in taken'[p]
          PROVE  reply'[r] = "none" /\ \A q \in Procs : r \in taken'[q] => q = p
        BY <2>2, <2>3, <2>5
    <2>6. ASSUME NEW r \in Runs, msg'[r] = None
          PROVE  reply'[r] = "none" /\ (\A p \in Procs : r \notin taken'[p])
        BY <2>2, <2>3, <2>6
    <2>7. \A r \in Runs : pc'[r] \in {"begin", "start", "submit"} => msg'[r] = None
        BY <2>1 DEF DriverSettle, completeWaitersLocked, Answer, WaitersOf
    <2> QED
        BY <2>4, <2>5, <2>6, <2>7
<1>9. CASE DriverLoop  BY <1>9 DEF DriverLoop
<1>10. CASE DriverExit  BY <1>10 DEF DriverExit, TakeWaiters, WaitersOf
<1>11. CASE DriverRelease  BY <1>11 DEF DriverRelease, Release, Answer
<1>12. CASE DriverDispose  BY <1>12 DEF DriverDispose
<1>13. CASE RunnerClaimStep  BY <1>13 DEF RunnerClaimStep, TakeStepInput
<1>14. CASE RunnerClaimSteer  BY <1>14 DEF RunnerClaimSteer, TakeStepInput
<1>15. CASE Start  BY <1>15 DEF Start
<1>16. CASE ParentCancel  BY <1>16 DEF ParentCancel
<1>17. ASSUME NEW r \in Runs, RunBegin(r) PROVE WaiterOwnership'
    BY <1>17 DEF RunBegin
<1>18. ASSUME NEW r \in Runs, RunStart(r) PROVE WaiterOwnership'
    BY <1>18 DEF RunStart
<1>19. ASSUME NEW r \in Runs, RunSubmit(r) PROVE WaiterOwnership'
    BY <1>19 DEF RunSubmit, WakeAfter
<1>20. ASSUME NEW r \in Runs, RunReceive(r) PROVE WaiterOwnership'
    BY <1>20 DEF RunReceive
<1>21. ASSUME NEW r \in Runs, RunAbandon(r) PROVE WaiterOwnership'
    BY <1>21 DEF RunAbandon
<1>22. ASSUME NEW r \in Runs, RunForget(r) PROVE WaiterOwnership'
    BY <1>22 DEF RunForget
<1>23. ASSUME NEW r \in Runs, RunContextDone(r) PROVE WaiterOwnership'
    BY <1>23 DEF RunContextDone
<1>24. ASSUME NEW p \in Runs \cup Cancellers, CancelGrab(p) PROVE WaiterOwnership'
    BY <1>24 DEF CancelGrab
<1>25. ASSUME NEW p \in Runs \cup Cancellers, CancelUnsteer(p) PROVE WaiterOwnership'
    BY <1>25 DEF CancelUnsteer
<1>26. ASSUME NEW p \in Runs \cup Cancellers, CancelClear(p) PROVE WaiterOwnership'
    BY <1>26 DEF CancelClear
<1>27. ASSUME NEW p \in Runs \cup Cancellers \cup Senders, CancelAbort(p) PROVE WaiterOwnership'
    BY <1>27 DEF CancelAbort
<1>28. ASSUME NEW s \in Senders, Send(s) PROVE WaiterOwnership'
    BY <1>28 DEF Send
<1>29. ASSUME NEW s \in Senders, Steer(s) PROVE WaiterOwnership'
    BY <1>29 DEF Steer
<1>30. ASSUME NEW m \in Maintainers, MaintBegin(m) PROVE WaiterOwnership'
    BY <1>30 DEF MaintBegin
<1>31. ASSUME NEW m \in Maintainers, MaintDone(m) PROVE WaiterOwnership'
    BY <1>31 DEF MaintDone
<1>32. ASSUME NEW m \in Maintainers, MaintClear(m) PROVE WaiterOwnership'
    BY <1>32 DEF MaintClear
<1>33. ASSUME NEW w \in Idlers, IdleSnapshot(w) PROVE WaiterOwnership'
    BY <1>33 DEF IdleSnapshot
<1>34. ASSUME NEW w \in Idlers, IdleCheck(w) PROVE WaiterOwnership'
    BY <1>34 DEF IdleCheck
<1>35. ASSUME NEW c \in Closers, CloseBegin(c) PROVE WaiterOwnership'
    BY <1>35 DEF CloseBegin, CancelDriver, TakeWaiters, WaitersOf, CloseRoute
<1>36. ASSUME NEW c \in Closers, CloseRelease(c) PROVE WaiterOwnership'
    BY <1>36 DEF CloseRelease, Release, Answer
<1>37. ASSUME NEW c \in Closers, CloseAwait(c) PROVE WaiterOwnership'
    BY <1>37 DEF CloseAwait
<1>38. ASSUME NEW c \in Closers, CloseMark(c) PROVE WaiterOwnership'
    BY <1>38 DEF CloseMark
<1>39. ASSUME NEW c \in Closers, CloseDispose(c) PROVE WaiterOwnership'
    BY <1>39 DEF CloseDispose
<1>40. CASE UNCHANGED vars  BY <1>40 DEF vars
<1> QED
    BY <1>1, <1>2, <1>3, <1>4, <1>5, <1>6, <1>7, <1>8, <1>9, <1>10, <1>11, <1>12, <1>13,
       <1>14, <1>15, <1>16, <1>17, <1>18, <1>19, <1>20, <1>21, <1>22, <1>23, <1>24,
       <1>25, <1>26, <1>27, <1>28, <1>29, <1>30, <1>31, <1>32, <1>33, <1>34, <1>35,
       <1>36, <1>37, <1>38, <1>39, <1>40
    DEF Next, DriverStep, RunStep, CancelStep, MaintStep, CloseStep

\* Answers in a waiter channel, and those a closing process still has to give,
\* stay true.
LEMMA NextAnswers == TypeOK /\ WaiterOwnership /\ AnswersHonest /\ [Next]_vars => AnswersHonest'
<1> SUFFICES ASSUME TypeOK, WaiterOwnership, AnswersHonest, [Next]_vars PROVE AnswersHonest'
    OBVIOUS
<1>0. /\ pc \in [Procs -> Labels] /\ waiters \in [Messages -> Runs \cup {None}]
      /\ taken \in [Procs -> SUBSET Runs] /\ msg \in [Runs -> Runs \cup {None}]
      /\ reply \in [Runs -> Outcomes]
    BY DEF TypeOK, DataType
<1> USE ActorsAssumption, <1>0 DEF AnswersHonest
<1>1. CASE DriverGate  BY <1>1 DEF DriverGate
<1>2. CASE DriverBarrier  BY <1>2 DEF DriverBarrier
<1>3. CASE DriverClaim  BY <1>3 DEF DriverClaim
<1>4. CASE DriverNoClaim  BY <1>4 DEF DriverNoClaim
<1>5. CASE DriverBarrier2  BY <1>5 DEF DriverBarrier2
<1>6. CASE DriverWait  BY <1>6 DEF DriverWait
<1>7. CASE DriverBegin  BY <1>7 DEF DriverBegin
<1>8. CASE Settle
    <2>1. PICK err \in {"ok", "failed", "canceled"} : DriverSettle(err)
        BY <1>8 DEF Settle
    <2>2. /\ reply' = [r \in Runs |-> IF \E m \in input : waiters[m] = r THEN err ELSE reply[r]]
          /\ pc' = [pc EXCEPT ![Driver] = "settled"] /\ pc[Driver] = "running"
          /\ UNCHANGED <<msg, taken, ran, closed>>
        BY <2>1 DEF DriverSettle, completeWaitersLocked, Answer, WaitersOf
    <2>3. input \subseteq Messages
        BY DEF TypeOK, DataType
    <2>4. ASSUME NEW r \in Runs
          PROVE  (reply'[r] = "ok" => msg'[r] \in ran') /\ (reply'[r] = "closed" => closed')
        <3>1. CASE \E m \in input : waiters[m] = r
            BY <2>2, <2>3, <3>1 DEF WaiterOwnership
        <3>2. CASE ~ \E m \in input : waiters[m] = r
            BY <2>2, <3>2
        <3> QED
            BY <3>1, <3>2
    <2>5. pc'[Driver] # "running" /\ \A p \in Procs : taken'[p] # {} => closed'
        BY <2>2
    <2> QED
        BY <2>4, <2>5
<1>9. CASE DriverLoop  BY <1>9 DEF DriverLoop
<1>10. CASE DriverExit  BY <1>10 DEF DriverExit, TakeWaiters, WaitersOf
<1>11. CASE DriverRelease  BY <1>11 DEF DriverRelease, Release, Answer
<1>12. CASE DriverDispose  BY <1>12 DEF DriverDispose
<1>13. CASE RunnerClaimStep  BY <1>13 DEF RunnerClaimStep, TakeStepInput
<1>14. CASE RunnerClaimSteer  BY <1>14 DEF RunnerClaimSteer, TakeStepInput
<1>15. CASE Start  BY <1>15 DEF Start
<1>16. CASE ParentCancel  BY <1>16 DEF ParentCancel
<1>17. ASSUME NEW r \in Runs, RunBegin(r) PROVE AnswersHonest'
    BY <1>17 DEF RunBegin
<1>18. ASSUME NEW r \in Runs, RunStart(r) PROVE AnswersHonest'
    BY <1>18 DEF RunStart
<1>19. ASSUME NEW r \in Runs, RunSubmit(r) PROVE AnswersHonest'
    <2>1. /\ \A q \in Runs \ {r} : msg'[q] = msg[q]
          /\ reply[r] = "none" /\ pc'[Driver] = pc[Driver]
          /\ UNCHANGED <<reply, closed, ran, input, taken>>
        BY <1>19 DEF RunSubmit, WaiterOwnership
    <2> QED
        BY <2>1
<1>20. ASSUME NEW r \in Runs, RunReceive(r) PROVE AnswersHonest'
    BY <1>20 DEF RunReceive
<1>21. ASSUME NEW r \in Runs, RunAbandon(r) PROVE AnswersHonest'
    BY <1>21 DEF RunAbandon
<1>22. ASSUME NEW r \in Runs, RunForget(r) PROVE AnswersHonest'
    BY <1>22 DEF RunForget
<1>23. ASSUME NEW r \in Runs, RunContextDone(r) PROVE AnswersHonest'
    BY <1>23 DEF RunContextDone
<1>24. ASSUME NEW p \in Runs \cup Cancellers, CancelGrab(p) PROVE AnswersHonest'
    BY <1>24 DEF CancelGrab
<1>25. ASSUME NEW p \in Runs \cup Cancellers, CancelUnsteer(p) PROVE AnswersHonest'
    BY <1>25 DEF CancelUnsteer
<1>26. ASSUME NEW p \in Runs \cup Cancellers, CancelClear(p) PROVE AnswersHonest'
    BY <1>26 DEF CancelClear
<1>27. ASSUME NEW p \in Runs \cup Cancellers \cup Senders, CancelAbort(p) PROVE AnswersHonest'
    BY <1>27 DEF CancelAbort
<1>28. ASSUME NEW s \in Senders, Send(s) PROVE AnswersHonest'
    BY <1>28 DEF Send
<1>29. ASSUME NEW s \in Senders, Steer(s) PROVE AnswersHonest'
    BY <1>29 DEF Steer
<1>30. ASSUME NEW m \in Maintainers, MaintBegin(m) PROVE AnswersHonest'
    BY <1>30 DEF MaintBegin
<1>31. ASSUME NEW m \in Maintainers, MaintDone(m) PROVE AnswersHonest'
    BY <1>31 DEF MaintDone
<1>32. ASSUME NEW m \in Maintainers, MaintClear(m) PROVE AnswersHonest'
    BY <1>32 DEF MaintClear
<1>33. ASSUME NEW w \in Idlers, IdleSnapshot(w) PROVE AnswersHonest'
    BY <1>33 DEF IdleSnapshot
<1>34. ASSUME NEW w \in Idlers, IdleCheck(w) PROVE AnswersHonest'
    BY <1>34 DEF IdleCheck
<1>35. ASSUME NEW c \in Closers, CloseBegin(c) PROVE AnswersHonest'
    BY <1>35 DEF CloseBegin, CancelDriver, TakeWaiters, WaitersOf, CloseRoute
<1>36. ASSUME NEW c \in Closers, CloseRelease(c) PROVE AnswersHonest'
    BY <1>36 DEF CloseRelease, Release, Answer
<1>37. ASSUME NEW c \in Closers, CloseAwait(c) PROVE AnswersHonest'
    BY <1>37 DEF CloseAwait
<1>38. ASSUME NEW c \in Closers, CloseMark(c) PROVE AnswersHonest'
    BY <1>38 DEF CloseMark
<1>39. ASSUME NEW c \in Closers, CloseDispose(c) PROVE AnswersHonest'
    BY <1>39 DEF CloseDispose
<1>40. CASE UNCHANGED vars  BY <1>40 DEF vars
<1> QED
    BY <1>1, <1>2, <1>3, <1>4, <1>5, <1>6, <1>7, <1>8, <1>9, <1>10, <1>11, <1>12, <1>13,
       <1>14, <1>15, <1>16, <1>17, <1>18, <1>19, <1>20, <1>21, <1>22, <1>23, <1>24,
       <1>25, <1>26, <1>27, <1>28, <1>29, <1>30, <1>31, <1>32, <1>33, <1>34, <1>35,
       <1>36, <1>37, <1>38, <1>39, <1>40
    DEF Next, DriverStep, RunStep, CancelStep, MaintStep, CloseStep

\* No step lets the driver block on queued work without a token.
LEMMA NextWakeup == TypeOK /\ NoLostWakeup /\ [Next]_vars => NoLostWakeup'
<1> SUFFICES ASSUME TypeOK, NoLostWakeup, [Next]_vars PROVE NoLostWakeup'
    OBVIOUS
<1>0. pc \in [Procs -> Labels]
    BY DEF TypeOK, DataType
<1> USE ActorsAssumption, <1>0 DEF NoLostWakeup, HasWork
<1>1. CASE DriverGate  BY <1>1 DEF DriverGate
<1>2. CASE DriverBarrier  BY <1>2 DEF DriverBarrier
<1>3. CASE DriverClaim  BY <1>3 DEF DriverClaim
<1>4. CASE DriverNoClaim  BY <1>4 DEF DriverNoClaim
<1>5. CASE DriverBarrier2  BY <1>5 DEF DriverBarrier2
<1>6. CASE DriverWait  BY <1>6 DEF DriverWait
<1>7. CASE DriverBegin  BY <1>7 DEF DriverBegin
<1>8. CASE Settle  BY <1>8 DEF Settle, DriverSettle, completeWaitersLocked, Answer, WaitersOf
<1>9. CASE DriverLoop  BY <1>9 DEF DriverLoop
<1>10. CASE DriverExit  BY <1>10 DEF DriverExit, TakeWaiters, WaitersOf
<1>11. CASE DriverRelease  BY <1>11 DEF DriverRelease, Release, Answer
<1>12. CASE DriverDispose  BY <1>12 DEF DriverDispose
<1>13. CASE RunnerClaimStep  BY <1>13 DEF RunnerClaimStep, TakeStepInput
<1>14. CASE RunnerClaimSteer  BY <1>14 DEF RunnerClaimSteer, TakeStepInput
<1>15. CASE Start  BY <1>15 DEF Start
<1>16. CASE ParentCancel  BY <1>16 DEF ParentCancel
<1>17. ASSUME NEW r \in Runs, RunBegin(r) PROVE NoLostWakeup'
    BY <1>17 DEF RunBegin
<1>18. ASSUME NEW r \in Runs, RunStart(r) PROVE NoLostWakeup'
    BY <1>18 DEF RunStart
<1>19. ASSUME NEW r \in Runs, RunSubmit(r) PROVE NoLostWakeup'
    <2>1. Submitted(r) # r => queued # {}
        BY DEF Submitted
    <2>3. CASE Submitted(r) = r
        BY <1>19, <2>3 DEF RunSubmit, WakeAfter
    <2>4. CASE Submitted(r) # r
        BY <1>19, <2>1, <2>4 DEF RunSubmit, WakeAfter
    <2> QED
        BY <2>3, <2>4
<1>20. ASSUME NEW r \in Runs, RunReceive(r) PROVE NoLostWakeup'
    BY <1>20 DEF RunReceive
<1>21. ASSUME NEW r \in Runs, RunAbandon(r) PROVE NoLostWakeup'
    BY <1>21 DEF RunAbandon
<1>22. ASSUME NEW r \in Runs, RunForget(r) PROVE NoLostWakeup'
    BY <1>22 DEF RunForget
<1>23. ASSUME NEW r \in Runs, RunContextDone(r) PROVE NoLostWakeup'
    BY <1>23 DEF RunContextDone
<1>24. ASSUME NEW p \in Runs \cup Cancellers, CancelGrab(p) PROVE NoLostWakeup'
    BY <1>24 DEF CancelGrab
<1>25. ASSUME NEW p \in Runs \cup Cancellers, CancelUnsteer(p) PROVE NoLostWakeup'
    BY <1>25 DEF CancelUnsteer
<1>26. ASSUME NEW p \in Runs \cup Cancellers, CancelClear(p) PROVE NoLostWakeup'
    BY <1>26 DEF CancelClear
<1>27. ASSUME NEW p \in Runs \cup Cancellers \cup Senders, CancelAbort(p) PROVE NoLostWakeup'
    BY <1>27 DEF CancelAbort
<1>28. ASSUME NEW s \in Senders, Send(s) PROVE NoLostWakeup'
    BY <1>28 DEF Send
<1>29. ASSUME NEW s \in Senders, Steer(s) PROVE NoLostWakeup'
    BY <1>29 DEF Steer
<1>30. ASSUME NEW m \in Maintainers, MaintBegin(m) PROVE NoLostWakeup'
    BY <1>30 DEF MaintBegin
<1>31. ASSUME NEW m \in Maintainers, MaintDone(m) PROVE NoLostWakeup'
    BY <1>31 DEF MaintDone
<1>32. ASSUME NEW m \in Maintainers, MaintClear(m) PROVE NoLostWakeup'
    BY <1>32 DEF MaintClear
<1>33. ASSUME NEW w \in Idlers, IdleSnapshot(w) PROVE NoLostWakeup'
    BY <1>33 DEF IdleSnapshot
<1>34. ASSUME NEW w \in Idlers, IdleCheck(w) PROVE NoLostWakeup'
    BY <1>34 DEF IdleCheck
<1>35. ASSUME NEW c \in Closers, CloseBegin(c) PROVE NoLostWakeup'
    BY <1>35 DEF CloseBegin, CancelDriver, TakeWaiters, WaitersOf, CloseRoute
<1>36. ASSUME NEW c \in Closers, CloseRelease(c) PROVE NoLostWakeup'
    BY <1>36 DEF CloseRelease, Release, Answer
<1>37. ASSUME NEW c \in Closers, CloseAwait(c) PROVE NoLostWakeup'
    BY <1>37 DEF CloseAwait
<1>38. ASSUME NEW c \in Closers, CloseMark(c) PROVE NoLostWakeup'
    BY <1>38 DEF CloseMark
<1>39. ASSUME NEW c \in Closers, CloseDispose(c) PROVE NoLostWakeup'
    BY <1>39 DEF CloseDispose
<1>40. CASE UNCHANGED vars  BY <1>40 DEF vars
<1> QED
    BY <1>1, <1>2, <1>3, <1>4, <1>5, <1>6, <1>7, <1>8, <1>9, <1>10, <1>11, <1>12, <1>13,
       <1>14, <1>15, <1>16, <1>17, <1>18, <1>19, <1>20, <1>21, <1>22, <1>23, <1>24,
       <1>25, <1>26, <1>27, <1>28, <1>29, <1>30, <1>31, <1>32, <1>33, <1>34, <1>35,
       <1>36, <1>37, <1>38, <1>39, <1>40
    DEF Next, DriverStep, RunStep, CancelStep, MaintStep, CloseStep

\* A result is written by the step that returns.
LEMMA NextResultsFinal == TypeOK /\ ResultsFinal /\ [Next]_vars => ResultsFinal'
<1> SUFFICES ASSUME TypeOK, ResultsFinal, [Next]_vars PROVE ResultsFinal'
    OBVIOUS
<1>0. pc \in [Procs -> Labels] /\ result \in [Runs -> Outcomes]
    BY DEF TypeOK, DataType
<1> USE ActorsAssumption, <1>0 DEF ResultsFinal
<1>1. CASE DriverGate  BY <1>1 DEF DriverGate
<1>2. CASE DriverBarrier  BY <1>2 DEF DriverBarrier
<1>3. CASE DriverClaim  BY <1>3 DEF DriverClaim
<1>4. CASE DriverNoClaim  BY <1>4 DEF DriverNoClaim
<1>5. CASE DriverBarrier2  BY <1>5 DEF DriverBarrier2
<1>6. CASE DriverWait  BY <1>6 DEF DriverWait
<1>7. CASE DriverBegin  BY <1>7 DEF DriverBegin
<1>8. CASE Settle  BY <1>8 DEF Settle, DriverSettle, completeWaitersLocked, Answer, WaitersOf
<1>9. CASE DriverLoop  BY <1>9 DEF DriverLoop
<1>10. CASE DriverExit  BY <1>10 DEF DriverExit, TakeWaiters, WaitersOf
<1>11. CASE DriverRelease  BY <1>11 DEF DriverRelease, Release, Answer
<1>12. CASE DriverDispose  BY <1>12 DEF DriverDispose
<1>13. CASE RunnerClaimStep  BY <1>13 DEF RunnerClaimStep, TakeStepInput
<1>14. CASE RunnerClaimSteer  BY <1>14 DEF RunnerClaimSteer, TakeStepInput
<1>15. CASE Start  BY <1>15 DEF Start
<1>16. CASE ParentCancel  BY <1>16 DEF ParentCancel
<1>17. ASSUME NEW r \in Runs, RunBegin(r) PROVE ResultsFinal'
    BY <1>17 DEF RunBegin
<1>18. ASSUME NEW r \in Runs, RunStart(r) PROVE ResultsFinal'
    BY <1>18 DEF RunStart
<1>19. ASSUME NEW r \in Runs, RunSubmit(r) PROVE ResultsFinal'
    BY <1>19 DEF RunSubmit, WakeAfter
<1>20. ASSUME NEW r \in Runs, RunReceive(r) PROVE ResultsFinal'
    BY <1>20 DEF RunReceive
<1>21. ASSUME NEW r \in Runs, RunAbandon(r) PROVE ResultsFinal'
    BY <1>21 DEF RunAbandon
<1>22. ASSUME NEW r \in Runs, RunForget(r) PROVE ResultsFinal'
    BY <1>22 DEF RunForget
<1>23. ASSUME NEW r \in Runs, RunContextDone(r) PROVE ResultsFinal'
    BY <1>23 DEF RunContextDone
<1>24. ASSUME NEW p \in Runs \cup Cancellers, CancelGrab(p) PROVE ResultsFinal'
    BY <1>24 DEF CancelGrab
<1>25. ASSUME NEW p \in Runs \cup Cancellers, CancelUnsteer(p) PROVE ResultsFinal'
    BY <1>25 DEF CancelUnsteer
<1>26. ASSUME NEW p \in Runs \cup Cancellers, CancelClear(p) PROVE ResultsFinal'
    BY <1>26 DEF CancelClear
<1>27. ASSUME NEW p \in Runs \cup Cancellers \cup Senders, CancelAbort(p) PROVE ResultsFinal'
    BY <1>27 DEF CancelAbort
<1>28. ASSUME NEW s \in Senders, Send(s) PROVE ResultsFinal'
    BY <1>28 DEF Send
<1>29. ASSUME NEW s \in Senders, Steer(s) PROVE ResultsFinal'
    BY <1>29 DEF Steer
<1>30. ASSUME NEW m \in Maintainers, MaintBegin(m) PROVE ResultsFinal'
    BY <1>30 DEF MaintBegin
<1>31. ASSUME NEW m \in Maintainers, MaintDone(m) PROVE ResultsFinal'
    BY <1>31 DEF MaintDone
<1>32. ASSUME NEW m \in Maintainers, MaintClear(m) PROVE ResultsFinal'
    BY <1>32 DEF MaintClear
<1>33. ASSUME NEW w \in Idlers, IdleSnapshot(w) PROVE ResultsFinal'
    BY <1>33 DEF IdleSnapshot
<1>34. ASSUME NEW w \in Idlers, IdleCheck(w) PROVE ResultsFinal'
    BY <1>34 DEF IdleCheck
<1>35. ASSUME NEW c \in Closers, CloseBegin(c) PROVE ResultsFinal'
    BY <1>35 DEF CloseBegin, CancelDriver, TakeWaiters, WaitersOf, CloseRoute
<1>36. ASSUME NEW c \in Closers, CloseRelease(c) PROVE ResultsFinal'
    BY <1>36 DEF CloseRelease, Release, Answer
<1>37. ASSUME NEW c \in Closers, CloseAwait(c) PROVE ResultsFinal'
    BY <1>37 DEF CloseAwait
<1>38. ASSUME NEW c \in Closers, CloseMark(c) PROVE ResultsFinal'
    BY <1>38 DEF CloseMark
<1>39. ASSUME NEW c \in Closers, CloseDispose(c) PROVE ResultsFinal'
    BY <1>39 DEF CloseDispose
<1>40. CASE UNCHANGED vars  BY <1>40 DEF vars
<1> QED
    BY <1>1, <1>2, <1>3, <1>4, <1>5, <1>6, <1>7, <1>8, <1>9, <1>10, <1>11, <1>12, <1>13,
       <1>14, <1>15, <1>16, <1>17, <1>18, <1>19, <1>20, <1>21, <1>22, <1>23, <1>24,
       <1>25, <1>26, <1>27, <1>28, <1>29, <1>30, <1>31, <1>32, <1>33, <1>34, <1>35,
       <1>36, <1>37, <1>38, <1>39, <1>40
    DEF Next, DriverStep, RunStep, CancelStep, MaintStep, CloseStep

\* What a Run call has returned stays true, and what it returns now is true.
LEMMA NextResults == TypeOK /\ AnswersHonest /\ ResultsFinal /\ RunResultHonest /\ [Next]_vars => RunResultHonest'
<1> SUFFICES ASSUME TypeOK, AnswersHonest, ResultsFinal, RunResultHonest, [Next]_vars PROVE RunResultHonest'
    OBVIOUS
<1>0. /\ pc \in [Procs -> Labels] /\ result \in [Runs -> Outcomes]
      /\ msg \in [Runs -> Runs \cup {None}]
    BY DEF TypeOK, DataType
<1> USE ActorsAssumption, <1>0 DEF RunResultHonest
<1>1. CASE DriverGate  BY <1>1 DEF DriverGate
<1>2. CASE DriverBarrier  BY <1>2 DEF DriverBarrier
<1>3. CASE DriverClaim  BY <1>3 DEF DriverClaim
<1>4. CASE DriverNoClaim  BY <1>4 DEF DriverNoClaim
<1>5. CASE DriverBarrier2  BY <1>5 DEF DriverBarrier2
<1>6. CASE DriverWait  BY <1>6 DEF DriverWait
<1>7. CASE DriverBegin  BY <1>7 DEF DriverBegin
<1>8. CASE Settle  BY <1>8 DEF Settle, DriverSettle, completeWaitersLocked, Answer, WaitersOf
<1>9. CASE DriverLoop  BY <1>9 DEF DriverLoop
<1>10. CASE DriverExit  BY <1>10 DEF DriverExit, TakeWaiters, WaitersOf
<1>11. CASE DriverRelease  BY <1>11 DEF DriverRelease, Release, Answer
<1>12. CASE DriverDispose  BY <1>12 DEF DriverDispose
<1>13. CASE RunnerClaimStep  BY <1>13 DEF RunnerClaimStep, TakeStepInput
<1>14. CASE RunnerClaimSteer  BY <1>14 DEF RunnerClaimSteer, TakeStepInput
<1>15. CASE Start  BY <1>15 DEF Start
<1>16. CASE ParentCancel  BY <1>16 DEF ParentCancel
<1>17. ASSUME NEW r \in Runs, RunBegin(r) PROVE RunResultHonest'
    BY <1>17 DEF RunBegin
<1>18. ASSUME NEW r \in Runs, RunStart(r) PROVE RunResultHonest'
    BY <1>18 DEF RunStart
<1>19. ASSUME NEW r \in Runs, RunSubmit(r) PROVE RunResultHonest'
    <2>1. result[r] = "none"
        BY <1>19 DEF RunSubmit, ResultsFinal
    <2>2. result'[r] \in {"none", "closed", "failed"} /\ (result'[r] = "closed" => closed)
        BY <1>19, <2>1 DEF RunSubmit
    <2>3. \A q \in Runs \ {r} : msg'[q] = msg[q] /\ result'[q] = result[q]
        BY <1>19 DEF RunSubmit
    <2>4. UNCHANGED <<ran, closed>>
        BY <1>19 DEF RunSubmit
    <2> QED
        BY <2>2, <2>3, <2>4
<1>20. ASSUME NEW r \in Runs, RunReceive(r) PROVE RunResultHonest'
    <2>1. result' = [result EXCEPT ![r] = reply[r]] /\ UNCHANGED <<msg, ran, closed>>
        BY <1>20 DEF RunReceive
    <2>2. (reply[r] = "ok" => msg[r] \in ran) /\ (reply[r] = "closed" => closed)
        BY DEF AnswersHonest
    <2> QED
        BY <2>1, <2>2
<1>21. ASSUME NEW r \in Runs, RunAbandon(r) PROVE RunResultHonest'
    BY <1>21 DEF RunAbandon
<1>22. ASSUME NEW r \in Runs, RunForget(r) PROVE RunResultHonest'
    BY <1>22 DEF RunForget
<1>23. ASSUME NEW r \in Runs, RunContextDone(r) PROVE RunResultHonest'
    BY <1>23 DEF RunContextDone
<1>24. ASSUME NEW p \in Runs \cup Cancellers, CancelGrab(p) PROVE RunResultHonest'
    BY <1>24 DEF CancelGrab
<1>25. ASSUME NEW p \in Runs \cup Cancellers, CancelUnsteer(p) PROVE RunResultHonest'
    BY <1>25 DEF CancelUnsteer
<1>26. ASSUME NEW p \in Runs \cup Cancellers, CancelClear(p) PROVE RunResultHonest'
    BY <1>26 DEF CancelClear
<1>27. ASSUME NEW p \in Runs \cup Cancellers \cup Senders, CancelAbort(p) PROVE RunResultHonest'
    BY <1>27 DEF CancelAbort
<1>28. ASSUME NEW s \in Senders, Send(s) PROVE RunResultHonest'
    BY <1>28 DEF Send
<1>29. ASSUME NEW s \in Senders, Steer(s) PROVE RunResultHonest'
    BY <1>29 DEF Steer
<1>30. ASSUME NEW m \in Maintainers, MaintBegin(m) PROVE RunResultHonest'
    BY <1>30 DEF MaintBegin
<1>31. ASSUME NEW m \in Maintainers, MaintDone(m) PROVE RunResultHonest'
    BY <1>31 DEF MaintDone
<1>32. ASSUME NEW m \in Maintainers, MaintClear(m) PROVE RunResultHonest'
    BY <1>32 DEF MaintClear
<1>33. ASSUME NEW w \in Idlers, IdleSnapshot(w) PROVE RunResultHonest'
    BY <1>33 DEF IdleSnapshot
<1>34. ASSUME NEW w \in Idlers, IdleCheck(w) PROVE RunResultHonest'
    BY <1>34 DEF IdleCheck
<1>35. ASSUME NEW c \in Closers, CloseBegin(c) PROVE RunResultHonest'
    BY <1>35 DEF CloseBegin, CancelDriver, TakeWaiters, WaitersOf, CloseRoute
<1>36. ASSUME NEW c \in Closers, CloseRelease(c) PROVE RunResultHonest'
    BY <1>36 DEF CloseRelease, Release, Answer
<1>37. ASSUME NEW c \in Closers, CloseAwait(c) PROVE RunResultHonest'
    BY <1>37 DEF CloseAwait
<1>38. ASSUME NEW c \in Closers, CloseMark(c) PROVE RunResultHonest'
    BY <1>38 DEF CloseMark
<1>39. ASSUME NEW c \in Closers, CloseDispose(c) PROVE RunResultHonest'
    BY <1>39 DEF CloseDispose
<1>40. CASE UNCHANGED vars  BY <1>40 DEF vars
<1> QED
    BY <1>1, <1>2, <1>3, <1>4, <1>5, <1>6, <1>7, <1>8, <1>9, <1>10, <1>11, <1>12, <1>13,
       <1>14, <1>15, <1>16, <1>17, <1>18, <1>19, <1>20, <1>21, <1>22, <1>23, <1>24,
       <1>25, <1>26, <1>27, <1>28, <1>29, <1>30, <1>31, <1>32, <1>33, <1>34, <1>35,
       <1>36, <1>37, <1>38, <1>39, <1>40
    DEF Next, DriverStep, RunStep, CancelStep, MaintStep, CloseStep

\* Whoever answers a Run caller finds its channel without an answer.
LEMMA AnswersOne ==
    ASSUME TypeOK, AnswerCounts, NEW callers, NEW err \in Outcomes \ {"none"}, Answer(callers, err),
           \A r \in callers : reply[r] = "none"
    PROVE  AnswerCounts'
<1>1. reply \in [Runs -> Outcomes] /\ answers \in [Runs -> Nat]
    BY DEF TypeOK, DataType
<1> QED
    BY <1>1 DEF AnswerCounts, Answer

\* No step answers a Run caller a second time.
LEMMA NextAnswerCounts == TypeOK /\ WaiterOwnership /\ AnswerCounts /\ [Next]_vars => AnswerCounts'
<1> SUFFICES ASSUME TypeOK, WaiterOwnership, AnswerCounts, [Next]_vars PROVE AnswerCounts'
    OBVIOUS
<1>0. /\ input \subseteq Messages /\ waiters \in [Messages -> Runs \cup {None}]
      /\ taken \in [Procs -> SUBSET Runs]
    BY DEF TypeOK, DataType
<1>a. UNCHANGED <<reply, answers>> => AnswerCounts'
    BY DEF AnswerCounts
<1>b. \A p \in Procs : Release(p) => AnswerCounts'
    <2> SUFFICES ASSUME NEW p \in Procs, Release(p) PROVE AnswerCounts'
        OBVIOUS
    <2>1. Answer(taken[p], "closed") /\ \A r \in taken[p] : reply[r] = "none"
        BY DEF Release, WaiterOwnership
    <2>2. "closed" \in Outcomes \ {"none"}
        BY DEF Outcomes
    <2> QED
        BY <2>1, <2>2, AnswersOne
<1> USE ActorsAssumption, <1>0, <1>a
<1>1. CASE DriverGate  BY <1>1 DEF DriverGate
<1>2. CASE DriverBarrier  BY <1>2 DEF DriverBarrier
<1>3. CASE DriverClaim  BY <1>3 DEF DriverClaim
<1>4. CASE DriverNoClaim  BY <1>4 DEF DriverNoClaim
<1>5. CASE DriverBarrier2  BY <1>5 DEF DriverBarrier2
<1>6. CASE DriverWait  BY <1>6 DEF DriverWait
<1>7. CASE DriverBegin  BY <1>7 DEF DriverBegin
<1>8. CASE Settle
    <2>1. PICK err \in {"ok", "failed", "canceled"} : DriverSettle(err)
        BY <1>8 DEF Settle
    <2>2. Answer(WaitersOf(input), err)
        BY <2>1 DEF DriverSettle, completeWaitersLocked
    <2>3. \A r \in WaitersOf(input) : reply[r] = "none"
        BY DEF WaitersOf, WaiterOwnership
    <2>4. err \in Outcomes \ {"none"}
        BY DEF Outcomes
    <2> QED
        BY <2>2, <2>3, <2>4, AnswersOne
<1>9. CASE DriverLoop  BY <1>9 DEF DriverLoop
<1>10. CASE DriverExit  BY <1>10 DEF DriverExit, TakeWaiters, WaitersOf
<1>11. CASE DriverRelease  BY <1>11, <1>b DEF DriverRelease
<1>12. CASE DriverDispose  BY <1>12 DEF DriverDispose
<1>13. CASE RunnerClaimStep  BY <1>13 DEF RunnerClaimStep, TakeStepInput
<1>14. CASE RunnerClaimSteer  BY <1>14 DEF RunnerClaimSteer, TakeStepInput
<1>15. CASE Start  BY <1>15 DEF Start
<1>16. CASE ParentCancel  BY <1>16 DEF ParentCancel
<1>17. ASSUME NEW r \in Runs, RunBegin(r) PROVE AnswerCounts'
    BY <1>17 DEF RunBegin
<1>18. ASSUME NEW r \in Runs, RunStart(r) PROVE AnswerCounts'
    BY <1>18 DEF RunStart
<1>19. ASSUME NEW r \in Runs, RunSubmit(r) PROVE AnswerCounts'
    BY <1>19 DEF RunSubmit, WakeAfter
<1>20. ASSUME NEW r \in Runs, RunReceive(r) PROVE AnswerCounts'
    BY <1>20 DEF RunReceive
<1>21. ASSUME NEW r \in Runs, RunAbandon(r) PROVE AnswerCounts'
    BY <1>21 DEF RunAbandon
<1>22. ASSUME NEW r \in Runs, RunForget(r) PROVE AnswerCounts'
    BY <1>22 DEF RunForget
<1>23. ASSUME NEW r \in Runs, RunContextDone(r) PROVE AnswerCounts'
    BY <1>23 DEF RunContextDone
<1>24. ASSUME NEW p \in Runs \cup Cancellers, CancelGrab(p) PROVE AnswerCounts'
    BY <1>24 DEF CancelGrab
<1>25. ASSUME NEW p \in Runs \cup Cancellers, CancelUnsteer(p) PROVE AnswerCounts'
    BY <1>25 DEF CancelUnsteer
<1>26. ASSUME NEW p \in Runs \cup Cancellers, CancelClear(p) PROVE AnswerCounts'
    BY <1>26 DEF CancelClear
<1>27. ASSUME NEW p \in Runs \cup Cancellers \cup Senders, CancelAbort(p) PROVE AnswerCounts'
    BY <1>27 DEF CancelAbort
<1>28. ASSUME NEW s \in Senders, Send(s) PROVE AnswerCounts'
    BY <1>28 DEF Send
<1>29. ASSUME NEW s \in Senders, Steer(s) PROVE AnswerCounts'
    BY <1>29 DEF Steer
<1>30. ASSUME NEW m \in Maintainers, MaintBegin(m) PROVE AnswerCounts'
    BY <1>30 DEF MaintBegin
<1>31. ASSUME NEW m \in Maintainers, MaintDone(m) PROVE AnswerCounts'
    BY <1>31 DEF MaintDone
<1>32. ASSUME NEW m \in Maintainers, MaintClear(m) PROVE AnswerCounts'
    BY <1>32 DEF MaintClear
<1>33. ASSUME NEW w \in Idlers, IdleSnapshot(w) PROVE AnswerCounts'
    BY <1>33 DEF IdleSnapshot
<1>34. ASSUME NEW w \in Idlers, IdleCheck(w) PROVE AnswerCounts'
    BY <1>34 DEF IdleCheck
<1>35. ASSUME NEW c \in Closers, CloseBegin(c) PROVE AnswerCounts'
    BY <1>35 DEF CloseBegin, CancelDriver, TakeWaiters, WaitersOf, CloseRoute
<1>36. ASSUME NEW c \in Closers, CloseRelease(c) PROVE AnswerCounts'
    BY <1>36, <1>b DEF CloseRelease
<1>37. ASSUME NEW c \in Closers, CloseAwait(c) PROVE AnswerCounts'
    BY <1>37 DEF CloseAwait
<1>38. ASSUME NEW c \in Closers, CloseMark(c) PROVE AnswerCounts'
    BY <1>38 DEF CloseMark
<1>39. ASSUME NEW c \in Closers, CloseDispose(c) PROVE AnswerCounts'
    BY <1>39 DEF CloseDispose
<1>40. CASE UNCHANGED vars  BY <1>40 DEF vars
<1> QED
    BY <1>1, <1>2, <1>3, <1>4, <1>5, <1>6, <1>7, <1>8, <1>9, <1>10, <1>11, <1>12, <1>13,
       <1>14, <1>15, <1>16, <1>17, <1>18, <1>19, <1>20, <1>21, <1>22, <1>23, <1>24,
       <1>25, <1>26, <1>27, <1>28, <1>29, <1>30, <1>31, <1>32, <1>33, <1>34, <1>35,
       <1>36, <1>37, <1>38, <1>39, <1>40
    DEF Next, DriverStep, RunStep, CancelStep, MaintStep, CloseStep

-----------------------------------------------------------------------------
(* The theorems.                                                           *)

\* The inductive invariant: the types, who owns the maintenance phase, what the
\* disposal paths hold, where each Run waits, and that answers, results and
\* wakeups are as promised.
IndInv == /\ TypeOK /\ MaintOwner /\ Disposal /\ WaiterOwnership /\ AnswerCounts
          /\ AnswersHonest /\ ResultsFinal /\ NoLostWakeup /\ RunResultHonest

\* A new Agent has no maintenance, no waiter, no answer and no sleeping driver.
LEMMA InitIndInv == Init => IndInv
<1> SUFFICES ASSUME Init PROVE IndInv
    OBVIOUS
<1> USE ActorsAssumption DEF Init
<1>1. MaintOwner
    BY DEF MaintOwner
<1>2. Disposal
    BY DEF Disposal
<1>3. WaiterOwnership
    BY DEF WaiterOwnership
<1>4. AnswersHonest /\ AnswerCounts
    BY DEF AnswersHonest, AnswerCounts
<1>5. ResultsFinal /\ NoLostWakeup /\ RunResultHonest
    BY DEF ResultsFinal, NoLostWakeup, RunResultHonest
<1> QED
    BY InitTypeOK, <1>1, <1>2, <1>3, <1>4, <1>5 DEF IndInv

\* Every operation of the Agent keeps the inductive invariant.
LEMMA NextIndInv == IndInv /\ [Next]_vars => IndInv'
<1>1. TypeOK /\ [Next]_vars => TypeOK'
    BY NextFlags, NextData DEF TypeOK
<1> QED
    BY <1>1, NextMaintOwner, NextDisposal, NextWaiters, NextAnswerCounts, NextAnswers, NextResultsFinal,
       NextResults, NextWakeup
    DEF IndInv

\* The inductive invariant holds in every state the Agent can reach.
LEMMA InductiveInvariant == Spec => []IndInv
    BY InitIndInv, NextIndInv, PTL DEF Spec

\* The scope is never disposed under a running turn or maintenance task: both
\* disposal paths hold the last maintenance call the Agent admitted, and the
\* driver disposes only after its loop.
THEOREM ScopeOutlivesWorkHolds == Spec => []ScopeOutlivesWork
<1>1. IndInv => ScopeOutlivesWork
    <2> SUFFICES ASSUME IndInv, scopeClosed PROVE ScopeOutlivesWork
        BY DEF ScopeOutlivesWork
    <2>1. pc[Driver] \notin {"claimed", "running"}
        BY DEF IndInv, Disposal
    <2>2. ASSUME NEW m \in Maintainers PROVE pc[m] # "task"
        BY ActorsAssumption DEF IndInv, Disposal, MaintOwner
    <2> QED
        BY <2>1, <2>2 DEF ScopeOutlivesWork
<1> QED
    BY InductiveInvariant, <1>1, PTL

\* A Run is answered at most once, whichever of its turn, the Close calls and
\* the exiting driver come to answer it, and in whatever order: each of them
\* takes its waiter out of the map under the mutex before it answers.
THEOREM SettledOnceHolds == Spec => []SettledOnce
<1>1. IndInv => SettledOnce
    BY DEF IndInv, AnswerCounts, SettledOnce
<1> QED
    BY InductiveInvariant, <1>1, PTL

\* Run reports success only for a message a turn has received, and a closed
\* Agent only if it is closed.
THEOREM RunResultHonestHolds == Spec => []RunResultHonest
<1>1. IndInv => RunResultHonest
    BY DEF IndInv
<1> QED
    BY InductiveInvariant, <1>1, PTL

\* The driver never sleeps on queued work, however submissions, cancellations
\* and Close interleave with its look at the inbox.
THEOREM NoLostWakeupHolds == Spec => []NoLostWakeup
<1>1. IndInv => NoLostWakeup
    BY DEF IndInv
<1> QED
    BY InductiveInvariant, <1>1, PTL
=============================================================================
