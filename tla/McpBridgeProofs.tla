--------------------------- MODULE McpBridgeProofs ---------------------------
(***************************************************************************)
(* Proofs about McpBridge, for any number of tool calls, calls of Close,   *)
(* clients and time-outs, and any budget of attempts.                      *)
(***************************************************************************)
EXTENDS McpBridge, TLAPS

\* The labels of a recovery.
Recovering == pc[Sup] \in {"attempt", "delay", "begin", "start", "drop", "swap", "drain", "retire",
                           "undo", "giveUp", "connected"}

\* Until the bridge has started its client, nothing else happens.
BootInv ==
    pc[Boot] = "ready" =>
        /\ pc[Sup] = "wait" /\ pc[Notice] = "ready" /\ base = 1 /\ gen = 1 /\ losses = {}
        /\ ~closed /\ ~reconnecting /\ ~signal /\ tools = "none" /\ Active = {}

\* Every client that was made since the last stable connection was paid for
\* with an attempt; one attempt is paid for before its client is made.
BudgetInv ==
    /\ Recovering => reconnecting
    /\ reconnecting => connectedAt = "zero" \/ pc[Sup] = "connected"
    /\ connectedAt = "stable" => tries = 0
    /\ tries + (IF pc[Sup] \in {"delay", "begin", "start"} THEN 1 ELSE 0) <= failedAttempts

\* Which clients the supervisor has in its hands.
HandsInv ==
    /\ base \in {gen, None}
    /\ pc[Sup] \in {"start", "drop", "swap"} => base = gen /\ old = gen
    /\ pc[Sup] \in {"drop", "swap"} => cand \in Clients \ {gen}
    /\ pc[Sup] \in {"drain", "retire"} => base = gen /\ cand = gen /\ old \in Clients \ {gen}
    /\ pc[Sup] = "undo" => base = None /\ cand = gen

\* A request in flight was counted for the current generation or for the one
\* that is being drained, and is sent to no client but one of these.
ReqInv ==
    \A p \in Requesters :
        /\ \/ req[p].at = "none" \/ req[p].gen = gen \/ base = None
           \/ pc[Sup] = "drain" /\ req[p].gen = old
        /\ req[p].at = "sent" => req[p].on \in Clients /\ req[p].on \in {req[p].gen, gen}

\* The clients in somebody's hands.
Held == abandoned \cup {base}
           \cup (IF pc[Sup] \in {"drop", "swap", "drain", "retire", "undo"} THEN {cand} ELSE {})
           \cup (IF pc[Sup] \in {"drain", "retire"} THEN {old} ELSE {})

\* No client is lost, and the current one stays down once Close has closed it.
LeakInv ==
    /\ Running \subseteq Held
    /\ \A c \in Closers \cup {Boot} :
          /\ pc[c] \in {"quiesce", "base", "join"} => closed
          /\ pc[c] = "join" => base \notin Running
    /\ closeDone => closed /\ base \notin Running

IInv == BootInv /\ BudgetInv /\ HandsInv /\ ReqInv /\ LeakInv

USE DEF clientVars, flagVars, lossVars, supVars, toolVars, histVars, Sup, Boot, Notice, Clients,
        Requesters, Procs, Goto, TimesOut, Return, Pending

-----------------------------------------------------------------------------
\* The types, in parts.
FlagsType ==
    /\ closed \in BOOLEAN /\ closeDone \in BOOLEAN /\ reconnecting \in BOOLEAN
    /\ signal \in BOOLEAN /\ exhausted \in BOOLEAN
    /\ connectedAt \in {"zero", "recent", "stable"} /\ tools \in {"none", "listed", "orphan"}
    /\ syncMu \in {Sup, Notice, None}

CountsType ==
    failedAttempts \in 0 .. MaxAttempts /\ tries \in Nat /\ faults \in 0 .. MaxFaults

ClientsType ==
    /\ conn \in [Clients -> {"fresh", "up", "lost", "closed", "stuck"}] /\ losses \subseteq Clients
    /\ base \in Clients \cup {None} /\ gen \in Clients /\ abandoned \subseteq Clients
    /\ cand \in Clients \cup {None} /\ old \in Clients \cup {None} /\ from \in Clients \cup {None}

CallsType ==
    /\ req \in [Requesters -> [at : {"none", "begun", "sent", "broken", "ok", "error"},
                               gen : Clients \cup {None}, on : Clients \cup {None}]]
    /\ pc \in [Procs -> Labels]

\* They are all of them.
LEMMA TypeParts == TypeOK <=> FlagsType /\ CountsType /\ ClientsType /\ CallsType
    BY DEF TypeOK, FlagsType, CountsType, ClientsType, CallsType

\* Every step keeps the types of the flags.
LEMMA NextFlags == FlagsType /\ [Next]_vars => FlagsType'
<1> SUFFICES ASSUME FlagsType, [Next]_vars PROVE FlagsType'
    OBVIOUS
<1> USE BridgeAssumption, PartsAssumption DEF FlagsType
<1>1. CASE Age
    BY <1>1 DEF Age
<1>2. CASE BootStart
    BY <1>2 DEF BootStart, RequestReconnect
<1>3. CASE BootList
    BY <1>3 DEF BootList, Begun
<1>4. CASE BootListed
    BY <1>4 DEF BootListed, NoReq
<1>5. CASE BootPublish
    BY <1>5 DEF BootPublish
<1>6. CASE BootFailed
    BY <1>6 DEF BootFailed
<1>7. CASE Wake
    BY <1>7 DEF Wake
<1>8. CASE Attempt
    BY <1>8 DEF Attempt
<1>9. CASE Delay
    BY <1>9 DEF Delay
<1>10. CASE StartBegin
    BY <1>10 DEF StartBegin, Begun
<1>11. CASE StartCandidate
    BY <1>11 DEF StartCandidate, Unused
<1>12. CASE Drop
    BY <1>12 DEF Drop, CloseOk, CloseLate, NoReq
<1>13. CASE Swap
    BY <1>13 DEF Swap, NoReq
<1>14. CASE Drain
    BY <1>14 DEF Drain, InFlight, Draining, Active
<1>15. CASE Retire
    BY <1>15 DEF Retire, CloseOk, CloseLate
<1>16. CASE Undo
    BY <1>16 DEF Undo, CloseOk, CloseLate
<1>17. CASE Conclude
    BY <1>17 DEF Conclude
<1>18. CASE Exhaust
    BY <1>18 DEF Exhaust
<1>19. ASSUME NEW g \in Clients, Lost(g) PROVE FlagsType'
    BY <1>19 DEF Lost, RequestReconnect
<1>20. ASSUME NEW g \in Clients, Unstick(g) PROVE FlagsType'
    BY <1>20 DEF Unstick, CloseOk
<1>21. ASSUME NEW g \in Clients, Changed(g) PROVE FlagsType'
    BY <1>21 DEF Changed
<1>22. ASSUME NEW p \in Requesters, Pick(p) PROVE FlagsType'
    BY <1>22 DEF Pick, ReqEnd, ReqAt, NoReq
<1>23. ASSUME NEW p \in Requesters, Answer(p) PROVE FlagsType'
    BY <1>23 DEF Answer, ReqEnd, ReqAt, NoReq
<1>24. ASSUME NEW p \in Requesters, Break(p) PROVE FlagsType'
    BY <1>24 DEF Break, ReqEnd, ReqAt, NoReq
<1>25. ASSUME NEW p \in Requesters, Refuse(p) PROVE FlagsType'
    BY <1>25 DEF Refuse, ReqEnd, ReqAt, NoReq
<1>26. ASSUME NEW p \in Requesters, Report(p) PROVE FlagsType'
    BY <1>26 DEF Report, ReqEnd, ReqAt, NoReq, RequestReconnect
<1>27. ASSUME NEW c \in Callers, Call(c) PROVE FlagsType'
    BY <1>27 DEF Call, Begun
<1>28. ASSUME NEW p \in {Sup, Notice}, SyncBegin(p) PROVE FlagsType'
    BY <1>28 DEF SyncBegin, After, Begun
<1>29. ASSUME NEW p \in {Sup, Notice}, SyncEnd(p) PROVE FlagsType'
    BY <1>29 DEF SyncEnd, After, NoReq, Done
<1>30. ASSUME NEW c \in Closers \cup {Boot}, CloseBegin(c) PROVE FlagsType'
    BY <1>30 DEF CloseBegin
<1>31. ASSUME NEW c \in Closers \cup {Boot}, Quiesce(c) PROVE FlagsType'
    BY <1>31 DEF Quiesce
<1>32. ASSUME NEW c \in Closers \cup {Boot}, CloseBase(c) PROVE FlagsType'
    BY <1>32 DEF CloseBase, CloseOk, CloseLate
<1>33. ASSUME NEW c \in Closers \cup {Boot}, Join(c) PROVE FlagsType'
    BY <1>33 DEF Join
<1>34. CASE UNCHANGED vars  BY <1>34 DEF vars
<1> QED
    BY <1>1, <1>2, <1>3, <1>4, <1>5, <1>6, <1>7, <1>8, <1>9, <1>10, <1>11, <1>12,
       <1>13, <1>14, <1>15, <1>16, <1>17, <1>18, <1>19, <1>20, <1>21, <1>22, <1>23,
       <1>24, <1>25, <1>26, <1>27, <1>28, <1>29, <1>30, <1>31, <1>32, <1>33, <1>34
    DEF Next, BootStep, Supervise, Request, CloseStep

\* ... of the counters ...
LEMMA NextCounts == CountsType /\ [Next]_vars => CountsType'
<1> SUFFICES ASSUME CountsType, [Next]_vars PROVE CountsType'
    OBVIOUS
<1> USE BridgeAssumption, PartsAssumption DEF CountsType
<1>1. CASE Age
    BY <1>1 DEF Age
<1>2. CASE BootStart
    BY <1>2 DEF BootStart, RequestReconnect
<1>3. CASE BootList
    BY <1>3 DEF BootList, Begun
<1>4. CASE BootListed
    BY <1>4 DEF BootListed, NoReq
<1>5. CASE BootPublish
    BY <1>5 DEF BootPublish
<1>6. CASE BootFailed
    BY <1>6 DEF BootFailed
<1>7. CASE Wake
    BY <1>7 DEF Wake
<1>8. CASE Attempt
    BY <1>8 DEF Attempt
<1>9. CASE Delay
    BY <1>9 DEF Delay
<1>10. CASE StartBegin
    BY <1>10 DEF StartBegin, Begun
<1>11. CASE StartCandidate
    BY <1>11 DEF StartCandidate, Unused
<1>12. CASE Drop
    BY <1>12 DEF Drop, CloseOk, CloseLate, NoReq
<1>13. CASE Swap
    BY <1>13 DEF Swap, NoReq
<1>14. CASE Drain
    BY <1>14 DEF Drain, InFlight, Draining, Active
<1>15. CASE Retire
    BY <1>15 DEF Retire, CloseOk, CloseLate
<1>16. CASE Undo
    BY <1>16 DEF Undo, CloseOk, CloseLate
<1>17. CASE Conclude
    BY <1>17 DEF Conclude
<1>18. CASE Exhaust
    BY <1>18 DEF Exhaust
<1>19. ASSUME NEW g \in Clients, Lost(g) PROVE CountsType'
    BY <1>19 DEF Lost, RequestReconnect
<1>20. ASSUME NEW g \in Clients, Unstick(g) PROVE CountsType'
    BY <1>20 DEF Unstick, CloseOk
<1>21. ASSUME NEW g \in Clients, Changed(g) PROVE CountsType'
    BY <1>21 DEF Changed
<1>22. ASSUME NEW p \in Requesters, Pick(p) PROVE CountsType'
    BY <1>22 DEF Pick, ReqEnd, ReqAt, NoReq
<1>23. ASSUME NEW p \in Requesters, Answer(p) PROVE CountsType'
    BY <1>23 DEF Answer, ReqEnd, ReqAt, NoReq
<1>24. ASSUME NEW p \in Requesters, Break(p) PROVE CountsType'
    BY <1>24 DEF Break, ReqEnd, ReqAt, NoReq
<1>25. ASSUME NEW p \in Requesters, Refuse(p) PROVE CountsType'
    BY <1>25 DEF Refuse, ReqEnd, ReqAt, NoReq
<1>26. ASSUME NEW p \in Requesters, Report(p) PROVE CountsType'
    BY <1>26 DEF Report, ReqEnd, ReqAt, NoReq, RequestReconnect
<1>27. ASSUME NEW c \in Callers, Call(c) PROVE CountsType'
    BY <1>27 DEF Call, Begun
<1>28. ASSUME NEW p \in {Sup, Notice}, SyncBegin(p) PROVE CountsType'
    BY <1>28 DEF SyncBegin, After, Begun
<1>29. ASSUME NEW p \in {Sup, Notice}, SyncEnd(p) PROVE CountsType'
    BY <1>29 DEF SyncEnd, After, NoReq, Done
<1>30. ASSUME NEW c \in Closers \cup {Boot}, CloseBegin(c) PROVE CountsType'
    BY <1>30 DEF CloseBegin
<1>31. ASSUME NEW c \in Closers \cup {Boot}, Quiesce(c) PROVE CountsType'
    BY <1>31 DEF Quiesce
<1>32. ASSUME NEW c \in Closers \cup {Boot}, CloseBase(c) PROVE CountsType'
    BY <1>32 DEF CloseBase, CloseOk, CloseLate
<1>33. ASSUME NEW c \in Closers \cup {Boot}, Join(c) PROVE CountsType'
    BY <1>33 DEF Join
<1>34. CASE UNCHANGED vars  BY <1>34 DEF vars
<1> QED
    BY <1>1, <1>2, <1>3, <1>4, <1>5, <1>6, <1>7, <1>8, <1>9, <1>10, <1>11, <1>12,
       <1>13, <1>14, <1>15, <1>16, <1>17, <1>18, <1>19, <1>20, <1>21, <1>22, <1>23,
       <1>24, <1>25, <1>26, <1>27, <1>28, <1>29, <1>30, <1>31, <1>32, <1>33, <1>34
    DEF Next, BootStep, Supervise, Request, CloseStep

\* ... of the clients ...
LEMMA NextClients == ClientsType /\ IInv /\ [Next]_vars => ClientsType'
<1> SUFFICES ASSUME ClientsType, IInv, [Next]_vars PROVE ClientsType'
    OBVIOUS
<1> USE BridgeAssumption, PartsAssumption DEF ClientsType, IInv, HandsInv
<1>1. CASE Age
    BY <1>1 DEF Age
<1>2. CASE BootStart
    <2>1. 1 \in Clients
        OBVIOUS
    <2>2. conn' \in [Clients -> {"fresh", "up", "lost", "closed", "stuck"}]
        BY <1>2, <2>1 DEF BootStart
    <2>3. losses' \subseteq Clients
        BY <1>2, <2>1 DEF BootStart
    <2> QED
        BY <1>2, <2>2, <2>3 DEF BootStart
<1>3. CASE BootList
    BY <1>3 DEF BootList, Begun
<1>4. CASE BootListed
    BY <1>4 DEF BootListed, NoReq
<1>5. CASE BootPublish
    BY <1>5 DEF BootPublish
<1>6. CASE BootFailed
    BY <1>6 DEF BootFailed
<1>7. CASE Wake
    BY <1>7 DEF Wake
<1>8. CASE Attempt
    BY <1>8 DEF Attempt
<1>9. CASE Delay
    BY <1>9 DEF Delay
<1>10. CASE StartBegin
    BY <1>10 DEF StartBegin, Begun
<1>11. CASE StartCandidate
    BY <1>11 DEF StartCandidate, Unused
<1>12. CASE Drop
    BY <1>12 DEF Drop, CloseOk, CloseLate, NoReq
<1>13. CASE Swap
    BY <1>13 DEF Swap, NoReq
<1>14. CASE Drain
    BY <1>14 DEF Drain, InFlight, Draining, Active
<1>15. CASE Retire
    BY <1>15 DEF Retire, CloseOk, CloseLate
<1>16. CASE Undo
    BY <1>16 DEF Undo, CloseOk, CloseLate
<1>17. CASE Conclude
    BY <1>17 DEF Conclude
<1>18. CASE Exhaust
    BY <1>18 DEF Exhaust
<1>19. ASSUME NEW g \in Clients, Lost(g) PROVE ClientsType'
    BY <1>19 DEF Lost, RequestReconnect
<1>20. ASSUME NEW g \in Clients, Unstick(g) PROVE ClientsType'
    BY <1>20 DEF Unstick, CloseOk
<1>21. ASSUME NEW g \in Clients, Changed(g) PROVE ClientsType'
    BY <1>21 DEF Changed
<1>22. ASSUME NEW p \in Requesters, Pick(p) PROVE ClientsType'
    BY <1>22 DEF Pick, ReqEnd, ReqAt, NoReq
<1>23. ASSUME NEW p \in Requesters, Answer(p) PROVE ClientsType'
    BY <1>23 DEF Answer, ReqEnd, ReqAt, NoReq
<1>24. ASSUME NEW p \in Requesters, Break(p) PROVE ClientsType'
    <2>1. req[p].on \in Clients
        BY <1>24 DEF Break, ReqInv
    <2> QED
        BY <1>24, <2>1 DEF Break
<1>25. ASSUME NEW p \in Requesters, Refuse(p) PROVE ClientsType'
    BY <1>25 DEF Refuse, ReqEnd, ReqAt, NoReq
<1>26. ASSUME NEW p \in Requesters, Report(p) PROVE ClientsType'
    BY <1>26 DEF Report, ReqEnd, ReqAt, NoReq, RequestReconnect
<1>27. ASSUME NEW c \in Callers, Call(c) PROVE ClientsType'
    BY <1>27 DEF Call, Begun
<1>28. ASSUME NEW p \in {Sup, Notice}, SyncBegin(p) PROVE ClientsType'
    BY <1>28 DEF SyncBegin, After, Begun
<1>29. ASSUME NEW p \in {Sup, Notice}, SyncEnd(p) PROVE ClientsType'
    BY <1>29 DEF SyncEnd, After, NoReq, Done
<1>30. ASSUME NEW c \in Closers \cup {Boot}, CloseBegin(c) PROVE ClientsType'
    BY <1>30 DEF CloseBegin
<1>31. ASSUME NEW c \in Closers \cup {Boot}, Quiesce(c) PROVE ClientsType'
    BY <1>31 DEF Quiesce
<1>32. ASSUME NEW c \in Closers \cup {Boot}, CloseBase(c) PROVE ClientsType'
    BY <1>32 DEF CloseBase, CloseOk, CloseLate
<1>33. ASSUME NEW c \in Closers \cup {Boot}, Join(c) PROVE ClientsType'
    BY <1>33 DEF Join
<1>34. CASE UNCHANGED vars  BY <1>34 DEF vars
<1> QED
    BY <1>1, <1>2, <1>3, <1>4, <1>5, <1>6, <1>7, <1>8, <1>9, <1>10, <1>11, <1>12,
       <1>13, <1>14, <1>15, <1>16, <1>17, <1>18, <1>19, <1>20, <1>21, <1>22, <1>23,
       <1>24, <1>25, <1>26, <1>27, <1>28, <1>29, <1>30, <1>31, <1>32, <1>33, <1>34
    DEF Next, BootStep, Supervise, Request, CloseStep

\* ... and of the requests and the labels.
LEMMA NextCalls == CallsType /\ ClientsType /\ [Next]_vars => CallsType'
<1> SUFFICES ASSUME CallsType, ClientsType, [Next]_vars PROVE CallsType'
    OBVIOUS
<1> USE BridgeAssumption, PartsAssumption DEF CallsType, ClientsType, Labels
<1>1. CASE Age
    BY <1>1 DEF Age
<1>2. CASE BootStart
    BY <1>2 DEF BootStart, RequestReconnect
<1>3. CASE BootList
    BY <1>3 DEF BootList, Begun
<1>4. CASE BootListed
    BY <1>4 DEF BootListed, NoReq
<1>5. CASE BootPublish
    BY <1>5 DEF BootPublish
<1>6. CASE BootFailed
    BY <1>6 DEF BootFailed
<1>7. CASE Wake
    BY <1>7 DEF Wake
<1>8. CASE Attempt
    BY <1>8 DEF Attempt
<1>9. CASE Delay
    BY <1>9 DEF Delay
<1>10. CASE StartBegin
    BY <1>10 DEF StartBegin, Begun
<1>11. CASE StartCandidate
    BY <1>11 DEF StartCandidate, Unused
<1>12. CASE Drop
    BY <1>12 DEF Drop, CloseOk, CloseLate, NoReq
<1>13. CASE Swap
    BY <1>13 DEF Swap, NoReq
<1>14. CASE Drain
    BY <1>14 DEF Drain, InFlight, Draining, Active
<1>15. CASE Retire
    BY <1>15 DEF Retire, CloseOk, CloseLate
<1>16. CASE Undo
    BY <1>16 DEF Undo, CloseOk, CloseLate
<1>17. CASE Conclude
    BY <1>17 DEF Conclude
<1>18. CASE Exhaust
    BY <1>18 DEF Exhaust
<1>19. ASSUME NEW g \in Clients, Lost(g) PROVE CallsType'
    BY <1>19 DEF Lost, RequestReconnect
<1>20. ASSUME NEW g \in Clients, Unstick(g) PROVE CallsType'
    BY <1>20 DEF Unstick, CloseOk
<1>21. ASSUME NEW g \in Clients, Changed(g) PROVE CallsType'
    BY <1>21 DEF Changed
<1>22. ASSUME NEW p \in Requesters, Pick(p) PROVE CallsType'
    BY <1>22 DEF Pick, ReqEnd, ReqAt, NoReq
<1>23. ASSUME NEW p \in Requesters, Answer(p) PROVE CallsType'
    BY <1>23 DEF Answer, ReqEnd, ReqAt, NoReq
<1>24. ASSUME NEW p \in Requesters, Break(p) PROVE CallsType'
    BY <1>24 DEF Break, ReqEnd, ReqAt, NoReq
<1>25. ASSUME NEW p \in Requesters, Refuse(p) PROVE CallsType'
    BY <1>25 DEF Refuse, ReqEnd, ReqAt, NoReq
<1>26. ASSUME NEW p \in Requesters, Report(p) PROVE CallsType'
    BY <1>26 DEF Report, ReqEnd, ReqAt, NoReq, RequestReconnect
<1>27. ASSUME NEW c \in Callers, Call(c) PROVE CallsType'
    BY <1>27 DEF Call, Begun
<1>28. ASSUME NEW p \in {Sup, Notice}, SyncBegin(p) PROVE CallsType'
    BY <1>28 DEF SyncBegin, After, Begun
<1>29. ASSUME NEW p \in {Sup, Notice}, SyncEnd(p) PROVE CallsType'
    BY <1>29 DEF SyncEnd, After, NoReq, Done
<1>30. ASSUME NEW c \in Closers \cup {Boot}, CloseBegin(c) PROVE CallsType'
    BY <1>30 DEF CloseBegin
<1>31. ASSUME NEW c \in Closers \cup {Boot}, Quiesce(c) PROVE CallsType'
    BY <1>31 DEF Quiesce
<1>32. ASSUME NEW c \in Closers \cup {Boot}, CloseBase(c) PROVE CallsType'
    BY <1>32 DEF CloseBase, CloseOk, CloseLate
<1>33. ASSUME NEW c \in Closers \cup {Boot}, Join(c) PROVE CallsType'
    BY <1>33 DEF Join
<1>34. CASE UNCHANGED vars  BY <1>34 DEF vars
<1> QED
    BY <1>1, <1>2, <1>3, <1>4, <1>5, <1>6, <1>7, <1>8, <1>9, <1>10, <1>11, <1>12,
       <1>13, <1>14, <1>15, <1>16, <1>17, <1>18, <1>19, <1>20, <1>21, <1>22, <1>23,
       <1>24, <1>25, <1>26, <1>27, <1>28, <1>29, <1>30, <1>31, <1>32, <1>33, <1>34
    DEF Next, BootStep, Supervise, Request, CloseStep

\* Nothing happens before the bridge has started its client.
LEMMA NextBoot == TypeOK /\ IInv /\ [Next]_vars => BootInv'
<1> SUFFICES ASSUME TypeOK, IInv, [Next]_vars PROVE BootInv'
    OBVIOUS
<1> USE BridgeAssumption, PartsAssumption DEF TypeOK, IInv, BootInv, Active
<1>1. CASE Age
    BY <1>1 DEF Age
<1>2. CASE BootStart
    BY <1>2 DEF BootStart, RequestReconnect
<1>3. CASE BootList
    BY <1>3 DEF BootList, Begun
<1>4. CASE BootListed
    BY <1>4 DEF BootListed, NoReq
<1>5. CASE BootPublish
    BY <1>5 DEF BootPublish
<1>6. CASE BootFailed
    BY <1>6 DEF BootFailed
<1>7. CASE Wake
    BY <1>7 DEF Wake
<1>8. CASE Attempt
    BY <1>8 DEF Attempt
<1>9. CASE Delay
    BY <1>9 DEF Delay
<1>10. CASE StartBegin
    BY <1>10 DEF StartBegin, Begun
<1>11. CASE StartCandidate
    BY <1>11 DEF StartCandidate, Unused
<1>12. CASE Drop
    BY <1>12 DEF Drop, CloseOk, CloseLate, NoReq
<1>13. CASE Swap
    BY <1>13 DEF Swap, NoReq
<1>14. CASE Drain
    BY <1>14 DEF Drain, InFlight, Draining, Active
<1>15. CASE Retire
    BY <1>15 DEF Retire, CloseOk, CloseLate
<1>16. CASE Undo
    BY <1>16 DEF Undo, CloseOk, CloseLate
<1>17. CASE Conclude
    BY <1>17 DEF Conclude
<1>18. CASE Exhaust
    BY <1>18 DEF Exhaust
<1>19. ASSUME NEW g \in Clients, Lost(g) PROVE BootInv'
    BY <1>19 DEF Lost, RequestReconnect
<1>20. ASSUME NEW g \in Clients, Unstick(g) PROVE BootInv'
    BY <1>20 DEF Unstick, CloseOk
<1>21. ASSUME NEW g \in Clients, Changed(g) PROVE BootInv'
    BY <1>21 DEF Changed
<1>22. ASSUME NEW p \in Requesters, Pick(p) PROVE BootInv'
    BY <1>22 DEF Pick, ReqEnd, ReqAt, NoReq
<1>23. ASSUME NEW p \in Requesters, Answer(p) PROVE BootInv'
    BY <1>23 DEF Answer, ReqEnd, ReqAt, NoReq
<1>24. ASSUME NEW p \in Requesters, Break(p) PROVE BootInv'
    BY <1>24 DEF Break, ReqEnd, ReqAt, NoReq
<1>25. ASSUME NEW p \in Requesters, Refuse(p) PROVE BootInv'
    BY <1>25 DEF Refuse, ReqEnd, ReqAt, NoReq
<1>26. ASSUME NEW p \in Requesters, Report(p) PROVE BootInv'
    BY <1>26 DEF Report, ReqEnd, ReqAt, NoReq, RequestReconnect
<1>27. ASSUME NEW c \in Callers, Call(c) PROVE BootInv'
    BY <1>27 DEF Call, Begun
<1>28. ASSUME NEW p \in {Sup, Notice}, SyncBegin(p) PROVE BootInv'
    BY <1>28 DEF SyncBegin, After, Begun
<1>29. ASSUME NEW p \in {Sup, Notice}, SyncEnd(p) PROVE BootInv'
    BY <1>29 DEF SyncEnd, After, NoReq, Done
<1>30. ASSUME NEW c \in Closers \cup {Boot}, CloseBegin(c) PROVE BootInv'
    BY <1>30 DEF CloseBegin
<1>31. ASSUME NEW c \in Closers \cup {Boot}, Quiesce(c) PROVE BootInv'
    BY <1>31 DEF Quiesce
<1>32. ASSUME NEW c \in Closers \cup {Boot}, CloseBase(c) PROVE BootInv'
    BY <1>32 DEF CloseBase, CloseOk, CloseLate
<1>33. ASSUME NEW c \in Closers \cup {Boot}, Join(c) PROVE BootInv'
    BY <1>33 DEF Join
<1>34. CASE UNCHANGED vars  BY <1>34 DEF vars
<1> QED
    BY <1>1, <1>2, <1>3, <1>4, <1>5, <1>6, <1>7, <1>8, <1>9, <1>10, <1>11, <1>12,
       <1>13, <1>14, <1>15, <1>16, <1>17, <1>18, <1>19, <1>20, <1>21, <1>22, <1>23,
       <1>24, <1>25, <1>26, <1>27, <1>28, <1>29, <1>30, <1>31, <1>32, <1>33, <1>34
    DEF Next, BootStep, Supervise, Request, CloseStep

\* Every step keeps the account of the attempts.
LEMMA NextBudget == TypeOK /\ IInv /\ [Next]_vars => BudgetInv'
<1> SUFFICES ASSUME TypeOK, IInv, [Next]_vars PROVE BudgetInv'
    OBVIOUS
<1> USE BridgeAssumption, PartsAssumption DEF TypeOK, IInv, BootInv, BudgetInv, Recovering
<1>1. CASE Age
    BY <1>1 DEF Age
<1>2. CASE BootStart
    BY <1>2 DEF BootStart, RequestReconnect
<1>3. CASE BootList
    BY <1>3 DEF BootList, Begun
<1>4. CASE BootListed
    BY <1>4 DEF BootListed, NoReq
<1>5. CASE BootPublish
    BY <1>5 DEF BootPublish
<1>6. CASE BootFailed
    BY <1>6 DEF BootFailed
<1>7. CASE Wake
    BY <1>7 DEF Wake
<1>8. CASE Attempt
    BY <1>8 DEF Attempt
<1>9. CASE Delay
    <2>1. UNCHANGED <<connectedAt, tries, failedAttempts>>
        BY <1>9 DEF Delay
    <2>2. pc'[Sup] \in {"begin", "wait"} /\ (pc'[Sup] = "begin" => reconnecting' = reconnecting)
        BY <1>9 DEF Delay
    <2>3. pc[Sup] = "delay" /\ reconnecting /\ connectedAt = "zero"
        BY <1>9 DEF Delay
    <2>4. tries + 1 <= failedAttempts /\ tries <= failedAttempts
        BY <2>3
    <2>5. tries' + (IF pc'[Sup] \in {"delay", "begin", "start"} THEN 1 ELSE 0) <= failedAttempts'
        BY <2>1, <2>2, <2>4
    <2>6. Recovering' => reconnecting'
        BY <2>2, <2>3
    <2> QED
        BY <2>1, <2>3, <2>5, <2>6
<1>10. CASE StartBegin
    BY <1>10 DEF StartBegin, Begun
<1>11. CASE StartCandidate
    BY <1>11 DEF StartCandidate, Unused
<1>12. CASE Drop
    BY <1>12 DEF Drop, CloseOk, CloseLate, NoReq
<1>13. CASE Swap
    BY <1>13 DEF Swap, NoReq
<1>14. CASE Drain
    BY <1>14 DEF Drain, InFlight, Draining, Active
<1>15. CASE Retire
    BY <1>15 DEF Retire, CloseOk, CloseLate
<1>16. CASE Undo
    BY <1>16 DEF Undo, CloseOk, CloseLate
<1>17. CASE Conclude
    BY <1>17 DEF Conclude
<1>18. CASE Exhaust
    BY <1>18 DEF Exhaust
<1>19. ASSUME NEW g \in Clients, Lost(g) PROVE BudgetInv'
    BY <1>19 DEF Lost, RequestReconnect
<1>20. ASSUME NEW g \in Clients, Unstick(g) PROVE BudgetInv'
    BY <1>20 DEF Unstick, CloseOk
<1>21. ASSUME NEW g \in Clients, Changed(g) PROVE BudgetInv'
    BY <1>21 DEF Changed
<1>22. ASSUME NEW p \in Requesters, Pick(p) PROVE BudgetInv'
    BY <1>22 DEF Pick, ReqEnd, ReqAt, NoReq
<1>23. ASSUME NEW p \in Requesters, Answer(p) PROVE BudgetInv'
    BY <1>23 DEF Answer, ReqEnd, ReqAt, NoReq
<1>24. ASSUME NEW p \in Requesters, Break(p) PROVE BudgetInv'
    BY <1>24 DEF Break, ReqEnd, ReqAt, NoReq
<1>25. ASSUME NEW p \in Requesters, Refuse(p) PROVE BudgetInv'
    BY <1>25 DEF Refuse, ReqEnd, ReqAt, NoReq
<1>26. ASSUME NEW p \in Requesters, Report(p) PROVE BudgetInv'
    BY <1>26 DEF Report, ReqEnd, ReqAt, NoReq, RequestReconnect
<1>27. ASSUME NEW c \in Callers, Call(c) PROVE BudgetInv'
    BY <1>27 DEF Call, Begun
<1>28. ASSUME NEW p \in {Sup, Notice}, SyncBegin(p) PROVE BudgetInv'
    BY <1>28 DEF SyncBegin, After, Begun
<1>29. ASSUME NEW p \in {Sup, Notice}, SyncEnd(p) PROVE BudgetInv'
    BY <1>29 DEF SyncEnd, After, NoReq, Done
<1>30. ASSUME NEW c \in Closers \cup {Boot}, CloseBegin(c) PROVE BudgetInv'
    BY <1>30 DEF CloseBegin
<1>31. ASSUME NEW c \in Closers \cup {Boot}, Quiesce(c) PROVE BudgetInv'
    BY <1>31 DEF Quiesce
<1>32. ASSUME NEW c \in Closers \cup {Boot}, CloseBase(c) PROVE BudgetInv'
    BY <1>32 DEF CloseBase, CloseOk, CloseLate
<1>33. ASSUME NEW c \in Closers \cup {Boot}, Join(c) PROVE BudgetInv'
    BY <1>33 DEF Join
<1>34. CASE UNCHANGED vars  BY <1>34 DEF vars
<1> QED
    BY <1>1, <1>2, <1>3, <1>4, <1>5, <1>6, <1>7, <1>8, <1>9, <1>10, <1>11, <1>12,
       <1>13, <1>14, <1>15, <1>16, <1>17, <1>18, <1>19, <1>20, <1>21, <1>22, <1>23,
       <1>24, <1>25, <1>26, <1>27, <1>28, <1>29, <1>30, <1>31, <1>32, <1>33, <1>34
    DEF Next, BootStep, Supervise, Request, CloseStep

\* Every step keeps the supervisor's clients apart.
LEMMA NextHands == TypeOK /\ IInv /\ [Next]_vars => HandsInv'
<1> SUFFICES ASSUME TypeOK, IInv, [Next]_vars PROVE HandsInv'
    OBVIOUS
<1> USE BridgeAssumption, PartsAssumption DEF TypeOK, IInv, HandsInv
<1>1. CASE Age
    BY <1>1 DEF Age
<1>2. CASE BootStart
    BY <1>2 DEF BootStart, RequestReconnect
<1>3. CASE BootList
    BY <1>3 DEF BootList, Begun
<1>4. CASE BootListed
    BY <1>4 DEF BootListed, NoReq
<1>5. CASE BootPublish
    BY <1>5 DEF BootPublish
<1>6. CASE BootFailed
    BY <1>6 DEF BootFailed
<1>7. CASE Wake
    BY <1>7 DEF Wake
<1>8. CASE Attempt
    BY <1>8 DEF Attempt
<1>9. CASE Delay
    BY <1>9 DEF Delay
<1>10. CASE StartBegin
    BY <1>10 DEF StartBegin, Begun
<1>11. CASE StartCandidate
    BY <1>11 DEF StartCandidate, Unused
<1>12. CASE Drop
    BY <1>12 DEF Drop, CloseOk, CloseLate, NoReq
<1>13. CASE Swap
    BY <1>13 DEF Swap, NoReq
<1>14. CASE Drain
    BY <1>14 DEF Drain, InFlight, Draining, Active
<1>15. CASE Retire
    BY <1>15 DEF Retire, CloseOk, CloseLate
<1>16. CASE Undo
    BY <1>16 DEF Undo, CloseOk, CloseLate
<1>17. CASE Conclude
    BY <1>17 DEF Conclude
<1>18. CASE Exhaust
    BY <1>18 DEF Exhaust
<1>19. ASSUME NEW g \in Clients, Lost(g) PROVE HandsInv'
    BY <1>19 DEF Lost, RequestReconnect
<1>20. ASSUME NEW g \in Clients, Unstick(g) PROVE HandsInv'
    BY <1>20 DEF Unstick, CloseOk
<1>21. ASSUME NEW g \in Clients, Changed(g) PROVE HandsInv'
    BY <1>21 DEF Changed
<1>22. ASSUME NEW p \in Requesters, Pick(p) PROVE HandsInv'
    BY <1>22 DEF Pick, ReqEnd, ReqAt, NoReq
<1>23. ASSUME NEW p \in Requesters, Answer(p) PROVE HandsInv'
    BY <1>23 DEF Answer, ReqEnd, ReqAt, NoReq
<1>24. ASSUME NEW p \in Requesters, Break(p) PROVE HandsInv'
    BY <1>24 DEF Break, ReqEnd, ReqAt, NoReq
<1>25. ASSUME NEW p \in Requesters, Refuse(p) PROVE HandsInv'
    BY <1>25 DEF Refuse, ReqEnd, ReqAt, NoReq
<1>26. ASSUME NEW p \in Requesters, Report(p) PROVE HandsInv'
    BY <1>26 DEF Report, ReqEnd, ReqAt, NoReq, RequestReconnect
<1>27. ASSUME NEW c \in Callers, Call(c) PROVE HandsInv'
    BY <1>27 DEF Call, Begun
<1>28. ASSUME NEW p \in {Sup, Notice}, SyncBegin(p) PROVE HandsInv'
    BY <1>28 DEF SyncBegin, After, Begun
<1>29. ASSUME NEW p \in {Sup, Notice}, SyncEnd(p) PROVE HandsInv'
    BY <1>29 DEF SyncEnd, After, NoReq, Done
<1>30. ASSUME NEW c \in Closers \cup {Boot}, CloseBegin(c) PROVE HandsInv'
    BY <1>30 DEF CloseBegin
<1>31. ASSUME NEW c \in Closers \cup {Boot}, Quiesce(c) PROVE HandsInv'
    BY <1>31 DEF Quiesce
<1>32. ASSUME NEW c \in Closers \cup {Boot}, CloseBase(c) PROVE HandsInv'
    BY <1>32 DEF CloseBase, CloseOk, CloseLate
<1>33. ASSUME NEW c \in Closers \cup {Boot}, Join(c) PROVE HandsInv'
    BY <1>33 DEF Join
<1>34. CASE UNCHANGED vars  BY <1>34 DEF vars
<1> QED
    BY <1>1, <1>2, <1>3, <1>4, <1>5, <1>6, <1>7, <1>8, <1>9, <1>10, <1>11, <1>12,
       <1>13, <1>14, <1>15, <1>16, <1>17, <1>18, <1>19, <1>20, <1>21, <1>22, <1>23,
       <1>24, <1>25, <1>26, <1>27, <1>28, <1>29, <1>30, <1>31, <1>32, <1>33, <1>34
    DEF Next, BootStep, Supervise, Request, CloseStep

\* Every step keeps the requests with the generations they are counted for.
LEMMA NextReq == TypeOK /\ IInv /\ [Next]_vars => ReqInv'
<1> SUFFICES ASSUME TypeOK, IInv, [Next]_vars PROVE ReqInv'
    OBVIOUS
<1> USE BridgeAssumption, PartsAssumption DEF TypeOK, IInv, HandsInv, ReqInv
<1>1. CASE Age
    BY <1>1 DEF Age
<1>2. CASE BootStart
    BY <1>2 DEF BootStart, RequestReconnect
<1>3. CASE BootList
    BY <1>3 DEF BootList, Begun
<1>4. CASE BootListed
    BY <1>4 DEF BootListed, NoReq
<1>5. CASE BootPublish
    BY <1>5 DEF BootPublish
<1>6. CASE BootFailed
    BY <1>6 DEF BootFailed
<1>7. CASE Wake
    BY <1>7 DEF Wake
<1>8. CASE Attempt
    BY <1>8 DEF Attempt
<1>9. CASE Delay
    BY <1>9 DEF Delay
<1>10. CASE StartBegin
    BY <1>10 DEF StartBegin, Begun
<1>11. CASE StartCandidate
    BY <1>11 DEF StartCandidate, Unused
<1>12. CASE Drop
    BY <1>12 DEF Drop, CloseOk, CloseLate, NoReq
<1>13. CASE Swap
    BY <1>13 DEF Swap, NoReq
<1>14. CASE Drain
    BY <1>14 DEF Drain, InFlight, Draining, Active
<1>15. CASE Retire
    BY <1>15 DEF Retire, CloseOk, CloseLate
<1>16. CASE Undo
    BY <1>16 DEF Undo, CloseOk, CloseLate
<1>17. CASE Conclude
    BY <1>17 DEF Conclude
<1>18. CASE Exhaust
    BY <1>18 DEF Exhaust
<1>19. ASSUME NEW g \in Clients, Lost(g) PROVE ReqInv'
    BY <1>19 DEF Lost, RequestReconnect
<1>20. ASSUME NEW g \in Clients, Unstick(g) PROVE ReqInv'
    BY <1>20 DEF Unstick, CloseOk
<1>21. ASSUME NEW g \in Clients, Changed(g) PROVE ReqInv'
    BY <1>21 DEF Changed
<1>22. ASSUME NEW p \in Requesters, Pick(p) PROVE ReqInv'
    BY <1>22 DEF Pick, ReqEnd, ReqAt, NoReq
<1>23. ASSUME NEW p \in Requesters, Answer(p) PROVE ReqInv'
    BY <1>23 DEF Answer, ReqEnd, ReqAt, NoReq
<1>24. ASSUME NEW p \in Requesters, Break(p) PROVE ReqInv'
    BY <1>24 DEF Break, ReqEnd, ReqAt, NoReq
<1>25. ASSUME NEW p \in Requesters, Refuse(p) PROVE ReqInv'
    BY <1>25 DEF Refuse, ReqEnd, ReqAt, NoReq
<1>26. ASSUME NEW p \in Requesters, Report(p) PROVE ReqInv'
    BY <1>26 DEF Report, ReqEnd, ReqAt, NoReq, RequestReconnect
<1>27. ASSUME NEW c \in Callers, Call(c) PROVE ReqInv'
    BY <1>27 DEF Call, Begun
<1>28. ASSUME NEW p \in {Sup, Notice}, SyncBegin(p) PROVE ReqInv'
    BY <1>28 DEF SyncBegin, After, Begun
<1>29. ASSUME NEW p \in {Sup, Notice}, SyncEnd(p) PROVE ReqInv'
    BY <1>29 DEF SyncEnd, After, NoReq, Done
<1>30. ASSUME NEW c \in Closers \cup {Boot}, CloseBegin(c) PROVE ReqInv'
    BY <1>30 DEF CloseBegin
<1>31. ASSUME NEW c \in Closers \cup {Boot}, Quiesce(c) PROVE ReqInv'
    BY <1>31 DEF Quiesce
<1>32. ASSUME NEW c \in Closers \cup {Boot}, CloseBase(c) PROVE ReqInv'
    BY <1>32 DEF CloseBase, CloseOk, CloseLate
<1>33. ASSUME NEW c \in Closers \cup {Boot}, Join(c) PROVE ReqInv'
    BY <1>33 DEF Join
<1>34. CASE UNCHANGED vars  BY <1>34 DEF vars
<1> QED
    BY <1>1, <1>2, <1>3, <1>4, <1>5, <1>6, <1>7, <1>8, <1>9, <1>10, <1>11, <1>12,
       <1>13, <1>14, <1>15, <1>16, <1>17, <1>18, <1>19, <1>20, <1>21, <1>22, <1>23,
       <1>24, <1>25, <1>26, <1>27, <1>28, <1>29, <1>30, <1>31, <1>32, <1>33, <1>34
    DEF Next, BootStep, Supervise, Request, CloseStep

\* Every step keeps the clients in somebody's hands.
LEMMA NextLeak == TypeOK /\ IInv /\ [Next]_vars => LeakInv'
<1> SUFFICES ASSUME TypeOK, IInv, [Next]_vars PROVE LeakInv'
    OBVIOUS
<1> USE BridgeAssumption, PartsAssumption
    DEF TypeOK, IInv, BootInv, HandsInv, LeakInv, Held, Running
<1>1. CASE Age
    BY <1>1 DEF Age
<1>2. CASE BootStart
    BY <1>2 DEF BootStart, RequestReconnect
<1>3. CASE BootList
    BY <1>3 DEF BootList, Begun
<1>4. CASE BootListed
    BY <1>4 DEF BootListed, NoReq
<1>5. CASE BootPublish
    BY <1>5 DEF BootPublish
<1>6. CASE BootFailed
    BY <1>6 DEF BootFailed
<1>7. CASE Wake
    BY <1>7 DEF Wake
<1>8. CASE Attempt
    BY <1>8 DEF Attempt
<1>9. CASE Delay
    BY <1>9 DEF Delay
<1>10. CASE StartBegin
    BY <1>10 DEF StartBegin, Begun
<1>11. CASE StartCandidate
    BY <1>11 DEF StartCandidate, Unused
<1>12. CASE Drop
    BY <1>12 DEF Drop, CloseOk, CloseLate, NoReq
<1>13. CASE Swap
    BY <1>13 DEF Swap, NoReq
<1>14. CASE Drain
    BY <1>14 DEF Drain, InFlight, Draining, Active
<1>15. CASE Retire
    BY <1>15 DEF Retire, CloseOk, CloseLate
<1>16. CASE Undo
    BY <1>16 DEF Undo, CloseOk, CloseLate
<1>17. CASE Conclude
    BY <1>17 DEF Conclude
<1>18. CASE Exhaust
    BY <1>18 DEF Exhaust
<1>19. ASSUME NEW g \in Clients, Lost(g) PROVE LeakInv'
    BY <1>19 DEF Lost, RequestReconnect
<1>20. ASSUME NEW g \in Clients, Unstick(g) PROVE LeakInv'
    BY <1>20 DEF Unstick, CloseOk
<1>21. ASSUME NEW g \in Clients, Changed(g) PROVE LeakInv'
    BY <1>21 DEF Changed
<1>22. ASSUME NEW p \in Requesters, Pick(p) PROVE LeakInv'
    BY <1>22 DEF Pick, ReqEnd, ReqAt, NoReq
<1>23. ASSUME NEW p \in Requesters, Answer(p) PROVE LeakInv'
    BY <1>23 DEF Answer, ReqEnd, ReqAt, NoReq
<1>24. ASSUME NEW p \in Requesters, Break(p) PROVE LeakInv'
    BY <1>24 DEF Break, ReqEnd, ReqAt, NoReq
<1>25. ASSUME NEW p \in Requesters, Refuse(p) PROVE LeakInv'
    BY <1>25 DEF Refuse, ReqEnd, ReqAt, NoReq
<1>26. ASSUME NEW p \in Requesters, Report(p) PROVE LeakInv'
    BY <1>26 DEF Report, ReqEnd, ReqAt, NoReq, RequestReconnect
<1>27. ASSUME NEW c \in Callers, Call(c) PROVE LeakInv'
    BY <1>27 DEF Call, Begun
<1>28. ASSUME NEW p \in {Sup, Notice}, SyncBegin(p) PROVE LeakInv'
    BY <1>28 DEF SyncBegin, After, Begun
<1>29. ASSUME NEW p \in {Sup, Notice}, SyncEnd(p) PROVE LeakInv'
    BY <1>29 DEF SyncEnd, After, NoReq, Done
<1>30. ASSUME NEW c \in Closers \cup {Boot}, CloseBegin(c) PROVE LeakInv'
    BY <1>30 DEF CloseBegin
<1>31. ASSUME NEW c \in Closers \cup {Boot}, Quiesce(c) PROVE LeakInv'
    BY <1>31 DEF Quiesce
<1>32. ASSUME NEW c \in Closers \cup {Boot}, CloseBase(c) PROVE LeakInv'
    BY <1>32 DEF CloseBase, CloseOk, CloseLate
<1>33. ASSUME NEW c \in Closers \cup {Boot}, Join(c) PROVE LeakInv'
    BY <1>33 DEF Join
<1>34. CASE UNCHANGED vars  BY <1>34 DEF vars
<1> QED
    BY <1>1, <1>2, <1>3, <1>4, <1>5, <1>6, <1>7, <1>8, <1>9, <1>10, <1>11, <1>12,
       <1>13, <1>14, <1>15, <1>16, <1>17, <1>18, <1>19, <1>20, <1>21, <1>22, <1>23,
       <1>24, <1>25, <1>26, <1>27, <1>28, <1>29, <1>30, <1>31, <1>32, <1>33, <1>34
    DEF Next, BootStep, Supervise, Request, CloseStep

-----------------------------------------------------------------------------
\* The inductive invariant holds in every reachable state.
LEMMA Inductive == Spec => [](TypeOK /\ IInv)
<1>1. Init => TypeOK
    <2> SUFFICES ASSUME Init PROVE TypeOK
        OBVIOUS
    <2> USE BridgeAssumption DEF Init
    <2>1. FlagsType  BY DEF FlagsType
    <2>2. CountsType  BY DEF CountsType
    <2>3. ClientsType  BY DEF ClientsType
    <2>4. CallsType  BY DEF CallsType, NoReq, Labels
    <2> QED
        BY <2>1, <2>2, <2>3, <2>4, TypeParts
<1>2. Init => IInv
    <2> SUFFICES ASSUME Init PROVE IInv
        OBVIOUS
    <2> USE BridgeAssumption, PartsAssumption DEF Init
    <2>1. BootInv  BY DEF BootInv, Active, NoReq
    <2>2. BudgetInv  BY DEF BudgetInv, Recovering
    <2>3. HandsInv  BY DEF HandsInv
    <2>4. ReqInv  BY DEF ReqInv, NoReq
    <2>5. LeakInv  BY DEF LeakInv, Held, Running
    <2> QED
        BY <2>1, <2>2, <2>3, <2>4, <2>5 DEF IInv
<1>3. TypeOK /\ IInv /\ [Next]_vars => (TypeOK /\ IInv)'
    <2> SUFFICES ASSUME TypeOK, IInv, [Next]_vars PROVE (TypeOK /\ IInv)'
        OBVIOUS
    <2>1. FlagsType' /\ CountsType' /\ ClientsType' /\ CallsType'
        BY TypeParts, NextFlags, NextCounts, NextClients, NextCalls
    <2>2. TypeOK'
        BY <2>1 DEF TypeOK, FlagsType, CountsType, ClientsType, CallsType
    <2> QED
        BY <2>2, NextBoot, NextBudget, NextHands, NextReq, NextLeak DEF IInv
<1> QED
    BY <1>1, <1>2, <1>3, PTL DEF Spec

\* Type correctness of the bridge.
THEOREM TypeCorrect == Spec => []TypeOK
    BY Inductive, PTL

\* Between two stable connections the supervisor starts no more clients than
\* the budget allows, however often the connection comes back and dies again
\* (requestReconnect keeps failedAttempts unless the connection was stable).
THEOREM OutageBudgetHolds == Spec => []OutageBudget
<1>1. TypeOK /\ IInv => OutageBudget
    BY BridgeAssumption DEF TypeOK, IInv, BudgetInv, OutageBudget
<1> QED
    BY <1>1, Inductive, PTL

\* startBase closes the old client only when no request is sent to it, although
\* a request is counted for a generation before it reads the current client.
THEOREM RetiresQuietClientHolds == Spec => []RetiresQuietClient
<1>1. TypeOK /\ IInv => RetiresQuietClient
    BY PartsAssumption DEF TypeOK, IInv, HandsInv, ReqInv, RetiresQuietClient
<1> QED
    BY <1>1, Inductive, PTL

\* No client that may be alive is out of everybody's hands, at no point of a
\* recovery that fails or meets Close; and after Close only clients that were
\* abandoned with a request in flight, or whose own Close hangs, are left.
THEOREM NoClientLeaksHolds == Spec => []NoClientLeaks
<1>1. TypeOK /\ IInv => NoClientLeaks
    BY DEF IInv, LeakInv, Held, NoClientLeaks
<1> QED
    BY <1>1, Inductive, PTL
=============================================================================
