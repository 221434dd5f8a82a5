--------------------------- MODULE SchedulesProofs ---------------------------
(***************************************************************************)
(* Proofs about Schedules, for any interval, any clock and any number of   *)
(* schedules, failing appends, stops and crashes.                          *)
(*                                                                         *)
(* What Restore builds is a recursive function of the log. The induction   *)
(* over the log that it needs is done on the least position where a claim  *)
(* would fail.                                                             *)
(***************************************************************************)
EXTENDS Schedules, FiniteSetTheorems, WellFoundedInduction, TLAPS

ChangeEvents ==
    [op : {"create", "delete", "dispatch"}, id : Ids, kind : {"once", "every", ""},
     at : 0 .. MaxTime + Interval, accepted : 0 .. MaxTime]

\* The k-th change creates id.
Creates(k, id) == changes[k].op = "create" /\ changes[k].id = id
\* d has the lock of the session.
Busy(d) == pc[d] \notin {"rest", "show"}
\* The schedule of o exists, and if it is a one-shot then o is alone in S.
Known(o) == \E k \in DOMAIN changes : Creates(k, o[1])
Alone(o, S) == \A k \in DOMAIN changes : Creates(k, o[1]) /\ changes[k].kind = "once" => S = {o}

\* One delivery has the lock; only the ticker queues and only a turn shows.
LockInv ==
    /\ \A d, e \in Deliverers : Busy(d) /\ Busy(e) => d = e
    /\ pc["turn"] # "enqueue" /\ pc["ticker"] # "show"

\* A restart finds the live schedules, and no id that is still to be given out.
ReplayInv ==
    /\ ReplayAccepts
    /\ Restored.seen \subseteq 1 .. nextID /\ DOMAIN active \subseteq Restored.seen
    /\ \A k \in DOMAIN changes : changes[k].id \in Restored.seen

\* A schedule is created once, and keeps the kind it was created with.
KindInv ==
    /\ \A j, k \in DOMAIN changes : Creates(j, changes[k].id) /\ Creates(k, changes[k].id) => j = k
    /\ \A id \in DOMAIN active :
         \E k \in DOMAIN changes : Creates(k, id) /\ changes[k].kind = active[id].kind

\* The batch of the pass that has the lock: due when it was read, a one-shot
\* alone, fired before it is dispatched, and queued before that by the ticker.
BatchInv ==
    \A d \in Deliverers : Busy(d) =>
        /\ accepted <= now /\ ToSet(left) \subseteq ToSet(due)
        /\ \A o \in ToSet(due) : o[2] <= accepted /\ Known(o) /\ Alone(o, ToSet(due))
        /\ pc[d] \in {"enqueue", "fire"} => ToSet(due) \subseteq ToSet(left) \cup ToSet(fires)
        /\ pc[d] \in {"dispatch", "dispatching"} => ToSet(due) \subseteq ToSet(fires)
        /\ d = "ticker" /\ pc[d] # "enqueue" => ToSet(due) \in ToSet(inbox)

\* No key is queued twice, and the key of a one-shot is the one-shot.
InboxInv ==
    /\ IsInjective(inbox)
    /\ \A k \in DOMAIN inbox : \A o \in inbox[k] : Known(o) /\ Alone(o, inbox[k])

FiresInv == IsInjective(fires)

IInv == LockInv /\ ReplayInv /\ KindInv /\ BatchInv /\ InboxInv /\ FiresInv /\ QueuedBeforeDispatch

-----------------------------------------------------------------------------
(* Numbers and sequences.                                                  *)

\* A set of naturals has a least member.
LEMMA LeastNumber ==
    ASSUME NEW T, T \subseteq Nat, T # {}
    PROVE  \E x \in T : \A y \in T : x <= y
<1> DEFINE R == OpToRel(<, Nat)
<1>1. IsWellFoundedOn(R, Nat)
    BY NatLessThanWellFounded
<1>2. \A x, y \in Nat : <<y, x>> \in R <=> y < x
    BY DEF OpToRel
<1> HIDE DEF R
<1>3. PICK x \in T : \A y \in T : ~ (<<y, x>> \in R)
    BY <1>1, WFMin
<1>4. \A y \in T : y \in Nat /\ x \in Nat /\ ~ (y < x)
    BY <1>2, <1>3
<1> QED
    BY <1>4

\* A bounded set of naturals has a greatest member.
LEMMA GreatestNumber ==
    ASSUME NEW B \in Nat, NEW T, T \subseteq 0 .. B, T # {}
    PROVE  \E x \in T : \A y \in T : y <= x
<1> DEFINE C == {n \in 0 .. B : B - n \in T}
<1>1. C \subseteq Nat
    OBVIOUS
<1>2. C # {}
    <2>1. PICK t \in T : TRUE
        OBVIOUS
    <2>2. B - t \in 0 .. B /\ B - (B - t) = t
        OBVIOUS
    <2> QED
        BY <2>2
<1>3. PICK n \in C : \A m \in C : n <= m
    <2> HIDE DEF C
    <2> QED
        BY <1>1, <1>2, LeastNumber
<1>4. ASSUME NEW y \in T PROVE y <= B - n
    <2>1. y \in 0 .. B /\ n \in 0 .. B /\ B - y \in 0 .. B /\ B - (B - y) = y
        OBVIOUS
    <2>2. B - y \in C
        BY <2>1
    <2> QED
        BY <1>3, <2>1, <2>2
<1> QED
    BY <1>3, <1>4

\* What a sequence holds after an append and after its head has gone.
LEMMA SetOfAppend ==
    ASSUME NEW S, NEW s \in Seq(S), NEW x
    PROVE  ToSet(Append(s, x)) = ToSet(s) \cup {x}
<1>1. DOMAIN Append(s, x) = 1 .. Len(s) + 1 /\ DOMAIN s = 1 .. Len(s) /\ Len(s) \in Nat
    OBVIOUS
<1>2. \A k \in 1 .. Len(s) : Append(s, x)[k] = s[k]
    OBVIOUS
<1>3. Append(s, x)[Len(s) + 1] = x
    OBVIOUS
<1> QED
    BY <1>1, <1>2, <1>3 DEF ToSet

LEMMA SetOfTail ==
    ASSUME NEW S, NEW s \in Seq(S), s # <<>>
    PROVE  ToSet(s) = ToSet(Tail(s)) \cup {s[1]} /\ s[1] \in S /\ Tail(s) \in Seq(S)
<1>1. Len(s) \in Nat \ {0} /\ DOMAIN s = 1 .. Len(s) /\ DOMAIN Tail(s) = 1 .. Len(s) - 1
    OBVIOUS
<1>2. \A k \in 1 .. Len(s) - 1 : Tail(s)[k] = s[k + 1]
    OBVIOUS
<1>3. \A k \in 1 .. Len(s) : k = 1 \/ (k - 1 \in 1 .. Len(s) - 1 /\ Tail(s)[k - 1] = s[k])
    BY <1>1, <1>2
<1>4. ToSet(s) \subseteq ToSet(Tail(s)) \cup {s[1]}
    BY <1>1, <1>3 DEF ToSet
<1>5. ToSet(Tail(s)) \subseteq ToSet(s)
    BY <1>1, <1>2 DEF ToSet
<1>6. s[1] \in ToSet(s)
    BY <1>1 DEF ToSet
<1> QED
    BY <1>4, <1>5, <1>6

\* A new element at the end keeps a sequence injective.
LEMMA InjectiveAppend ==
    ASSUME NEW S, NEW s \in Seq(S), IsInjective(s), NEW x, x \notin ToSet(s)
    PROVE  IsInjective(Append(s, x))
<1>1. DOMAIN Append(s, x) = 1 .. Len(s) + 1 /\ DOMAIN s = 1 .. Len(s) /\ Len(s) \in Nat
    OBVIOUS
<1>2. \A k \in 1 .. Len(s) : Append(s, x)[k] = s[k] /\ s[k] # x
    BY DEF ToSet
<1>3. Append(s, x)[Len(s) + 1] = x
    OBVIOUS
<1> QED
    BY <1>1, <1>2, <1>3 DEF IsInjective

-----------------------------------------------------------------------------
(* NextTarget.                                                             *)

\* The next target is the first aligned one after the accepted time.
LEMMA NextTargetFacts ==
    ASSUME NEW at \in Nat, NEW t \in Nat, at <= t
    PROVE  /\ NextTarget(at, t) \in Nat
           /\ NextTarget(at, t) > t /\ NextTarget(at, t) <= t + Interval
           /\ (NextTarget(at, t) - at) % Interval = 0
<1> DEFINE q == (t - at) \div Interval
<1>1. Interval \in Nat \ {0} /\ t - at \in Nat
    BY ScheduleAssumption
<1>2. q \in Nat /\ q * Interval <= t - at /\ t - at < (q + 1) * Interval
    BY <1>1, SMT
<1>3. NextTarget(at, t) = at + (q + 1) * Interval
    BY DEF NextTarget
<1> HIDE DEF q
<1>4. (q + 1) * Interval = q * Interval + Interval /\ (q + 1) * Interval \in Nat /\ q * Interval \in Nat
    BY <1>1, <1>2, SMT
<1>5. ((q + 1) * Interval) % Interval = 0
    <2>1. q + 1 \in Nat
        BY <1>2
    <2> DEFINE k == q + 1
    <2> HIDE DEF k
    <2>2. (k * Interval) % Interval = 0
        BY <1>1, <2>1, SMT DEF k
    <2> QED
        BY <2>2 DEF k
<1> DEFINE gap == (q + 1) * Interval
           some == q * Interval
<1>6. gap \in Nat /\ some \in Nat /\ gap = some + Interval /\ some <= t - at /\ t - at < gap
      /\ gap % Interval = 0 /\ NextTarget(at, t) = at + gap
    BY <1>2, <1>3, <1>4, <1>5
<1> HIDE DEF gap, some
<1>7. NextTarget(at, t) - at = gap
    BY <1>6
<1> QED
    BY <1>1, <1>6, <1>7

-----------------------------------------------------------------------------
(* Restore: the fold over the log.                                         *)

\* The projection after one more change.
Extended(p, c) ==
    IF p.ok /\ Acceptable(p, c)
    THEN [ok |-> TRUE, active |-> Applied(p.active, c), seen |-> p.seen \cup {c.id}]
    ELSE [p EXCEPT !.ok = FALSE]
Empty == [ok |-> TRUE, active |-> <<>>, seen |-> {}]
\* g folds the log cs up to its n-th change.
Folds(g, cs, n) == g = [k \in 0 .. n |-> IF k = 0 THEN Empty ELSE Extended(g[k - 1], cs[k])]

\* Every log can be folded.
LEMMA FoldExists ==
    ASSUME NEW cs
    PROVE  \A n \in Nat : \E g : Folds(g, cs, n)
<1> DEFINE Bad == {n \in Nat : ~ \E g : Folds(g, cs, n)}
<1> SUFFICES ASSUME Bad # {} PROVE FALSE
    OBVIOUS
<1>1. PICK n \in Bad : \A m \in Bad : n <= m
    <2>1. Bad \subseteq Nat
        OBVIOUS
    <2> HIDE DEF Bad
    <2> QED
        BY <2>1, LeastNumber
<1>2. n # 0
    <2>1. Folds([k \in 0 .. 0 |-> Empty], cs, 0)
        BY DEF Folds
    <2> QED
        BY <2>1
<1>3. n \in Nat /\ n - 1 \in Nat /\ n - 1 \notin Bad
    <2>1. n \in Nat
        OBVIOUS
    <2> HIDE DEF Bad
    <2> QED
        BY <1>1, <1>2, <2>1
<1>4. PICK g : Folds(g, cs, n - 1)
    BY <1>3
<1> DEFINE h == [k \in 0 .. n |-> IF k < n THEN g[k] ELSE Extended(g[n - 1], cs[n])]
<1>5. \A k \in 0 .. n - 1 : h[k] = g[k]
    BY <1>3
<1>6. h[n] = Extended(h[n - 1], cs[n])
    BY <1>3, <1>5
<1>7. \A k \in 0 .. n - 1 : g[k] = IF k = 0 THEN Empty ELSE Extended(g[k - 1], cs[k])
    BY <1>3, <1>4 DEF Folds
<1>8. \A k \in 0 .. n : h[k] = IF k = 0 THEN Empty ELSE Extended(h[k - 1], cs[k])
    <2>1. \A k \in 0 .. n - 1 : h[k] = IF k = 0 THEN Empty ELSE Extended(h[k - 1], cs[k])
        BY <1>3, <1>5, <1>7
    <2> HIDE DEF h
    <2> QED
        BY <1>2, <1>3, <1>6, <2>1
<1>9. Folds(h, cs, n)
    BY <1>8 DEF Folds
<1> QED
    BY <1>9

\* Two logs that agree up to n are folded to the same up to n.
LEMMA FoldUnique ==
    ASSUME NEW m \in Nat, NEW n \in 0 .. m, NEW cs, NEW ds, NEW g, NEW h,
           Folds(g, cs, n), Folds(h, ds, m), \A k \in 1 .. n : cs[k] = ds[k]
    PROVE  g[n] = h[n]
<1> DEFINE Bad == {k \in 0 .. n : g[k] # h[k]}
<1> SUFFICES ASSUME Bad # {} PROVE FALSE
    OBVIOUS
<1>1. PICK k \in Bad : \A j \in Bad : k <= j
    <2>1. Bad \subseteq Nat
        OBVIOUS
    <2> HIDE DEF Bad
    <2> QED
        BY <2>1, LeastNumber
<1>2. k \in 0 .. n /\ g[k] # h[k]
    OBVIOUS
<1>3. g[k] = IF k = 0 THEN Empty ELSE Extended(g[k - 1], cs[k])
    BY <1>2 DEF Folds
<1>4. h[k] = IF k = 0 THEN Empty ELSE Extended(h[k - 1], ds[k])
    BY <1>2 DEF Folds
<1>5. k # 0
    BY <1>2, <1>3, <1>4
<1>6. k - 1 \in 0 .. n /\ k - 1 \notin Bad
    <2>1. k - 1 \in 0 .. n /\ ~ (k <= k - 1)
        BY <1>2, <1>5
    <2> HIDE DEF Bad
    <2> QED
        BY <1>1, <2>1
<1>7. g[k - 1] = h[k - 1] /\ cs[k] = ds[k]
    BY <1>2, <1>5, <1>6
<1> QED
    BY <1>2, <1>3, <1>4, <1>5, <1>7

\* Restored over any log.
Projection(cs) ==
    LET fold[k \in 0 .. Len(cs)] ==
          IF k = 0 THEN [ok |-> TRUE, active |-> <<>>, seen |-> {}]
          ELSE LET p == fold[k - 1]  c == cs[k]
               IN  IF p.ok /\ Acceptable(p, c)
                   THEN [ok |-> TRUE, active |-> Applied(p.active, c), seen |-> p.seen \cup {c.id}]
                   ELSE [p EXCEPT !.ok = FALSE]
    IN  fold[Len(cs)]

LEMMA RestoredIsProjection == Restored = Projection(changes) /\ Restored' = Projection(changes')
BY DEF Restored, Projection, Acceptable, Applied, With, Without, NextTarget

LEMMA ProjectionFolds ==
    ASSUME NEW S, NEW cs \in Seq(S)
    PROVE  \E g : Folds(g, cs, Len(cs)) /\ Projection(cs) = g[Len(cs)]
<1>1. \E g : Folds(g, cs, Len(cs))
    BY FoldExists
<1> DEFINE fold[k \in 0 .. Len(cs)] == IF k = 0 THEN Empty ELSE Extended(fold[k - 1], cs[k])
<1>2. Folds(fold, cs, Len(cs))
    BY <1>1, Zenon DEF Folds
<1>3. Projection(cs) = fold[Len(cs)]
    BY DEF Projection, Empty, Extended
<1> QED
    BY <1>2, <1>3, Zenon

LEMMA ProjectionEmpty == Projection(<<>>) = Empty
<1>1. PICK g : Folds(g, <<>>, Len(<<>>)) /\ Projection(<<>>) = g[Len(<<>>)]
    <2>1. <<>> \in Seq({})
        OBVIOUS
    <2> QED
        BY <2>1, ProjectionFolds
<1>2. Len(<<>>) = 0
    OBVIOUS
<1> QED
    BY <1>1, <1>2 DEF Folds

LEMMA ProjectionAppend ==
    ASSUME NEW S, NEW cs \in Seq(S), NEW c \in S
    PROVE  Projection(Append(cs, c)) = Extended(Projection(cs), c)
<1> DEFINE ds == Append(cs, c)
           n == Len(cs)
<1>1. /\ ds \in Seq(S) /\ Len(ds) = n + 1 /\ n \in Nat /\ ds[n + 1] = c
      /\ \A k \in 1 .. n : cs[k] = ds[k]
    OBVIOUS
<1> HIDE DEF ds, n
<1>2. PICK g : Folds(g, cs, n) /\ Projection(cs) = g[n]
    BY ProjectionFolds DEF n
<1>3. PICK h : Folds(h, ds, n + 1) /\ Projection(ds) = h[n + 1]
    BY <1>1, ProjectionFolds
<1>4. g[n] = h[n]
    <2>1. n + 1 \in Nat /\ n \in 0 .. n + 1
        BY <1>1
    <2> QED
        BY <1>1, <1>2, <1>3, <2>1, FoldUnique
<1>5. h[n + 1] = Extended(h[n], ds[n + 1])
    <2>1. n + 1 \in 0 .. n + 1 /\ n + 1 # 0 /\ (n + 1) - 1 = n
        BY <1>1
    <2> QED
        BY <1>3, <2>1 DEF Folds
<1> QED
    BY <1>1, <1>2, <1>3, <1>4, <1>5 DEF ds

\* An append of a change that Restore accepts moves the projection along.
LEMMA RestoredAppend ==
    ASSUME changes \in Seq(ChangeEvents), NEW c \in ChangeEvents, changes' = Append(changes, c),
           ReplayAccepts, Acceptable(Restored, c)
    PROVE  /\ Restored'.ok /\ Restored'.active = Applied(active, c)
           /\ Restored'.seen = Restored.seen \cup {c.id}
<1>1. Restored' = Extended(Restored, c)
    BY RestoredIsProjection, ProjectionAppend
<1>2. Restored' = [ok |-> TRUE, active |-> Applied(Restored.active, c), seen |-> Restored.seen \cup {c.id}]
    BY <1>1 DEF Extended, ReplayAccepts
<1>3. Restored.active = active
    BY DEF ReplayAccepts
<1> HIDE DEF Restored
<1> QED
    BY <1>2, <1>3

-----------------------------------------------------------------------------
(* The batch that Due returns.                                             *)

\* The types, in three parts.
LogType ==
    /\ changes \in Seq(ChangeEvents) /\ fires \in Seq(Occurrences)
    /\ inbox \in Seq(SUBSET Occurrences) /\ shown \subseteq Occurrences
Schedule == [kind : {"once", "every"}, at : 1 .. now + Interval]
ActiveType ==
    /\ DOMAIN active \subseteq Ids /\ active \in [DOMAIN active -> Schedule]
    /\ nextID \in 0 .. MaxId /\ now \in 0 .. MaxTime
PassType ==
    /\ phase \in {"open", "stopping", "closed"}
    /\ pc \in [Deliverers -> {"rest", "enqueue", "fire", "dispatch", "dispatching", "show"}]
    /\ due \in Seq(Occurrences) /\ left \in Seq(Occurrences) /\ message \in Seq(Occurrences)
    /\ accepted \in 0 .. MaxTime /\ handled \subseteq Deliverers \X Occurrences
    /\ troubles \in 0 .. MaxTroubles

Sorted(s, S) ==
    s \in [1 .. Cardinality(S) -> S] /\ \A j, k \in DOMAIN s : j < k => Earlier(s[j], s[k])

\* Among some live schedules one comes last.
LEMMA LastExists ==
    ASSUME ActiveType, NEW S \in SUBSET DOMAIN active, S # {}
    PROVE  \E x \in S : \A y \in S \ {x} : Earlier(y, x)
<1> DEFINE A == {active[x].at : x \in S}
<1>0. /\ now + Interval \in Nat /\ MaxId \in Nat
      /\ \A x \in S : x \in 0 .. MaxId /\ active[x].at \in 0 .. now + Interval
    BY ScheduleAssumption DEF ActiveType, Schedule, Ids
<1>1. PICK a \in A : \A b \in A : b <= a
    <2>1. A \subseteq 0 .. now + Interval /\ A # {}
        BY <1>0
    <2> HIDE DEF A
    <2> QED
        BY <1>0, <2>1, GreatestNumber
<1> DEFINE L == {x \in S : active[x].at = a}
<1>2. PICK x \in L : \A y \in L : y <= x
    <2>1. L \subseteq 0 .. MaxId /\ L # {}
        BY <1>0
    <2> HIDE DEF L
    <2> QED
        BY <1>0, <2>1, GreatestNumber
<1>3. ASSUME NEW y \in S \ {x} PROVE Earlier(y, x)
    <2>1. active[y].at <= active[x].at /\ (active[y].at = active[x].at => y <= x)
        BY <1>1, <1>2
    <2>2. y \in Nat /\ x \in Nat /\ active[y].at \in Nat /\ active[x].at \in Nat /\ y # x
        BY <1>0
    <2> QED
        BY <2>1, <2>2 DEF Earlier
<1> QED
    BY <1>2, <1>3

\* Any live schedules can be put in order.
LEMMA SortedExists ==
    ASSUME ActiveType, NEW S \in SUBSET DOMAIN active
    PROVE  IsFiniteSet(S) /\ \E s : Sorted(s, S)
<1>0. \A T \in SUBSET DOMAIN active : IsFiniteSet(T) /\ Cardinality(T) \in Nat
    <2>1. IsFiniteSet(1 .. MaxId)
        <3>1. 1 \in Int /\ MaxId \in Int
            BY ScheduleAssumption
        <3> QED
            BY <3>1, FS_Interval
    <2> QED
        BY <2>1, FS_Subset, FS_CardinalityType DEF ActiveType, Ids
<1> DEFINE Bad == {n \in Nat : \E T \in SUBSET DOMAIN active : Cardinality(T) = n /\ ~ \E s : Sorted(s, T)}
<1> SUFFICES ASSUME Bad # {} PROVE FALSE
    BY <1>0
<1>1. PICK n \in Bad : \A m \in Bad : n <= m
    <2>1. Bad \subseteq Nat
        OBVIOUS
    <2> HIDE DEF Bad
    <2> QED
        BY <2>1, LeastNumber
<1>2. PICK T \in SUBSET DOMAIN active : Cardinality(T) = n /\ ~ \E s : Sorted(s, T)
    OBVIOUS
<1>3. n \in Nat
    OBVIOUS
<1>4. CASE T = {}
    <2>1. n = 0
        BY <1>2, <1>4, FS_EmptySet
    <2> DEFINE s == [k \in 1 .. 0 |-> 0]
    <2>2. s \in [1 .. 0 -> {}] /\ DOMAIN s = {}
        OBVIOUS
    <2>3. Sorted(s, T)
        BY <1>2, <1>4, <2>1, <2>2 DEF Sorted
    <2> QED
        BY <1>2, <2>3
<1>5. CASE T # {}
    <2>1. PICK x \in T : \A y \in T \ {x} : Earlier(y, x)
        BY <1>5, LastExists
    <2> DEFINE R == T \ {x}
    <2>2. R \in SUBSET DOMAIN active /\ Cardinality(R) = n - 1 /\ n # 0
        BY <1>0, <1>2, <1>5, FS_RemoveElement, FS_EmptySet
    <2>3. n - 1 \in Nat /\ n - 1 \notin Bad
        <3>1. n - 1 \in Nat /\ ~ (n <= n - 1)
            BY <1>3, <2>2
        <3> HIDE DEF Bad
        <3> QED
            BY <1>1, <3>1
    <2>4. PICK s : Sorted(s, R)
        BY <2>2, <2>3
    <2> DEFINE t == [k \in 1 .. n |-> IF k < n THEN s[k] ELSE x]
    <2>5. s \in [1 .. n - 1 -> R] /\ \A j, k \in 1 .. n - 1 : j < k => Earlier(s[j], s[k])
        BY <2>2, <2>4 DEF Sorted
    <2>6. t \in [1 .. n -> T]
        BY <1>3, <2>5
    <2>7. ASSUME NEW j \in 1 .. n, NEW k \in 1 .. n, j < k PROVE Earlier(t[j], t[k])
        <3>1. j \in 1 .. n - 1 /\ t[j] = s[j] /\ s[j] \in R
            BY <1>3, <2>5, <2>7
        <3>2. CASE k < n
            <4>1. k \in 1 .. n - 1 /\ t[k] = s[k]
                BY <1>3, <3>2
            <4> QED
                BY <2>5, <2>7, <3>1, <4>1
        <3>3. CASE ~ (k < n)
            <4>1. t[k] = x
                BY <3>3
            <4> QED
                BY <2>1, <3>1, <4>1
        <3> QED
            BY <3>2, <3>3
    <2>8. Sorted(t, T)
        BY <1>2, <2>6, <2>7 DEF Sorted
    <2> QED
        BY <1>2, <2>8
<1> QED
    BY <1>4, <1>5

LEMMA OrderedFacts ==
    ASSUME ActiveType, NEW S \in SUBSET DOMAIN active
    PROVE  /\ Ordered(S) \in Seq(S) /\ Len(Ordered(S)) \in Nat
           /\ S # {} => Len(Ordered(S)) >= 1
<1> DEFINE n == Cardinality(S)
<1>1. IsFiniteSet(S) /\ n \in Nat /\ (S # {} => n >= 1)
    <2>1. IsFiniteSet(S)
        BY SortedExists
    <2>2. n \in Nat /\ (n = 0 <=> S = {})
        BY <2>1, FS_CardinalityType, FS_EmptySet
    <2> HIDE DEF n
    <2> QED
        BY <2>1, <2>2
<1>2. \E s \in [1 .. n -> S] : \A j, k \in DOMAIN s : j < k => Earlier(s[j], s[k])
    BY SortedExists DEF Sorted
<1>3. Ordered(S) \in [1 .. n -> S]
    BY <1>2, Zenon DEF Ordered
<1> DEFINE o == Ordered(S)
<1> HIDE DEF n, o
<1>4. o \in Seq(S) /\ Len(o) = n
    BY <1>1, <1>3 DEF o
<1> QED
    BY <1>1, <1>4 DEF o

\* What is due: live targets that are past, and a one-shot alone.
LEMMA DueFacts ==
    ASSUME ActiveType
    PROVE  /\ Due \in Seq(Occurrences)
           /\ \A o \in ToSet(Due) :
                /\ o[1] \in DOMAIN active /\ o[2] = active[o[1]].at /\ o[2] <= now
                /\ active[o[1]].kind = "once" => ToSet(Due) = {o}
<1> DEFINE ids == IF Overdue("once") # {} THEN SubSeq(Ordered(Overdue("once")), 1, 1)
                  ELSE Ordered(Overdue("every"))
           d == [k \in 1 .. Len(ids) |-> <<ids[k], active[ids[k]].at>>]
<1>1. Due = d
    BY DEF Due
<1>2. Overdue("once") \in SUBSET DOMAIN active /\ Overdue("every") \in SUBSET DOMAIN active
    BY DEF Overdue
<1>3. /\ ids \in Seq(DOMAIN active) /\ Len(ids) \in Nat
      /\ \A k \in 1 .. Len(ids) : active[ids[k]].at <= now
                                  /\ (active[ids[k]].kind = "once" => Len(ids) = 1)
    <2>1. CASE Overdue("once") # {}
        <3> DEFINE all == Ordered(Overdue("once"))
        <3>1. all \in Seq(Overdue("once")) /\ Len(all) \in Nat /\ Len(all) >= 1
            BY <1>2, <2>1, OrderedFacts
        <3>2. ids = SubSeq(all, 1, 1)
            BY <2>1
        <3> HIDE DEF all
        <3>3. all[1] \in Overdue("once") /\ SubSeq(all, 1, 1) = [k \in 1 .. 1 |-> all[k]]
            BY <3>1
        <3>4. ids = [k \in 1 .. 1 |-> all[k]]
            BY <3>2, <3>3
        <3> HIDE DEF ids
        <3>5. Len(ids) = 1 /\ ids[1] = all[1] /\ ids \in Seq(DOMAIN active)
            BY <1>2, <3>3, <3>4
        <3> QED
            BY <3>3, <3>5 DEF Overdue
    <2>2. CASE Overdue("once") = {}
        <3>1. ids = Ordered(Overdue("every"))
            BY <2>2
        <3> HIDE DEF ids
        <3>2. ids \in Seq(Overdue("every")) /\ Len(ids) \in Nat
            BY <1>2, <3>1, OrderedFacts
        <3>3. \A k \in 1 .. Len(ids) : ids[k] \in Overdue("every")
            BY <3>2
        <3>4. ids \in Seq(DOMAIN active)
            BY <1>2, <3>2
        <3> QED
            BY <3>2, <3>3, <3>4 DEF Overdue
    <2> QED
        BY <2>1, <2>2
<1>4. \A id \in DOMAIN active : <<id, active[id].at>> \in Occurrences
    BY ScheduleAssumption DEF ActiveType, Schedule, Occurrences, Targets
<1> HIDE DEF ids
<1>5. \A k \in 1 .. Len(ids) : ids[k] \in DOMAIN active
    BY <1>3
<1>6. d \in Seq(Occurrences) /\ DOMAIN d = 1 .. Len(ids)
    BY <1>3, <1>4, <1>5
<1>7. ASSUME NEW o \in ToSet(d)
      PROVE  /\ o[1] \in DOMAIN active /\ o[2] = active[o[1]].at /\ o[2] <= now
             /\ active[o[1]].kind = "once" => ToSet(d) = {o}
    <2>1. PICK k \in 1 .. Len(ids) : o = <<ids[k], active[ids[k]].at>>
        BY <1>6 DEF ToSet
    <2>2. o[1] = ids[k] /\ o[2] = active[ids[k]].at
        BY <2>1
    <2>3. ASSUME Len(ids) = 1 PROVE ToSet(d) = {o}
        <3>1. k = 1 /\ DOMAIN d = {1}
            BY <1>6, <2>3
        <3>2. d[1] = o
            BY <2>1, <2>3, <3>1
        <3> HIDE DEF d
        <3> QED
            BY <3>1, <3>2 DEF ToSet
    <2> QED
        BY <1>3, <1>5, <2>2, <2>3
<1> HIDE DEF d
<1> QED
    BY <1>1, <1>6, <1>7

\* A restart counts on from the highest id of the log.
LEMMA LastIdFacts ==
    ASSUME NEW B \in Nat, Restored.seen \subseteq 1 .. B
    PROVE  LastId \in 0 .. B /\ Restored.seen \subseteq 1 .. LastId
<1> DEFINE S == Restored.seen
<1>1. CASE S = {}
    BY <1>1 DEF LastId
<1>2. CASE S # {}
    <2>1. LastId = Max(S)
        BY <1>2 DEF LastId
    <2>2. S \subseteq 1 .. B
        OBVIOUS
    <2> HIDE DEF S
    <2>3. \E x \in S : \A y \in S : y <= x
        <3>1. S \subseteq 0 .. B
            BY <2>2
        <3> QED
            BY <1>2, <3>1, GreatestNumber
    <2>4. \E x \in S : \A y \in S : x >= y
        BY <2>2, <2>3
    <2>5. Max(S) \in S /\ \A y \in S : Max(S) >= y
        BY <2>4, Zenon DEF Max
    <2>6. LastId \in 1 .. B /\ \A y \in S : y \in 1 .. B /\ LastId >= y
        BY <2>1, <2>2, <2>5
    <2>7. S \subseteq 1 .. LastId
        BY <2>6
    <2> QED
        BY <2>6, <2>7 DEF S
<1> QED
    BY <1>1, <1>2

-----------------------------------------------------------------------------
(* How a step changes the log of schedules and the projection.             *)

\* A change that the code may append now.
Legal(c) ==
    \/ /\ c.op = "create" /\ c.id = nextID + 1
       /\ c.kind \in {"once", "every"} /\ c.at \in 1 .. now + Interval
    \/ c.op = "delete" /\ c.id \in DOMAIN active
    \/ /\ c.op = "dispatch" /\ c.id \in DOMAIN active /\ c.accepted = accepted
       /\ active[c.id].at <= accepted /\ accepted <= now
Moves(c) ==
    /\ changes' = Append(changes, c) /\ active' = Applied(active, c)
    /\ nextID' = IF c.op = "create" THEN nextID + 1 ELSE nextID
Rests ==
    UNCHANGED <<changes, active>> /\ nextID' \in 0 .. MaxId /\ Restored.seen \subseteq 1 .. nextID'

\* A repeating schedule goes from one target to the next after the accepted time.
Advances(was, is) ==
    is > accepted /\ is <= accepted + Interval /\ (is - was) % Interval = 0 /\ was <= accepted

LEMMA CreateMoves ==
    ASSUME LogType, ActiveType, PassType, IInv, NEW kind \in {"once", "every"}, Create(kind)
    PROVE  Rests \/ \E c \in ChangeEvents : Legal(c) /\ Moves(c)
<1> DEFINE at == now + (IF kind = "every" THEN Interval ELSE 1)
           c == Change("create", nextID + 1, kind, at, 0)
<1>1. nextID < MaxId /\ nextID' = nextID + 1
    BY DEF Create
<1>2. nextID + 1 \in Ids /\ at \in 1 .. now + Interval /\ at \in 0 .. MaxTime + Interval /\ 0 \in 0 .. MaxTime
    BY <1>1, ScheduleAssumption DEF ActiveType, Ids
<1> HIDE DEF at
<1>3. c \in ChangeEvents /\ c.op = "create" /\ c.id = nextID + 1 /\ c.kind = kind /\ c.at = at
    BY <1>2 DEF Change, ChangeEvents
<1>4. (changes' = Append(changes, c) /\ active' = Applied(active, c)) \/ UNCHANGED <<changes, active>>
    BY DEF Create, AppendFails, logVars, at
<1> HIDE DEF c
<1>5. CASE changes' = Append(changes, c) /\ active' = Applied(active, c)
    BY <1>1, <1>2, <1>3, <1>5 DEF Legal, Moves
<1>6. CASE UNCHANGED <<changes, active>>
    <2>1. nextID + 1 \in 0 .. MaxId
        BY <1>2, ScheduleAssumption DEF Ids
    <2>2. Restored.seen \subseteq 1 .. nextID + 1
        <3> HIDE DEF Restored
        <3> QED
            BY DEF IInv, ReplayInv, ActiveType
    <2> QED
        BY <1>1, <1>6, <2>1, <2>2 DEF Rests
<1> QED
    BY <1>4, <1>5, <1>6

\* Nothing happens to the projection.
LEMMA StaysMoves ==
    ASSUME ActiveType, IInv, UNCHANGED <<changes, active, nextID>>
    PROVE  Rests
BY DEF Rests, ActiveType, IInv, ReplayInv

LEMMA DeleteMoves ==
    ASSUME LogType, ActiveType, PassType, IInv, NEW id \in Ids, Delete(id)
    PROVE  Rests \/ \E c \in ChangeEvents : Legal(c) /\ Moves(c)
<1> DEFINE c == Change("delete", id, "", 0, 0)
<1>1. 0 \in 0 .. MaxTime /\ 0 \in 0 .. MaxTime + Interval
    BY ScheduleAssumption
<1>2. c \in ChangeEvents /\ c.op = "delete" /\ c.id = id
    BY <1>1 DEF Change, ChangeEvents
<1>3. (changes' = Append(changes, c) /\ active' = Applied(active, c)) \/ UNCHANGED <<changes, active>>
    BY DEF Delete, AppendFails, logVars
<1>4. id \in DOMAIN active /\ nextID' = nextID
    BY DEF Delete
<1> HIDE DEF c
<1>5. CASE changes' = Append(changes, c) /\ active' = Applied(active, c)
    BY <1>2, <1>4, <1>5 DEF Legal, Moves
<1> QED
    BY <1>3, <1>4, <1>5, StaysMoves

LEMMA DispatchMoves ==
    ASSUME LogType, ActiveType, PassType, IInv, NEW d \in Deliverers, Dispatch(d)
    PROVE  Rests \/ \E c \in ChangeEvents : Legal(c) /\ Moves(c)
<1> DEFINE c == Change("dispatch", left[1][1], "", 0, accepted)
<1>1. nextID' = nextID
    BY DEF Dispatch
<1>2. \/ UNCHANGED <<changes, active>>
      \/ left # <<>> /\ Current(left[1]) /\ changes' = Append(changes, c) /\ active' = Applied(active, c)
    BY DEF Dispatch, AppendFails, logVars
<1>3. CASE left # <<>> /\ Current(left[1]) /\ changes' = Append(changes, c) /\ active' = Applied(active, c)
    <2>1. left[1] \in ToSet(left) /\ left[1] \in Occurrences
        <3>1. left \in Seq(Occurrences)
            BY DEF PassType
        <3> QED
            BY <1>3, <3>1, SetOfTail
    <2>2. left[1] \in ToSet(due) /\ left[1][2] <= accepted /\ accepted <= now
        <3>1. Busy(d)
            BY DEF Dispatch, Busy
        <3> QED
            BY <2>1, <3>1 DEF IInv, BatchInv
    <2>3. left[1][1] \in DOMAIN active /\ active[left[1][1]].at = left[1][2] /\ left[1][1] \in Ids
        BY <1>3 DEF Current, ActiveType
    <2>4. 0 \in 0 .. MaxTime + Interval /\ accepted \in 0 .. MaxTime
        BY ScheduleAssumption DEF PassType
    <2>5. c \in ChangeEvents /\ c.op = "dispatch" /\ c.id = left[1][1] /\ c.accepted = accepted
        BY <2>3, <2>4 DEF Change, ChangeEvents
    <2> HIDE DEF c
    <2> QED
        BY <1>1, <1>3, <2>2, <2>3, <2>5 DEF Legal, Moves
<1> QED
    BY <1>1, <1>2, <1>3, StaysMoves

LEMMA RebuildMoves ==
    ASSUME ActiveType, IInv, Rebuild
    PROVE  Rests
<1>1. active' = active /\ changes' = changes /\ nextID' = LastId
    BY DEF Rebuild, IInv, ReplayInv, ReplayAccepts, logVars
<1>2. Restored.seen \subseteq 1 .. nextID /\ nextID \in Nat /\ nextID <= MaxId
    BY ScheduleAssumption DEF IInv, ReplayInv, ActiveType
<1>3. LastId \in 0 .. nextID /\ Restored.seen \subseteq 1 .. LastId
    BY <1>2, LastIdFacts
<1> HIDE DEF Restored
<1> QED
    BY <1>1, <1>2, <1>3, ScheduleAssumption DEF Rests

\* Every step leaves log and projection alone or appends a legal change.
LEMMA OnlyMoves ==
    ASSUME LogType, ActiveType, PassType, IInv, [Next]_vars
    PROVE  Rests \/ \E c \in ChangeEvents : Legal(c) /\ Moves(c)
<1>1. ASSUME NEW kind \in {"once", "every"}, Create(kind)
      PROVE  Rests \/ \E c \in ChangeEvents : Legal(c) /\ Moves(c)
    BY <1>1, CreateMoves
<1>2. ASSUME NEW id \in Ids, Delete(id)
      PROVE  Rests \/ \E c \in ChangeEvents : Legal(c) /\ Moves(c)
    BY <1>2, DeleteMoves
<1>3. ASSUME NEW d \in Deliverers, Dispatch(d)
      PROVE  Rests \/ \E c \in ChangeEvents : Legal(c) /\ Moves(c)
    BY <1>3, DispatchMoves
<1>4. CASE Crash \/ Restart
    BY <1>4, RebuildMoves DEF Crash, Restart
<1>5. ASSUME NEW d \in Deliverers, Look(d) PROVE Rests
    BY <1>5, StaysMoves DEF Look, logVars
<1>6. ASSUME NEW d \in Deliverers, Fire(d) PROVE Rests
    BY <1>6, StaysMoves DEF Fire, AppendFails, logVars
<1>7. CASE Enqueue \/ Show
    BY <1>7, StaysMoves DEF Enqueue, Show, AppendFails, logVars
<1>8. CASE Clock \/ Stop \/ CloseSchedulers
    BY <1>8, StaysMoves DEF Clock, Stop, CloseSchedulers, logVars
<1>9. CASE UNCHANGED vars
    BY <1>9, StaysMoves DEF vars, logVars
<1> QED
    BY <1>1, <1>2, <1>3, <1>4, <1>5, <1>6, <1>7, <1>8, <1>9 DEF Next, Pass

\* Restore accepts a legal change.
LEMMA LegalAccepted ==
    ASSUME ActiveType, PassType, ReplayInv, NEW c \in ChangeEvents, Legal(c)
    PROVE  Acceptable(Restored, c)
<1>1. Restored.active = active /\ Restored.seen \subseteq 1 .. nextID
    BY DEF ReplayInv, ReplayAccepts
<1> HIDE DEF Restored
<1>2. CASE c.op = "create"
    <2>1. c.id = nextID + 1 /\ nextID + 1 \notin 1 .. nextID
        BY <1>2 DEF Legal, ActiveType
    <2> QED
        BY <1>1, <1>2, <2>1 DEF Acceptable
<1>3. CASE c.op = "delete"
    BY <1>1, <1>3 DEF Acceptable, Legal
<1>4. CASE c.op = "dispatch"
    <2>1. c.id \in DOMAIN active /\ c.accepted = accepted /\ active[c.id].at <= accepted
        BY <1>4 DEF Legal
    <2>2. c.accepted >= active[c.id].at
        BY <2>1 DEF ActiveType, PassType, Schedule
    <2> QED
        BY <1>1, <1>4, <2>1, <2>2 DEF Acceptable
<1> QED
    BY <1>2, <1>3, <1>4 DEF Legal

\* What a legal change does to the live schedules.
LEMMA AppliedFacts ==
    ASSUME ActiveType, PassType, ReplayInv, NEW c \in ChangeEvents, Legal(c)
    PROVE  LET after == Applied(active, c)
           IN  /\ after \in [DOMAIN after -> Schedule]
               /\ \A id \in DOMAIN after :
                    \/ /\ id \in DOMAIN active /\ after[id].kind = active[id].kind
                       /\ after[id].at = active[id].at \/ Advances(active[id].at, after[id].at)
                    \/ c.op = "create" /\ id = c.id /\ id \notin DOMAIN active /\ after[id].kind = c.kind
<1> DEFINE after == Applied(active, c)
           Good(id) == \/ /\ id \in DOMAIN active /\ after[id].kind = active[id].kind
                          /\ after[id].at = active[id].at \/ Advances(active[id].at, after[id].at)
                       \/ c.op = "create" /\ id = c.id /\ id \notin DOMAIN active /\ after[id].kind = c.kind
<1>0. \A id \in DOMAIN active : active[id] \in Schedule
    BY DEF ActiveType
<1> SUFFICES after \in [DOMAIN after -> Schedule] /\ \A id \in DOMAIN after : Good(id)
    OBVIOUS
<1>1. CASE c.op = "create"
    <2> DEFINE new == [kind |-> c.kind, at |-> c.at]
    <2>1. after = [y \in DOMAIN active \cup {c.id} |-> IF y = c.id THEN new ELSE active[y]]
        BY <1>1 DEF Applied, With
    <2>2. new \in Schedule /\ new.kind = c.kind
        BY <1>1 DEF Legal, Schedule
    <2>3. c.id \notin DOMAIN active
        <3>1. c.id = nextID + 1 /\ nextID + 1 \notin 1 .. nextID
            BY <1>1 DEF Legal, ActiveType
        <3> HIDE DEF Restored
        <3> QED
            BY <3>1 DEF ReplayInv
    <2> HIDE DEF new, after
    <2>4. after \in [DOMAIN after -> Schedule]
        BY <1>0, <2>1, <2>2
    <2>5. \A id \in DOMAIN after : (id \in DOMAIN active /\ after[id] = active[id]) \/ (id = c.id /\ after[id] = new)
        BY <2>1
    <2> QED
        BY <1>1, <2>2, <2>3, <2>4, <2>5
<1>2. CASE c.op = "delete" \/ (c.op = "dispatch" /\ active[c.id].kind = "once")
    <2>1. after = [y \in DOMAIN active \ {c.id} |-> active[y]]
        BY <1>2 DEF Applied, Without
    <2> HIDE DEF after
    <2> QED
        BY <1>0, <2>1
<1>3. CASE c.op = "dispatch" /\ active[c.id].kind # "once"
    <2> DEFINE at == NextTarget(active[c.id].at, accepted)
    <2>1. c.id \in DOMAIN active /\ c.accepted = accepted /\ active[c.id].at <= accepted /\ accepted <= now
        BY <1>3 DEF Legal
    <2>2. after = [active EXCEPT ![c.id].at = at]
        BY <1>3, <2>1 DEF Applied
    <2>3. active[c.id].at \in Nat /\ accepted \in Nat /\ now \in Nat /\ Interval \in Nat
        BY <1>0, <2>1, ScheduleAssumption DEF Schedule, ActiveType, PassType
    <2>4. at \in Nat /\ Advances(active[c.id].at, at)
        BY <2>1, <2>3, NextTargetFacts DEF Advances
    <2> HIDE DEF at
    <2>5. at \in 1 .. now + Interval
        BY <2>1, <2>3, <2>4 DEF Advances
    <2>6. active[c.id] \in Schedule /\ [active[c.id] EXCEPT !.at = at] \in Schedule
          /\ [active[c.id] EXCEPT !.at = at].kind = active[c.id].kind
          /\ [active[c.id] EXCEPT !.at = at].at = at
        BY <1>0, <2>1, <2>5 DEF Schedule
    <2>7. DOMAIN after = DOMAIN active /\ after[c.id] = [active[c.id] EXCEPT !.at = at]
          /\ \A id \in DOMAIN active : id # c.id => after[id] = active[id]
        BY <2>1, <2>2 DEF ActiveType
    <2>8. after \in [DOMAIN after -> Schedule]
        <3>1. after = [id \in DOMAIN active |-> after[id]]
            BY <2>2 DEF ActiveType
        <3> HIDE DEF after
        <3> QED
            BY <1>0, <2>6, <2>7, <3>1
    <2> HIDE DEF after
    <2>9. ASSUME NEW id \in DOMAIN after PROVE Good(id)
        <3>1. CASE id = c.id
            BY <2>1, <2>4, <2>6, <2>7, <3>1
        <3>2. CASE id # c.id
            BY <2>7, <3>2
        <3> QED
            BY <3>1, <3>2
    <2> QED
        BY <2>8, <2>9
<1> QED
    BY <1>1, <1>2, <1>3 DEF Legal

-----------------------------------------------------------------------------
(* The steps keep the projection.                                          *)

\* The log of schedules only grows, and what it gets is no second creation.
LEMMA LogGrows ==
    ASSUME LogType, ActiveType, PassType, IInv, [Next]_vars
    PROVE  /\ changes' \in Seq(ChangeEvents)
           /\ \A k \in DOMAIN changes : k \in DOMAIN changes' /\ changes'[k] = changes[k]
           /\ \A k \in DOMAIN changes' \ DOMAIN changes :
                changes'[k].op = "create" => \A j \in DOMAIN changes : changes[j].id # changes'[k].id
           /\ \A k, l \in DOMAIN changes' \ DOMAIN changes : k = l
<1>0. changes \in Seq(ChangeEvents)
    BY DEF LogType
<1>1. CASE Rests
    BY <1>0, <1>1 DEF Rests
<1>2. ASSUME NEW c \in ChangeEvents, Legal(c), Moves(c)
      PROVE  /\ changes' \in Seq(ChangeEvents)
             /\ \A k \in DOMAIN changes : k \in DOMAIN changes' /\ changes'[k] = changes[k]
             /\ \A k \in DOMAIN changes' \ DOMAIN changes :
                  changes'[k].op = "create" => \A j \in DOMAIN changes : changes[j].id # changes'[k].id
             /\ \A k, l \in DOMAIN changes' \ DOMAIN changes : k = l
    <2>1. changes' = Append(changes, c)
        BY <1>2 DEF Moves
    <2>2. DOMAIN changes' \ DOMAIN changes = {Len(changes) + 1} /\ changes'[Len(changes) + 1] = c
        BY <1>0, <2>1
    <2>3. changes' \in Seq(ChangeEvents) /\ \A k \in DOMAIN changes : k \in DOMAIN changes' /\ changes'[k] = changes[k]
        BY <1>0, <2>1
    <2>4. ASSUME c.op = "create", NEW j \in DOMAIN changes PROVE changes[j].id # c.id
        <3>1. c.id = nextID + 1 /\ nextID + 1 \notin 1 .. nextID
            BY <1>2, <2>4 DEF Legal, ActiveType
        <3> HIDE DEF Restored
        <3> QED
            BY <3>1 DEF IInv, ReplayInv
    <2> QED
        BY <2>2, <2>3, <2>4
<1> QED
    BY <1>1, <1>2, OnlyMoves

\* The clock never goes back.
LEMMA ClockGrows ==
    ASSUME LogType, ActiveType, PassType, IInv, [Next]_vars
    PROVE  now' \in 0 .. MaxTime /\ now <= now'
<1>1. now \in 0 .. MaxTime /\ MaxTime \in Nat
    BY ScheduleAssumption DEF ActiveType
<1>2. CASE Clock
    BY <1>1, <1>2 DEF Clock
<1>3. CASE ~Clock
    <2>1. now' = now
        BY <1>3 DEF Next, Pass, vars, Create, Delete, Look, Enqueue, Fire, Dispatch, Show, Stop,
                    CloseSchedulers, Crash, Restart, Rebuild
    <2> QED
        BY <1>1, <2>1
<1> QED
    BY <1>2, <1>3

LEMMA NextActive ==
    ASSUME LogType, ActiveType, PassType, IInv, [Next]_vars
    PROVE  ActiveType'
<1>1. now \in Nat /\ now' \in Nat /\ now <= now' /\ Interval \in Nat /\ now' \in 0 .. MaxTime
    BY ClockGrows, ScheduleAssumption DEF ActiveType
<1>2. Schedule \subseteq Schedule'
    BY <1>1 DEF Schedule
<1>3. CASE Rests
    <2>1. DOMAIN active' \subseteq Ids /\ active' \in [DOMAIN active' -> Schedule'] /\ nextID' \in 0 .. MaxId
        BY <1>2, <1>3 DEF Rests, ActiveType
    <2> QED
        BY <1>1, <2>1 DEF ActiveType
<1>4. ASSUME NEW c \in ChangeEvents, Legal(c), Moves(c) PROVE ActiveType'
    <2>0. ReplayInv
        BY DEF IInv
    <2>1. /\ active' \in [DOMAIN active' -> Schedule]
          /\ \A id \in DOMAIN active' : id \in DOMAIN active \/ id = c.id
        BY <1>4, <2>0, AppliedFacts DEF Moves
    <2>2. c.id \in Ids /\ (c.op = "create" => c.id = nextID + 1)
        BY <1>4 DEF ChangeEvents, Legal
    <2>3. DOMAIN active' \subseteq Ids
        BY <2>1, <2>2 DEF ActiveType
    <2>4. nextID' \in 0 .. MaxId
        BY <1>4, <2>2, ScheduleAssumption DEF Moves, ActiveType, Ids
    <2>5. active' \in [DOMAIN active' -> Schedule']
        BY <1>2, <2>1
    <2> QED
        BY <1>1, <2>3, <2>4, <2>5 DEF ActiveType
<1> QED
    BY <1>3, <1>4, OnlyMoves

\* Every step keeps what a restart would find.
LEMMA NextReplay ==
    ASSUME LogType, ActiveType, PassType, IInv, [Next]_vars
    PROVE  ReplayInv'
<1>0. ReplayInv /\ ReplayAccepts /\ changes \in Seq(ChangeEvents) /\ nextID \in Nat
    BY ScheduleAssumption DEF IInv, ReplayInv, LogType, ActiveType
<1>1. CASE Rests
    <2>1. changes' = changes /\ active' = active /\ Restored.seen \subseteq 1 .. nextID'
        BY <1>1 DEF Rests
    <2>2. Restored' = Restored
        BY <2>1, RestoredIsProjection
    <2> HIDE DEF Restored
    <2> QED
        BY <1>0, <2>1, <2>2 DEF ReplayInv, ReplayAccepts
<1>2. ASSUME NEW c \in ChangeEvents, Legal(c), Moves(c) PROVE ReplayInv'
    <2>1. changes' = Append(changes, c) /\ active' = Applied(active, c)
        BY <1>2 DEF Moves
    <2>2. Acceptable(Restored, c)
        BY <1>0, <1>2, LegalAccepted
    <2>3. Restored'.ok /\ Restored'.active = active' /\ Restored'.seen = Restored.seen \cup {c.id}
        BY <1>0, <2>1, <2>2, RestoredAppend
    <2>4. /\ Restored.seen \subseteq 1 .. nextID /\ DOMAIN active \subseteq Restored.seen
          /\ \A k \in DOMAIN changes : changes[k].id \in Restored.seen
        BY <1>0 DEF ReplayInv
    <2>5. \A id \in DOMAIN active' : id \in DOMAIN active \/ id = c.id
        BY <1>0, <1>2, <2>1, AppliedFacts
    <2>6. c.id \in 1 .. nextID' /\ 1 .. nextID \subseteq 1 .. nextID'
        <3>1. CASE c.op = "create"
            BY <1>0, <1>2, <3>1 DEF Legal, Moves
        <3>2. CASE c.op # "create"
            <4>1. c.id \in DOMAIN active /\ nextID' = nextID
                BY <1>2, <3>2 DEF Legal, Moves
            <4> HIDE DEF Restored
            <4> QED
                BY <2>4, <4>1
        <3> QED
            BY <3>1, <3>2
    <2>7. \A k \in DOMAIN changes' : (k \in DOMAIN changes /\ changes'[k] = changes[k]) \/ changes'[k] = c
        BY <1>0, <2>1
    <2> DEFINE R == Restored
               Q == Restored'
    <2> HIDE DEF R, Q
    <2>8. Q.ok /\ Q.active = active' /\ Q.seen \subseteq 1 .. nextID' /\ DOMAIN active' \subseteq Q.seen
          /\ \A k \in DOMAIN changes' : changes'[k].id \in Q.seen
        <3>1. Q.ok /\ Q.active = active' /\ Q.seen = R.seen \cup {c.id}
            BY <2>3 DEF Q, R
        <3>2. /\ R.seen \subseteq 1 .. nextID /\ DOMAIN active \subseteq R.seen
              /\ \A k \in DOMAIN changes : changes[k].id \in R.seen
            BY <2>4 DEF R
        <3> QED
            BY <2>5, <2>6, <2>7, <3>1, <3>2
    <2> QED
        BY <2>8 DEF ReplayInv, ReplayAccepts, Q
<1> QED
    BY <1>1, <1>2, OnlyMoves

\* Every step keeps the kinds.
LEMMA NextKind ==
    ASSUME LogType, ActiveType, PassType, IInv, [Next]_vars
    PROVE  KindInv'
<1>0. /\ \A j, k \in DOMAIN changes : Creates(j, changes[k].id) /\ Creates(k, changes[k].id) => j = k
      /\ \A id \in DOMAIN active :
           \E k \in DOMAIN changes : Creates(k, id) /\ changes[k].kind = active[id].kind
    BY DEF IInv, KindInv
<1>1. \A j, k \in DOMAIN changes' :
        changes'[j].op = "create" /\ changes'[k].op = "create" /\ changes'[j].id = changes'[k].id => j = k
    BY <1>0, LogGrows DEF Creates
<1>2. ASSUME NEW id \in DOMAIN active'
      PROVE  \E k \in DOMAIN changes' :
               changes'[k].op = "create" /\ changes'[k].id = id /\ changes'[k].kind = active'[id].kind
    <2>1. CASE id \in DOMAIN active /\ active'[id].kind = active[id].kind
        BY <1>0, <2>1, LogGrows DEF Creates
    <2>2. CASE Rests
        BY <2>1, <2>2 DEF Rests
    <2>3. ASSUME NEW c \in ChangeEvents, Legal(c), Moves(c), c.op = "create", id = c.id, active'[id].kind = c.kind
          PROVE  \E k \in DOMAIN changes' :
                   changes'[k].op = "create" /\ changes'[k].id = id /\ changes'[k].kind = active'[id].kind
        <3>1. Len(changes) + 1 \in DOMAIN changes' /\ changes'[Len(changes) + 1] = c
            BY <2>3 DEF Moves, LogType
        <3> QED
            BY <2>3, <3>1
    <2>4. ASSUME NEW c \in ChangeEvents, Legal(c), Moves(c)
          PROVE  \/ id \in DOMAIN active /\ active'[id].kind = active[id].kind
                 \/ c.op = "create" /\ id = c.id /\ active'[id].kind = c.kind
        <3>1. active' = Applied(active, c) /\ ReplayInv
            BY <2>4 DEF Moves, IInv
        <3> QED
            BY <2>4, <3>1, AppliedFacts
    <2> QED
        BY <2>1, <2>2, <2>3, <2>4, OnlyMoves
<1> QED
    BY <1>1, <1>2 DEF KindInv, Creates

-----------------------------------------------------------------------------
(* The steps keep the types of the log and of the pass.                    *)

\* The log keeps its types.
LEMMA NextLog ==
    ASSUME LogType, ActiveType, PassType, IInv, [Next]_vars
    PROVE  LogType'
<1> USE DEF logVars, passVars
<1>1. ASSUME NEW kind \in {"once", "every"}, Create(kind) PROVE LogType'
    BY <1>1, LogGrows DEF Create, AppendFails, LogType
<1>2. ASSUME NEW id \in Ids, Delete(id) PROVE LogType'
    BY <1>2, LogGrows DEF Delete, AppendFails, LogType
<1>3. ASSUME NEW d \in Deliverers, Look(d) PROVE LogType'
    BY <1>3 DEF Look, LogType
<1>4. CASE Enqueue
    <2>1. ToSet(due) \in SUBSET Occurrences
        BY DEF PassType, ToSet
    <2>2. inbox' = inbox \/ inbox' = Append(inbox, ToSet(due))
        BY <1>4 DEF Enqueue, AppendFails
    <2>3. inbox' \in Seq(SUBSET Occurrences)
        BY <2>1, <2>2 DEF LogType
    <2> QED
        BY <1>4, <2>3, LogGrows DEF Enqueue, AppendFails, LogType
<1>5. ASSUME NEW d \in Deliverers, Fire(d) PROVE LogType'
    <2>1. fires' = fires \/ (left # <<>> /\ fires' = Append(fires, left[1]))
        BY <1>5 DEF Fire, AppendFails
    <2>2. left # <<>> => left[1] \in Occurrences
        BY SetOfTail DEF PassType
    <2>3. fires' \in Seq(Occurrences)
        BY <2>1, <2>2 DEF LogType
    <2> QED
        BY <1>5, <2>3, LogGrows DEF Fire, AppendFails, LogType
<1>6. ASSUME NEW d \in Deliverers, Dispatch(d) PROVE LogType'
    <2>1. UNCHANGED <<fires, inbox, shown>>
        BY <1>6 DEF Dispatch, AppendFails
    <2> QED
        BY <2>1, LogGrows DEF LogType
<1>7. CASE Show
    <2>1. ToSet(message) \subseteq Occurrences
        BY DEF PassType, ToSet
    <2>2. shown' \subseteq Occurrences
        BY <1>7, <2>1 DEF Show, AppendFails, LogType
    <2> QED
        BY <1>7, <2>2 DEF Show, AppendFails, LogType
<1>8. CASE Clock
    BY <1>8 DEF Clock, LogType
<1>9. CASE Stop
    BY <1>9 DEF Stop, LogType
<1>10. CASE CloseSchedulers
    BY <1>10 DEF CloseSchedulers, LogType
<1>11. CASE Crash
    BY <1>11 DEF Crash, Rebuild, LogType
<1>12. CASE Restart
    BY <1>12 DEF Restart, Rebuild, LogType
<1>13. CASE UNCHANGED vars
    BY <1>13 DEF vars, LogType
<1> QED
    BY <1>1, <1>2, <1>3, <1>4, <1>5, <1>6, <1>7, <1>8, <1>9, <1>10, <1>11, <1>12,
       <1>13
    DEF Next, Pass

\* A pass keeps its types.
LEMMA NextPass ==
    ASSUME LogType, ActiveType, PassType, IInv, [Next]_vars
    PROVE  PassType'
<1> USE DEF logVars, passVars
<1>a. <<>> \in Seq(Occurrences) /\ 0 \in 0 .. MaxTime
    BY ScheduleAssumption
<1>1. ASSUME NEW kind \in {"once", "every"}, Create(kind) PROVE PassType'
    <2>1. troubles' \in 0 .. MaxTroubles
        BY <1>1, ScheduleAssumption DEF Create, AppendFails, PassType
    <2> QED
        BY <1>1, <2>1 DEF Create, PassType
<1>2. ASSUME NEW id \in Ids, Delete(id) PROVE PassType'
    <2>1. troubles' \in 0 .. MaxTroubles
        <3>1. troubles' = troubles \/ (troubles < MaxTroubles /\ troubles' = troubles + 1)
            BY <1>2 DEF Delete, AppendFails
        <3> QED
            BY <3>1, ScheduleAssumption DEF PassType
    <2> QED
        BY <1>2, <2>1 DEF Delete, PassType
<1>3. ASSUME NEW d \in Deliverers, Look(d) PROVE PassType'
    <2>1. due' \in Seq(Occurrences) /\ left' \in Seq(Occurrences)
        BY <1>3, DueFacts DEF Look
    <2>2. accepted' \in 0 .. MaxTime
        BY <1>3 DEF Look, ActiveType
    <2>3. pc' \in [Deliverers -> {"rest", "enqueue", "fire", "dispatch", "dispatching", "show"}]
        BY <1>3 DEF Look, Goto, PassType
    <2> QED
        BY <1>3, <2>1, <2>2, <2>3 DEF Look, PassType
<1>4. CASE Enqueue
    <2>1. troubles' \in 0 .. MaxTroubles
        BY <1>4, ScheduleAssumption DEF Enqueue, AppendFails, PassType
    <2>2. pc' \in [Deliverers -> {"rest", "enqueue", "fire", "dispatch", "dispatching", "show"}]
        BY <1>4 DEF Enqueue, GiveUp, Goto, PassType
    <2>3. due' \in Seq(Occurrences) /\ left' \in Seq(Occurrences) /\ accepted' \in 0 .. MaxTime
        BY <1>4, <1>a DEF Enqueue, GiveUp, PassType
    <2>4. UNCHANGED <<message, handled, phase>>
        BY <1>4 DEF Enqueue, GiveUp
    <2> QED
        BY <2>1, <2>2, <2>3, <2>4 DEF PassType
<1>5. ASSUME NEW d \in Deliverers, Fire(d) PROVE PassType'
    <2>1. troubles' \in 0 .. MaxTroubles
        BY <1>5, ScheduleAssumption DEF Fire, AppendFails, PassType
    <2>2. pc' \in [Deliverers -> {"rest", "enqueue", "fire", "dispatch", "dispatching", "show"}]
        BY <1>5 DEF Fire, GiveUp, Goto, PassType
    <2>3. left' = due \/ left' = <<>> \/ (left # <<>> /\ left' = Tail(left))
        BY <1>5 DEF Fire, GiveUp
    <2>4. left # <<>> => Tail(left) \in Seq(Occurrences)
        BY SetOfTail DEF PassType
    <2>5. left' \in Seq(Occurrences)
        BY <1>a, <2>3, <2>4 DEF PassType
    <2>6. due' \in Seq(Occurrences) /\ accepted' \in 0 .. MaxTime
        BY <1>5, <1>a DEF Fire, GiveUp, PassType
    <2>7. UNCHANGED <<message, handled, phase>>
        BY <1>5 DEF Fire, GiveUp
    <2> QED
        BY <2>1, <2>2, <2>5, <2>6, <2>7 DEF PassType
<1>6. ASSUME NEW d \in Deliverers, Dispatch(d) PROVE PassType'
    <2>1. troubles' \in 0 .. MaxTroubles
        <3>1. troubles' = troubles \/ (troubles < MaxTroubles /\ troubles' = troubles + 1)
            BY <1>6 DEF Dispatch, AppendFails
        <3> QED
            BY <3>1, ScheduleAssumption DEF PassType
    <2>2. pc' \in [Deliverers -> {"rest", "enqueue", "fire", "dispatch", "dispatching", "show"}]
        <3>1. PICK l \in {"rest", "dispatching", "show"} : pc' = [pc EXCEPT ![d] = l]
            BY <1>6 DEF Dispatch, GiveUp, Goto
        <3> QED
            BY <3>1 DEF PassType
    <2>3. left' = left \/ left' = <<>> \/ (left # <<>> /\ left' = Tail(left))
        BY <1>6 DEF Dispatch, GiveUp
    <2>4. left # <<>> => Tail(left) \in Seq(Occurrences) /\ left[1] \in Occurrences
        BY SetOfTail DEF PassType
    <2>5. left' \in Seq(Occurrences)
        BY <1>a, <2>3, <2>4 DEF PassType
    <2>6. due' \in Seq(Occurrences) /\ accepted' \in 0 .. MaxTime
        <3>1. (due' = due \/ due' = <<>>) /\ (accepted' = accepted \/ accepted' = 0)
            BY <1>6 DEF Dispatch, GiveUp
        <3> QED
            BY <1>a, <3>1 DEF PassType
    <2>7. message' \in Seq(Occurrences)
        <3>1. message' = message \/ message' = due
            BY <1>6 DEF Dispatch, GiveUp
        <3> QED
            BY <3>1 DEF PassType
    <2>8. handled' \subseteq Deliverers \X Occurrences
        <3>1. handled' = handled \/ (left # <<>> /\ handled' = handled \cup {<<d, left[1]>>})
            BY <1>6 DEF Dispatch
        <3> QED
            BY <2>4, <3>1 DEF PassType
    <2>9. phase' = phase
        BY <1>6 DEF Dispatch
    <2> QED
        BY <2>1, <2>2, <2>5, <2>6, <2>7, <2>8, <2>9 DEF PassType
<1>7. CASE Show
    <2>1. troubles' \in 0 .. MaxTroubles
        BY <1>7, ScheduleAssumption DEF Show, AppendFails, PassType
    <2> QED
        BY <1>7, <1>a, <2>1 DEF Show, Goto, PassType
<1>8. CASE Clock
    BY <1>8, ScheduleAssumption DEF Clock, PassType
<1>9. CASE Stop
    BY <1>9, ScheduleAssumption DEF Stop, PassType
<1>10. CASE CloseSchedulers
    BY <1>10, ScheduleAssumption DEF CloseSchedulers, PassType
<1>11. CASE Crash
    BY <1>11, ScheduleAssumption DEF Crash, Rebuild, PassType
<1>12. CASE Restart
    BY <1>12, ScheduleAssumption DEF Restart, Rebuild, PassType
<1>13. CASE UNCHANGED vars
    BY <1>13 DEF vars, PassType
<1> QED
    BY <1>1, <1>2, <1>3, <1>4, <1>5, <1>6, <1>7, <1>8, <1>9, <1>10, <1>11, <1>12,
       <1>13
    DEF Next, Pass

-----------------------------------------------------------------------------
(* The steps keep the delivery in order.                                   *)

\* Every step keeps the lock.
LEMMA NextLock ==
    ASSUME LogType, ActiveType, PassType, IInv, [Next]_vars
    PROVE  LockInv'
<1> USE DEF logVars, passVars, PassType, IInv, LockInv, Busy, Deliverers
<1>1. ASSUME NEW kind \in {"once", "every"}, Create(kind) PROVE LockInv'
    BY <1>1 DEF Create, Change, AppendFails
<1>2. ASSUME NEW id \in Ids, Delete(id) PROVE LockInv'
    BY <1>2 DEF Delete, Change, AppendFails
<1>3. ASSUME NEW d \in Deliverers, Look(d) PROVE LockInv'
    BY <1>3 DEF Look, LockFree, Goto
<1>4. CASE Enqueue
    BY <1>4 DEF Enqueue, AppendFails, GiveUp, Goto
<1>5. ASSUME NEW d \in Deliverers, Fire(d) PROVE LockInv'
    BY <1>5 DEF Fire, AppendFails, GiveUp, Goto
<1>6. ASSUME NEW d \in Deliverers, Dispatch(d) PROVE LockInv'
    <2>1. PICK l \in {"rest", "dispatching", "show"} :
              pc' = [pc EXCEPT ![d] = l] /\ pc[d] \in {"dispatch", "dispatching"} /\ (l = "show" => d # "ticker")
        BY <1>6 DEF Dispatch, GiveUp, Goto
    <2> QED
        BY <2>1
<1>7. CASE Show
    BY <1>7 DEF Show, AppendFails, Goto
<1>8. CASE Clock
    BY <1>8 DEF Clock
<1>9. CASE Stop
    BY <1>9 DEF Stop
<1>10. CASE CloseSchedulers
    BY <1>10 DEF CloseSchedulers
<1>11. CASE Crash
    BY <1>11 DEF Crash, Rebuild
<1>12. CASE Restart
    BY <1>12 DEF Restart, Rebuild
<1>13. CASE UNCHANGED vars
    BY <1>13 DEF vars
<1> QED
    BY <1>1, <1>2, <1>3, <1>4, <1>5, <1>6, <1>7, <1>8, <1>9, <1>10, <1>11, <1>12,
       <1>13
    DEF Next, Pass

\* A one-shot that is alone in its batch stays so.
LEMMA AloneStays ==
    ASSUME LogType, ActiveType, PassType, IInv, [Next]_vars
    PROVE  \A o, S : Known(o) /\ Alone(o, S) => Known(o)' /\ Alone(o, S)'
BY LogGrows DEF Known, Alone, Creates

\* What Due returns is known, and a one-shot alone.
LEMMA DueAlone ==
    ASSUME ActiveType, KindInv
    PROVE  \A o \in ToSet(Due) : Known(o) /\ Alone(o, ToSet(Due))
<1> SUFFICES ASSUME NEW o \in ToSet(Due) PROVE Known(o) /\ Alone(o, ToSet(Due))
    OBVIOUS
<1>1. o[1] \in DOMAIN active /\ (active[o[1]].kind = "once" => ToSet(Due) = {o})
    BY DueFacts
<1>2. PICK k \in DOMAIN changes : Creates(k, o[1]) /\ changes[k].kind = active[o[1]].kind
    BY <1>1 DEF KindInv
<1>3. \A j \in DOMAIN changes : Creates(j, o[1]) => j = k
    BY <1>2 DEF KindInv, Creates
<1> HIDE DEF Due
<1> QED
    BY <1>1, <1>2, <1>3 DEF Known, Alone

\* The batch in hand, seen from its pass.
Batch(d) ==
    /\ accepted <= now /\ ToSet(left) \subseteq ToSet(due)
    /\ \A o \in ToSet(due) : o[2] <= accepted /\ Known(o) /\ Alone(o, ToSet(due))
    /\ pc[d] \in {"enqueue", "fire"} => ToSet(due) \subseteq ToSet(left) \cup ToSet(fires)
    /\ pc[d] \in {"dispatch", "dispatching"} => ToSet(due) \subseteq ToSet(fires)
    /\ d = "ticker" /\ pc[d] # "enqueue" => ToSet(due) \in ToSet(inbox)

\* Every step keeps the batch in order.
LEMMA NextBatch ==
    ASSUME LogType, ActiveType, PassType, IInv, [Next]_vars
    PROVE  BatchInv'
<1> USE DEF logVars, passVars
<1>a. \A e \in Deliverers : Busy(e) => Batch(e) /\ \A f \in Deliverers : f # e => ~Busy(f)
    BY DEF IInv, BatchInv, LockInv, Batch
<1>b. ASSUME UNCHANGED <<due, left, accepted, fires, inbox>>, now' \in {now, now + 1},
             \A e \in Deliverers : pc'[e] = pc[e] \/ pc'[e] \in {"rest", "show"}
      PROVE  BatchInv'
    <2> SUFFICES ASSUME NEW e \in Deliverers, Busy(e)' PROVE Batch(e)'
        BY DEF BatchInv, Batch
    <2>1. pc'[e] = pc[e] /\ Batch(e)
        BY <1>b, <1>a DEF Busy
    <2>2. \A o \in ToSet(due') : o[2] <= accepted' /\ Known(o)' /\ Alone(o, ToSet(due))'
        BY <1>b, <2>1, AloneStays DEF Batch, Known, Alone, Creates
    <2>3. accepted' <= now'
        BY <1>b, <2>1 DEF Batch, ActiveType, PassType
    <2> QED
        BY <1>b, <2>1, <2>2, <2>3 DEF Batch
<1>1. ASSUME NEW kind \in {"once", "every"}, Create(kind) PROVE BatchInv'
    <2>1. UNCHANGED <<passVars, fires, inbox>> /\ (now' = now \/ now' = now + 1)
        BY <1>1 DEF Create, AppendFails
    <2> QED
        BY <1>b, <2>1
<1>2. ASSUME NEW id \in Ids, Delete(id) PROVE BatchInv'
    <2>1. UNCHANGED <<passVars, fires, inbox>> /\ (now' = now \/ now' = now + 1)
        BY <1>2 DEF Delete, AppendFails
    <2> QED
        BY <1>b, <2>1
<1>3. ASSUME NEW d \in Deliverers, Look(d) PROVE BatchInv'
    <2>1. /\ due' = Due /\ left' = Due /\ accepted' = now /\ now' = now
          /\ UNCHANGED <<changes, fires, inbox>>
        BY <1>3 DEF Look
    <2>2. pc' = [pc EXCEPT ![d] = IF d = "ticker" THEN "enqueue" ELSE "fire"]
        BY <1>3 DEF Look, Goto
    <2>3. \A e \in Deliverers : e # d => ~Busy(e)'
        BY <1>3, <2>2 DEF Look, LockFree, Busy, PassType
    <2>4. \A o \in ToSet(Due) : o[2] <= now /\ Known(o) /\ Alone(o, ToSet(Due))
        BY DueFacts, DueAlone DEF IInv
    <2>5. \A o \in ToSet(due') : o[2] <= accepted' /\ Known(o)' /\ Alone(o, ToSet(due))'
        BY <2>1, <2>4 DEF Known, Alone, Creates
    <2>6. pc'[d] = IF d = "ticker" THEN "enqueue" ELSE "fire"
        BY <2>2 DEF PassType
    <2>7. accepted' <= now' /\ ToSet(left') = ToSet(due')
        BY <2>1 DEF ActiveType
    <2>8. Batch(d)'
        BY <2>5, <2>6, <2>7 DEF Batch
    <2> QED
        BY <2>3, <2>8 DEF BatchInv, Batch
<1>4. CASE Enqueue
    <2>1. pc["ticker"] = "enqueue" /\ UNCHANGED <<changes, fires, now>>
        BY <1>4 DEF Enqueue, AppendFails
    <2>2. CASE GiveUp("ticker")
        <3>1. \A e \in Deliverers : e # "ticker" => ~Busy(e)
            BY <1>a, <2>1 DEF Busy, Deliverers
        <3>2. \A e \in Deliverers : ~Busy(e)'
            BY <2>2, <3>1 DEF GiveUp, Goto, Busy, Deliverers, PassType
        <3> QED
            BY <3>2 DEF BatchInv
    <2>3. CASE ~GiveUp("ticker")
        <3>1. pc' = [pc EXCEPT !["ticker"] = "fire"] /\ UNCHANGED <<due, left, accepted>>
            BY <1>4, <2>3 DEF Enqueue, Goto
        <3>2. ToSet(due) \in ToSet(inbox')
            <4>1. (KeySeen /\ inbox' = inbox) \/ inbox' = Append(inbox, ToSet(due))
                BY <1>4, <2>3 DEF Enqueue
            <4>2. inbox' = Append(inbox, ToSet(due)) => ToSet(inbox') = ToSet(inbox) \cup {ToSet(due)}
                BY SetOfAppend DEF LogType
            <4> QED
                BY <4>1, <4>2 DEF KeySeen
        <3>3. Batch("ticker")
            BY <1>a, <2>1 DEF Busy, Deliverers
        <3>4. \A e \in Deliverers : e # "ticker" => ~Busy(e)'
            BY <1>a, <2>1, <3>1 DEF Busy, Deliverers, PassType
        <3>5. pc'["ticker"] = "fire"
            BY <3>1 DEF PassType, Deliverers
        <3>6. Batch("ticker")'
            BY <2>1, <3>1, <3>2, <3>3, <3>5 DEF Batch, Known, Alone, Creates
        <3> QED
            BY <3>4, <3>6 DEF BatchInv, Batch
    <2> QED
        BY <2>2, <2>3
<1>5. ASSUME NEW d \in Deliverers, Fire(d) PROVE BatchInv'
    <2>1. pc[d] = "fire" /\ UNCHANGED <<changes, inbox, now>>
        BY <1>5 DEF Fire, AppendFails
    <2>2. Batch(d) /\ \A e \in Deliverers : e # d => ~Busy(e)
        BY <1>a, <2>1 DEF Busy
    <2>3. \A e \in Deliverers : e # d => pc'[e] = pc[e]
        BY <1>5 DEF Fire, GiveUp, Goto, PassType
    <2>4. \A e \in Deliverers : e # d => ~Busy(e)'
        BY <2>2, <2>3 DEF Busy
    <2>5. CASE GiveUp(d)
        BY <2>4, <2>5 DEF GiveUp, Goto, BatchInv, Busy, PassType
    <2>6. CASE left = <<>> /\ ~GiveUp(d)
        <3>1. pc'[d] = "dispatch" /\ left' = due /\ UNCHANGED <<fires, due, accepted>>
            BY <1>5, <2>6 DEF Fire, Goto, PassType
        <3>2. ToSet(left) = {}
            BY <2>6 DEF ToSet
        <3>3. Batch(d)'
            BY <2>1, <2>2, <3>1, <3>2 DEF Batch, Known, Alone, Creates
        <3> QED
            BY <2>4, <3>3 DEF BatchInv, Batch
    <2>7. CASE left # <<>> /\ ~GiveUp(d)
        <3>1. pc' = pc /\ left' = Tail(left) /\ UNCHANGED <<due, accepted>>
            BY <1>5, <2>7 DEF Fire
        <3>2. ToSet(left) = ToSet(left') \cup {left[1]}
            BY <2>7, <3>1, SetOfTail DEF PassType
        <3>3. ToSet(fires') = ToSet(fires) \cup {left[1]}
            <4>1. (left[1] \in ToSet(fires) /\ fires' = fires) \/ fires' = Append(fires, left[1])
                BY <1>5, <2>7 DEF Fire, FireRecorded
            <4>2. fires' = Append(fires, left[1]) => ToSet(fires') = ToSet(fires) \cup {left[1]}
                BY SetOfAppend DEF LogType
            <4> QED
                BY <4>1, <4>2
        <3>4. Batch(d)'
            BY <2>1, <2>2, <3>1, <3>2, <3>3 DEF Batch, Known, Alone, Creates
        <3> QED
            BY <2>4, <3>4 DEF BatchInv, Batch
    <2> QED
        BY <2>5, <2>6, <2>7
<1>6. ASSUME NEW d \in Deliverers, Dispatch(d) PROVE BatchInv'
    <2>1. pc[d] \in {"dispatch", "dispatching"} /\ UNCHANGED <<inbox, fires, now>>
        BY <1>6 DEF Dispatch, AppendFails
    <2>2. Batch(d) /\ \A e \in Deliverers : e # d => ~Busy(e)
        BY <1>a, <2>1 DEF Busy
    <2>3. PICK l \in {"rest", "dispatching", "show"} :
              pc' = [pc EXCEPT ![d] = l]
              /\ (l = "dispatching" => left # <<>> /\ left' = Tail(left) /\ UNCHANGED <<due, accepted>>)
        BY <1>6 DEF Dispatch, GiveUp, Goto
    <2>4. pc'[d] = l /\ \A e \in Deliverers : e # d => ~Busy(e)'
        BY <2>2, <2>3 DEF Busy, PassType
    <2>5. CASE l # "dispatching"
        BY <2>4, <2>5 DEF BatchInv, Busy
    <2>6. CASE l = "dispatching"
        <3>1. left # <<>> /\ left' = Tail(left) /\ UNCHANGED <<due, accepted>>
            BY <2>3, <2>6
        <3>2. ToSet(left) = ToSet(left') \cup {left[1]}
            BY <3>1, SetOfTail DEF PassType
        <3>3. \A o \in ToSet(due') : o[2] <= accepted' /\ Known(o)' /\ Alone(o, ToSet(due))'
            BY <2>2, <3>1, AloneStays DEF Batch, Known, Alone, Creates
        <3>4. Batch(d)'
            BY <2>1, <2>2, <2>4, <2>6, <3>1, <3>2, <3>3 DEF Batch
        <3> QED
            BY <2>4, <3>4 DEF BatchInv, Batch
    <2> QED
        BY <2>5, <2>6
<1>7. CASE Show
    <2>1. UNCHANGED <<due, left, accepted, fires, inbox, now>>
        BY <1>7 DEF Show, AppendFails
    <2>2. \A e \in Deliverers : pc'[e] = pc[e] \/ (pc'[e] = "rest" /\ pc[e] = "show")
        BY <1>7 DEF Show, Goto, PassType
    <2> QED
        BY <1>b, <2>1, <2>2
<1>8. CASE Clock
    <2>1. UNCHANGED <<passVars, fires, inbox>> /\ (now' = now \/ now' = now + 1)
        BY <1>8 DEF Clock
    <2> QED
        BY <1>b, <2>1
<1>9. CASE Stop
    <2>1. UNCHANGED <<passVars, fires, inbox>> /\ (now' = now \/ now' = now + 1)
        BY <1>9 DEF Stop
    <2> QED
        BY <1>b, <2>1
<1>10. CASE CloseSchedulers
    <2>1. UNCHANGED <<passVars, fires, inbox>> /\ (now' = now \/ now' = now + 1)
        BY <1>10 DEF CloseSchedulers
    <2> QED
        BY <1>b, <2>1
<1>11. CASE Crash
    BY <1>11 DEF Crash, Rebuild, BatchInv, Busy
<1>12. CASE Restart
    BY <1>12 DEF Restart, Rebuild, BatchInv, Busy
<1>13. CASE UNCHANGED vars
    BY <1>b, <1>13 DEF vars
<1> QED
    BY <1>1, <1>2, <1>3, <1>4, <1>5, <1>6, <1>7, <1>8, <1>9, <1>10, <1>11, <1>12,
       <1>13
    DEF Next, Pass

\* Every step keeps the keys of the inbox apart.
LEMMA NextInbox ==
    ASSUME LogType, ActiveType, PassType, IInv, [Next]_vars
    PROVE  InboxInv'
<1> USE DEF logVars, passVars
<1>a. ASSUME inbox' = inbox PROVE InboxInv'
    <2>1. \A k \in DOMAIN inbox : \A o \in inbox[k] : Known(o) /\ Alone(o, inbox[k])
        BY DEF IInv, InboxInv
    <2>2. ASSUME NEW k \in DOMAIN inbox, NEW o \in inbox[k]
          PROVE  /\ \E i \in DOMAIN changes' : changes'[i].op = "create" /\ changes'[i].id = o[1]
                 /\ \A i \in DOMAIN changes' :
                      changes'[i].op = "create" /\ changes'[i].id = o[1] /\ changes'[i].kind = "once"
                      => inbox[k] = {o}
        BY <2>1, AloneStays DEF Known, Alone, Creates
    <2>3. IsInjective(inbox)
        BY DEF IInv, InboxInv
    <2> QED
        BY <1>a, <2>2, <2>3 DEF InboxInv, Known, Alone, Creates
<1>1. ASSUME NEW kind \in {"once", "every"}, Create(kind) PROVE InboxInv'
    BY <1>a, <1>1 DEF Create, Change, AppendFails
<1>2. ASSUME NEW id \in Ids, Delete(id) PROVE InboxInv'
    BY <1>a, <1>2 DEF Delete, Change, AppendFails
<1>3. ASSUME NEW d \in Deliverers, Look(d) PROVE InboxInv'
    BY <1>a, <1>3 DEF Look, Goto
<1>4. CASE Enqueue
    <2>1. CASE inbox' = inbox
        BY <1>a, <2>1
    <2>2. CASE inbox' # inbox
        <3>1. inbox' = Append(inbox, ToSet(due)) /\ ToSet(due) \notin ToSet(inbox) /\ changes' = changes
            BY <1>4, <2>2 DEF Enqueue, KeySeen, AppendFails
        <3>2. inbox \in Seq(SUBSET Occurrences)
            BY DEF LogType
        <3>3. IsInjective(inbox')
            BY <3>1, <3>2, InjectiveAppend DEF IInv, InboxInv
        <3>4. \A o \in ToSet(due) : Known(o) /\ Alone(o, ToSet(due))
            BY <1>4 DEF Enqueue, IInv, BatchInv, Busy, Deliverers
        <3>5. \A k \in DOMAIN inbox' : (k \in DOMAIN inbox /\ inbox'[k] = inbox[k]) \/ inbox'[k] = ToSet(due)
            BY <3>1, <3>2
        <3>6. \A k \in DOMAIN inbox' : \A o \in inbox'[k] : Known(o) /\ Alone(o, inbox'[k])
            BY <3>4, <3>5 DEF IInv, InboxInv
        <3> QED
            BY <3>1, <3>3, <3>6 DEF InboxInv, Known, Alone, Creates
    <2> QED
        BY <2>1, <2>2
<1>5. ASSUME NEW d \in Deliverers, Fire(d) PROVE InboxInv'
    BY <1>a, <1>5 DEF Fire, AppendFails, GiveUp, Goto
<1>6. ASSUME NEW d \in Deliverers, Dispatch(d) PROVE InboxInv'
    BY <1>a, <1>6 DEF Dispatch, AppendFails, GiveUp, Goto
<1>7. CASE Show
    BY <1>a, <1>7 DEF Show, AppendFails, Goto
<1>8. CASE Clock
    BY <1>a, <1>8 DEF Clock
<1>9. CASE Stop
    BY <1>a, <1>9 DEF Stop
<1>10. CASE CloseSchedulers
    BY <1>a, <1>10 DEF CloseSchedulers
<1>11. CASE Crash
    BY <1>a, <1>11 DEF Crash, Rebuild
<1>12. CASE Restart
    BY <1>a, <1>12 DEF Restart, Rebuild
<1>13. CASE UNCHANGED vars
    BY <1>a, <1>13 DEF vars
<1> QED
    BY <1>1, <1>2, <1>3, <1>4, <1>5, <1>6, <1>7, <1>8, <1>9, <1>10, <1>11, <1>12,
       <1>13
    DEF Next, Pass

\* Every step keeps the fires apart.
LEMMA NextFires ==
    ASSUME LogType, ActiveType, PassType, IInv, [Next]_vars
    PROVE  FiresInv'
<1> USE DEF logVars, passVars, IInv, FiresInv
<1>1. ASSUME NEW kind \in {"once", "every"}, Create(kind) PROVE FiresInv'
    BY <1>1 DEF Create, Change, AppendFails
<1>2. ASSUME NEW id \in Ids, Delete(id) PROVE FiresInv'
    BY <1>2 DEF Delete, Change, AppendFails
<1>3. ASSUME NEW d \in Deliverers, Look(d) PROVE FiresInv'
    BY <1>3 DEF Look, Goto
<1>4. CASE Enqueue
    BY <1>4 DEF Enqueue, AppendFails, GiveUp, Goto
<1>5. ASSUME NEW d \in Deliverers, Fire(d) PROVE FiresInv'
    <2>1. fires' = fires \/ (fires' = Append(fires, left[1]) /\ left[1] \notin ToSet(fires))
        BY <1>5 DEF Fire, FireRecorded, AppendFails
    <2> QED
        BY <2>1, InjectiveAppend DEF LogType
<1>6. ASSUME NEW d \in Deliverers, Dispatch(d) PROVE FiresInv'
    BY <1>6 DEF Dispatch, AppendFails, GiveUp, Goto
<1>7. CASE Show
    BY <1>7 DEF Show, AppendFails, Goto
<1>8. CASE Clock
    BY <1>8 DEF Clock
<1>9. CASE Stop
    BY <1>9 DEF Stop
<1>10. CASE CloseSchedulers
    BY <1>10 DEF CloseSchedulers
<1>11. CASE Crash
    BY <1>11 DEF Crash, Rebuild
<1>12. CASE Restart
    BY <1>12 DEF Restart, Rebuild
<1>13. CASE UNCHANGED vars
    BY <1>13 DEF vars
<1> QED
    BY <1>1, <1>2, <1>3, <1>4, <1>5, <1>6, <1>7, <1>8, <1>9, <1>10, <1>11, <1>12,
       <1>13
    DEF Next, Pass

\* Every step keeps the dispatched occurrences fired, and those of the ticker queued.
LEMMA NextQueued ==
    ASSUME LogType, ActiveType, PassType, IInv, [Next]_vars
    PROVE  QueuedBeforeDispatch'
<1> USE DEF logVars, passVars
<1>a. QueuedBeforeDispatch
    BY DEF IInv
<1>1. ASSUME NEW kind \in {"once", "every"}, Create(kind) PROVE QueuedBeforeDispatch'
    BY <1>a, <1>1 DEF Create, Change, AppendFails, QueuedBeforeDispatch
<1>2. ASSUME NEW id \in Ids, Delete(id) PROVE QueuedBeforeDispatch'
    BY <1>a, <1>2 DEF Delete, Change, AppendFails, QueuedBeforeDispatch
<1>3. ASSUME NEW d \in Deliverers, Look(d) PROVE QueuedBeforeDispatch'
    BY <1>a, <1>3 DEF Look, Goto, QueuedBeforeDispatch
<1>4. CASE Enqueue
    <2>1. handled' = handled /\ fires' = fires /\ (inbox' = inbox \/ inbox' = Append(inbox, ToSet(due)))
        BY <1>4 DEF Enqueue, AppendFails
    <2>2. \A k \in DOMAIN inbox : k \in DOMAIN inbox' /\ inbox'[k] = inbox[k]
        BY <2>1 DEF LogType
    <2> QED
        BY <1>a, <2>1, <2>2 DEF QueuedBeforeDispatch
<1>5. ASSUME NEW d \in Deliverers, Fire(d) PROVE QueuedBeforeDispatch'
    <2>1. handled' = handled /\ inbox' = inbox /\ (fires' = fires \/ fires' = Append(fires, left[1]))
        BY <1>5 DEF Fire, AppendFails
    <2>2. ToSet(fires) \subseteq ToSet(fires')
        BY <2>1, SetOfAppend DEF LogType
    <2> QED
        BY <1>a, <2>1, <2>2 DEF QueuedBeforeDispatch
<1>6. ASSUME NEW d \in Deliverers, Dispatch(d) PROVE QueuedBeforeDispatch'
    <2>1. UNCHANGED <<inbox, fires>> /\ pc[d] \in {"dispatch", "dispatching"}
        BY <1>6 DEF Dispatch, AppendFails
    <2>2. CASE handled' = handled
        BY <1>a, <2>1, <2>2 DEF QueuedBeforeDispatch
    <2>3. CASE handled' # handled
        <3>1. handled' = handled \cup {<<d, left[1]>>} /\ left # <<>>
            BY <1>6, <2>3 DEF Dispatch
        <3>2. left[1] \in ToSet(left)
            BY <3>1, SetOfTail DEF PassType
        <3>3. left[1] \in ToSet(due) /\ ToSet(due) \subseteq ToSet(fires)
              /\ (d = "ticker" => ToSet(due) \in ToSet(inbox))
            BY <2>1, <3>2 DEF IInv, BatchInv, Busy
        <3>4. d = "ticker" => \E k \in DOMAIN inbox : left[1] \in inbox[k]
            BY <3>3 DEF ToSet
        <3> QED
            BY <1>a, <2>1, <3>1, <3>3, <3>4 DEF QueuedBeforeDispatch
    <2> QED
        BY <2>2, <2>3
<1>7. CASE Show
    BY <1>a, <1>7 DEF Show, AppendFails, Goto, QueuedBeforeDispatch
<1>8. CASE Clock
    BY <1>a, <1>8 DEF Clock, QueuedBeforeDispatch
<1>9. CASE Stop
    BY <1>a, <1>9 DEF Stop, QueuedBeforeDispatch
<1>10. CASE CloseSchedulers
    BY <1>a, <1>10 DEF CloseSchedulers, QueuedBeforeDispatch
<1>11. CASE Crash
    BY <1>a, <1>11 DEF Crash, Rebuild, QueuedBeforeDispatch
<1>12. CASE Restart
    BY <1>a, <1>12 DEF Restart, Rebuild, QueuedBeforeDispatch
<1>13. CASE UNCHANGED vars
    BY <1>a, <1>13 DEF vars, QueuedBeforeDispatch
<1> QED
    BY <1>1, <1>2, <1>3, <1>4, <1>5, <1>6, <1>7, <1>8, <1>9, <1>10, <1>11, <1>12,
       <1>13
    DEF Next, Pass

-----------------------------------------------------------------------------
Types == LogType /\ ActiveType /\ PassType

\* The inductive invariant holds in every reachable state.
LEMMA Inductive == Spec => [](Types /\ IInv)
<1>1. Init => Types
    <2> SUFFICES ASSUME Init PROVE Types
        OBVIOUS
    <2>1. LogType
        BY DEF Init, LogType
    <2>2. ActiveType
        <3>1. active = <<>> /\ DOMAIN active = {}
            BY DEF Init
        <3>2. active \in [DOMAIN active -> Schedule]
            BY <3>1
        <3> QED
            BY <3>1, <3>2, ScheduleAssumption DEF Init, ActiveType
    <2>3. PassType
        <3>1. pc \in [Deliverers -> {"rest", "enqueue", "fire", "dispatch", "dispatching", "show"}]
            BY DEF Init
        <3>2. due \in Seq(Occurrences) /\ left \in Seq(Occurrences) /\ message \in Seq(Occurrences)
            BY DEF Init
        <3> QED
            BY <3>1, <3>2, ScheduleAssumption DEF Init, PassType
    <2> QED
        BY <2>1, <2>2, <2>3 DEF Types
<1>2. Init => IInv
    <2> SUFFICES ASSUME Init PROVE IInv
        OBVIOUS
    <2>1. changes = <<>> /\ active = <<>> /\ fires = <<>> /\ inbox = <<>> /\ handled = {} /\ DOMAIN changes = {}
          /\ DOMAIN active = {} /\ \A d \in Deliverers : pc[d] = "rest"
        BY DEF Init
    <2>2. Restored = Empty
        BY <2>1, RestoredIsProjection, ProjectionEmpty
    <2>3. Restored.ok /\ Restored.active = <<>> /\ Restored.seen = {}
        BY <2>2 DEF Empty
    <2> HIDE DEF Restored
    <2>4. ReplayInv
        BY <2>1, <2>3 DEF ReplayInv, ReplayAccepts
    <2>5. LockInv /\ KindInv /\ BatchInv
        BY <2>1 DEF LockInv, KindInv, BatchInv, Busy, Deliverers
    <2>6. InboxInv /\ FiresInv /\ QueuedBeforeDispatch
        BY <2>1 DEF InboxInv, FiresInv, QueuedBeforeDispatch, IsInjective
    <2> QED
        BY <2>4, <2>5, <2>6 DEF IInv
<1>3. Types /\ IInv /\ [Next]_vars => (Types /\ IInv)'
    <2> SUFFICES ASSUME LogType, ActiveType, PassType, IInv, [Next]_vars PROVE (Types /\ IInv)'
        BY DEF Types
    <2>1. Types'
        BY NextLog, NextActive, NextPass DEF Types
    <2>2. IInv'
        BY NextLock, NextReplay, NextKind, NextBatch, NextInbox, NextFires, NextQueued DEF IInv
    <2> QED
        BY <2>1, <2>2
<1> QED
    BY <1>1, <1>2, <1>3, PTL DEF Spec

\* Type correctness; a live target is at most one interval ahead of the clock.
THEOREM TypeCorrect == Spec => []TypeOK
<1>1. Types => TypeOK
    <2> SUFFICES ASSUME LogType, ActiveType, PassType PROVE TypeOK
        BY DEF Types
    <2>1. \A id \in DOMAIN active : active[id].kind \in {"once", "every"} /\ active[id].at \in 1 .. now + Interval
        BY DEF ActiveType, Schedule
    <2> QED
        BY <2>1 DEF LogType, ActiveType, PassType, ChangeEvents, TypeOK
<1> QED
    BY <1>1, Inductive, PTL

\* Restore accepts the log at every moment and builds the live projection from
\* it: a crash between any two steps loses no schedule, revives none and moves
\* none.
THEOREM ReplayAcceptsHolds == Spec => []ReplayAccepts
BY Inductive, PTL DEF IInv, ReplayInv

\* An occurrence is recorded as fired once, and a one-shot reminder is queued
\* once, through retries, crashes and both delivery paths.
THEOREM NotRepeatedHolds == Spec => []NotRepeated
<1>1. IInv => NotRepeated
    <2> SUFFICES ASSUME IInv PROVE NotRepeated
        OBVIOUS
    <2>1. ASSUME NEW j \in DOMAIN inbox, NEW k \in DOMAIN inbox, NEW o \in inbox[j] \cap inbox[k],
                 KindOf(o[1]) = "once"
          PROVE  j = k
        <3>1. Known(o) /\ Alone(o, inbox[j]) /\ Alone(o, inbox[k])
            BY DEF IInv, InboxInv
        <3>2. Creation(o[1]) \in DOMAIN changes /\ Creates(Creation(o[1]), o[1])
            BY <3>1, Zenon DEF Known, Creates, Creation
        <3>3. changes[Creation(o[1])].kind = "once"
            BY <2>1 DEF KindOf
        <3>4. inbox[j] = {o} /\ inbox[k] = {o}
            BY <3>1, <3>2, <3>3 DEF Alone
        <3> QED
            BY <3>4 DEF IInv, InboxInv, IsInjective
    <2> QED
        BY <2>1 DEF NotRepeated, IInv, FiresInv
<1> QED
    BY <1>1, Inductive, PTL

\* What was dispatched was fired, and what the ticker dispatched is in the
\* durable inbox, whatever fails or crashes in between.
THEOREM QueuedBeforeDispatchHolds == Spec => []QueuedBeforeDispatch
BY Inductive, PTL DEF IInv

\* A repeating schedule moves to the first aligned target after the accepted
\* time: no drift and no burst of missed occurrences.
THEOREM EveryAdvancesHolds == Spec => EveryAdvances
<1> DEFINE Steps == \A id \in DOMAIN active \cap DOMAIN active' :
                      LET was == active[id].at  is == active'[id].at
                      IN  is # was => /\ is > accepted /\ is <= accepted + Interval
                                      /\ (is - was) % Interval = 0 /\ was <= accepted
<1>1. Types /\ IInv /\ [Next]_vars => [Steps]_vars
    <2> SUFFICES ASSUME LogType, ActiveType, PassType, IInv, [Next]_vars PROVE Steps
        BY DEF Types
    <2>1. CASE Rests
        BY <2>1 DEF Rests
    <2>2. ASSUME NEW c \in ChangeEvents, Legal(c), Moves(c) PROVE Steps
        <3>1. active' = Applied(active, c) /\ ReplayInv
            BY <2>2 DEF Moves, IInv
        <3>2. \A id \in DOMAIN active \cap DOMAIN active' :
                active'[id].at = active[id].at \/ Advances(active[id].at, active'[id].at)
            BY <2>2, <3>1, AppliedFacts
        <3> QED
            BY <3>2 DEF Advances
    <2> QED
        BY <2>1, <2>2, OnlyMoves
<1> QED
    BY <1>1, Inductive, PTL DEF Spec, EveryAdvances
=============================================================================
