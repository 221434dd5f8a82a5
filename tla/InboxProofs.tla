----------------------------- MODULE InboxProofs -----------------------------
(***************************************************************************)
(* Proofs about Inbox, for any submissions and any number of messages,     *)
(* crashes and failing commits.                                            *)
(*                                                                         *)
(* TypeCorrect and ReplayReconstructsHolds allow torn operations too, the  *)
(* second up to the first of them: after a torn operation the journal and  *)
(* the live queues disagree. The refinement is proved where none happens.  *)
(***************************************************************************)
EXTENDS Inbox, SequenceTheorems, WellFoundedInduction, TLAPS

\* The events the operations commit.
Events == [target : {"next-step", "next-turn"}, start : Nat, removed : Nat,
           inserted : {<< >>} \cup {<<m>> : m \in Message}]

\* The two queues that share a target hold the kinds that tell them apart.
Sorted(box) ==
    /\ \A n \in DOMAIN box.nextStep : box.nextStep[n].kind \in Kinds \ QuietKinds
    /\ \A n \in DOMAIN box.quiet : box.quiet[n].kind \in QuietKinds

\* The live queues of a running process are the durable ones, and its next
\* identifier is new.
SyncInv ==
    Up => /\ inbox.nextStep = durable.nextStep /\ inbox.nextTurn = durable.nextTurn
          /\ inbox.quiet = durable.quiet
          /\ inbox.nextID >= durable.nextID

Distinct(line) == \A j, k \in DOMAIN line : line[j].id = line[k].id => j = k

\* The claim takes one follow-up and leaves the others, so no identifier is in
\* two places of the follow-up queue, or in it and in another queue.
FollowupInv ==
    /\ Distinct(durable.nextTurn)
    /\ IdsOf(durable.nextTurn) \cap (IdsOf(durable.nextStep) \cup IdsOf(durable.quiet)) = {}

\* A message is pending, in the hands of the driver or delivered, and not two
\* of these; the journal counts on from beyond all of them.
PlaceInv ==
    /\ IdsOf(Pending(durable)) \cap IdsOf(inHand) = {}
    /\ delivered \cap (IdsOf(Pending(durable)) \cup IdsOf(inHand)) = {}
    /\ delivered \cup IdsOf(Pending(durable)) \cup IdsOf(inHand) \subseteq issued
    /\ issued \subseteq 1 .. durable.nextID

IInv == RestartPossible /\ Sorted(durable) /\ SyncInv /\ FollowupInv /\ PlaceInv

-----------------------------------------------------------------------------
(* Induction, with the claim as the set of numbers it holds for.           *)

LEMMA UpTo ==
    ASSUME NEW B \in Nat, NEW T, 0 \in T, \A k \in 0 .. B - 1 : k \in T => k + 1 \in T
    PROVE  \A k \in 0 .. B : k \in T
<1> DEFINE R == OpToRel(<, Nat)
           Bad == {k \in 0 .. B : k \notin T}
<1> SUFFICES ASSUME Bad # {} PROVE FALSE
    OBVIOUS
<1>0. Bad \subseteq Nat
    OBVIOUS
<1>1. IsWellFoundedOn(R, Nat)
    BY NatLessThanWellFounded
<1>2. \A x, y \in Nat : <<y, x>> \in R <=> y < x
    BY DEF OpToRel
<1>3. PICK x \in Bad : \A y \in Bad : ~ (<<y, x>> \in R)
    <2> HIDE DEF R, Bad
    <2> QED
        BY <1>0, <1>1, WFMin
<1>4. x \in 0 .. B /\ x \notin T /\ x # 0
    OBVIOUS
<1>5. x - 1 \in 0 .. B - 1 /\ x - 1 < x /\ (x - 1) + 1 = x
    BY <1>4
<1>6. x - 1 \notin Bad
    <2>1. x - 1 \in Nat /\ x \in Nat
        BY <1>4, <1>5
    <2> HIDE DEF R, Bad
    <2> QED
        BY <1>2, <1>3, <1>5, <2>1
<1>7. x - 1 \in T
    BY <1>5, <1>6
<1> QED
    BY <1>4, <1>5, <1>7

-----------------------------------------------------------------------------
(* OfKinds: the fold that splits the shared target.                        *)

Kept(before, m, kinds) == IF m.kind \in kinds THEN Append(before, m) ELSE before

\* g folds the first n messages of a line.
Keeps(g, line, kinds, n) ==
    g = [k \in 0 .. n |-> IF k = 0 THEN << >> ELSE Kept(g[k - 1], line[k], kinds)]

\* Every line can be folded.
LEMMA KeepsExists ==
    ASSUME NEW line, NEW kinds, NEW B \in Nat
    PROVE  \E g : Keeps(g, line, kinds, B)
<1> DEFINE T == {n \in Nat : \E g : Keeps(g, line, kinds, n)}
<1>1. 0 \in T
    <2>1. Keeps([k \in 0 .. 0 |-> << >>], line, kinds, 0)
        BY DEF Keeps
    <2> QED
        BY <2>1
<1>2. ASSUME NEW n \in 0 .. B - 1, n \in T PROVE n + 1 \in T
    <2>1. PICK g : Keeps(g, line, kinds, n)
        BY <1>2
    <2> DEFINE h == [k \in 0 .. n + 1 |-> IF k <= n THEN g[k] ELSE Kept(g[n], line[n + 1], kinds)]
    <2>2. n \in Nat /\ n + 1 \in Nat /\ (n + 1) - 1 = n
        OBVIOUS
    <2>3. \A k \in 0 .. n : h[k] = g[k]
        BY <2>2
    <2>4. h[n + 1] = Kept(h[n], line[n + 1], kinds)
        BY <2>2, <2>3
    <2>5. \A k \in 0 .. n : g[k] = IF k = 0 THEN << >> ELSE Kept(g[k - 1], line[k], kinds)
        BY <2>1, <2>2 DEF Keeps
    <2>6. \A k \in 0 .. n + 1 : h[k] = IF k = 0 THEN << >> ELSE Kept(h[k - 1], line[k], kinds)
        <3>1. \A k \in 0 .. n : h[k] = IF k = 0 THEN << >> ELSE Kept(h[k - 1], line[k], kinds)
            BY <2>2, <2>3, <2>5
        <3> HIDE DEF h
        <3> QED
            BY <2>2, <2>4, <3>1
    <2>7. Keeps(h, line, kinds, n + 1)
        BY <2>6 DEF Keeps
    <2> QED
        BY <2>2, <2>7
<1> HIDE DEF T
<1>3. B \in T
    BY <1>1, <1>2, UpTo
<1> QED
    BY <1>3 DEF T

\* OfKinds is the last value of the fold.
LEMMA OfKindsFolds ==
    ASSUME NEW S, NEW line \in Seq(S), NEW kinds
    PROVE  \E g : Keeps(g, line, kinds, Len(line)) /\ OfKinds(line, kinds) = g[Len(line)]
<1>0. Len(line) \in Nat
    OBVIOUS
<1>1. \E g : Keeps(g, line, kinds, Len(line))
    BY <1>0, KeepsExists
<1> DEFINE kept[k \in 0 .. Len(line)] ==
              IF k = 0 THEN << >> ELSE Kept(kept[k - 1], line[k], kinds)
<1>2. Keeps(kept, line, kinds, Len(line))
    BY <1>1, Zenon DEF Keeps
<1>3. OfKinds(line, kinds) = kept[Len(line)]
    BY DEF OfKinds, Kept
<1> QED
    BY <1>2, <1>3, Zenon

\* Two folds agree where their lines do.
LEMMA KeepsUnique ==
    ASSUME NEW n \in Nat, NEW m \in Nat, n <= m, NEW a, NEW b, NEW kinds, NEW g, NEW h,
           Keeps(g, a, kinds, n), Keeps(h, b, kinds, m), \A k \in 1 .. n : a[k] = b[k]
    PROVE  g[n] = h[n]
<1> DEFINE T == {k \in 0 .. n : g[k] = h[k]}
<1>1. 0 \in T
    BY DEF Keeps
<1>2. ASSUME NEW k \in 0 .. n - 1, k \in T PROVE k + 1 \in T
    <2>1. k + 1 \in 1 .. n /\ (k + 1) - 1 = k /\ k + 1 # 0
        OBVIOUS
    <2>2. g[k + 1] = Kept(g[k], a[k + 1], kinds)
        BY <2>1 DEF Keeps
    <2>3. h[k + 1] = Kept(h[k], b[k + 1], kinds)
        BY <2>1 DEF Keeps
    <2> QED
        BY <1>2, <2>1, <2>2, <2>3
<1> HIDE DEF T
<1>3. n \in T
    BY <1>1, <1>2, UpTo
<1> QED
    BY <1>3 DEF T

\* One more message at the end of the line.
LEMMA OfKindsAppend ==
    ASSUME NEW S, NEW line \in Seq(S), NEW m \in S, NEW kinds
    PROVE  OfKinds(Append(line, m), kinds) = Kept(OfKinds(line, kinds), m, kinds)
<1> DEFINE longer == Append(line, m)
           n == Len(line)
<1>1. /\ longer \in Seq(S) /\ Len(longer) = n + 1 /\ n \in Nat /\ longer[n + 1] = m
      /\ \A k \in 1 .. n : line[k] = longer[k]
    OBVIOUS
<1> HIDE DEF longer, n
<1>2. PICK g : Keeps(g, line, kinds, n) /\ OfKinds(line, kinds) = g[n]
    BY OfKindsFolds DEF n
<1>3. PICK h : Keeps(h, longer, kinds, n + 1) /\ OfKinds(longer, kinds) = h[n + 1]
    BY <1>1, OfKindsFolds
<1>4. g[n] = h[n]
    BY <1>1, <1>2, <1>3, KeepsUnique
<1>5. n + 1 \in 0 .. n + 1 /\ n + 1 # 0 /\ (n + 1) - 1 = n
    BY <1>1
<1>6. h[n + 1] = Kept(h[n], longer[n + 1], kinds)
    BY <1>3, <1>5 DEF Keeps
<1> QED
    BY <1>1, <1>2, <1>3, <1>4, <1>6 DEF longer

\* The split keeps the type.
LEMMA OfKindsType ==
    ASSUME NEW S, NEW line \in Seq(S), NEW kinds
    PROVE  OfKinds(line, kinds) \in Seq(S)
<1>1. PICK g : Keeps(g, line, kinds, Len(line)) /\ OfKinds(line, kinds) = g[Len(line)]
    BY OfKindsFolds
<1> DEFINE T == {k \in 0 .. Len(line) : g[k] \in Seq(S)}
<1>2. 0 \in T
    BY <1>1 DEF Keeps
<1>3. ASSUME NEW k \in 0 .. Len(line) - 1, k \in T PROVE k + 1 \in T
    <2>1. k + 1 \in 1 .. Len(line) /\ (k + 1) - 1 = k /\ line[k + 1] \in S /\ k + 1 # 0
        OBVIOUS
    <2>2. g[k + 1] = Kept(g[k], line[k + 1], kinds)
        BY <1>1, <2>1 DEF Keeps
    <2>3. g[k] \in Seq(S)
        BY <1>3
    <2>4. Kept(g[k], line[k + 1], kinds) \in Seq(S)
        BY <2>1, <2>3 DEF Kept
    <2> QED
        BY <2>1, <2>2, <2>4
<1> HIDE DEF T
<1>4. Len(line) \in T
    <2> DEFINE B == Len(line)
    <2>1. B \in Nat
        OBVIOUS
    <2>2. \A k \in 0 .. B - 1 : k \in T => k + 1 \in T
        BY <1>3
    <2> HIDE DEF B
    <2>3. \A k \in 0 .. B : k \in T
        BY <1>2, <2>1, <2>2, UpTo, Zenon
    <2>4. B \in 0 .. B
        BY <2>1
    <2> QED
        BY <2>3, <2>4 DEF B
<1> QED
    BY <1>1, <1>4 DEF T

\* A line that has the kinds first keeps that part.
LEMMA OfKindsFirst ==
    ASSUME NEW S, NEW line \in Seq(S), NEW kinds, NEW j \in 0 .. Len(line),
           \A k \in 1 .. j : line[k].kind \in kinds,
           \A k \in j + 1 .. Len(line) : line[k].kind \notin kinds
    PROVE  OfKinds(line, kinds) = SubSeq(line, 1, j)
<1>1. PICK g : Keeps(g, line, kinds, Len(line)) /\ OfKinds(line, kinds) = g[Len(line)]
    BY OfKindsFolds
<1> DEFINE upto(k) == IF k <= j THEN k ELSE j
           T == {k \in 0 .. Len(line) : g[k] = SubSeq(line, 1, upto(k))}
<1>2. 0 \in T
    BY <1>1 DEF Keeps
<1>3. ASSUME NEW k \in 0 .. Len(line) - 1, k \in T PROVE k + 1 \in T
    <2>1. k + 1 \in 1 .. Len(line) /\ (k + 1) - 1 = k /\ k + 1 # 0
        OBVIOUS
    <2>2. g[k + 1] = Kept(g[k], line[k + 1], kinds)
        BY <1>1, <2>1 DEF Keeps
    <2>3. CASE k < j
        <3>1. line[k + 1].kind \in kinds /\ upto(k) = k /\ upto(k + 1) = k + 1
            BY <2>1, <2>3
        <3>2. Append(SubSeq(line, 1, k), line[k + 1]) = SubSeq(line, 1, k + 1)
            BY <2>1
        <3>3. g[k] = SubSeq(line, 1, k)
            BY <1>3, <3>1
        <3>4. g[k + 1] = SubSeq(line, 1, k + 1)
            BY <2>2, <3>1, <3>2, <3>3 DEF Kept
        <3> QED
            BY <2>1, <3>1, <3>4
    <2>4. CASE ~ (k < j)
        <3>1. line[k + 1].kind \notin kinds /\ upto(k) = j /\ upto(k + 1) = j
            BY <2>1, <2>4
        <3> QED
            BY <1>3, <2>1, <2>2, <3>1 DEF Kept
    <2> QED
        BY <2>3, <2>4
<1>4. Len(line) \in T
    <2> DEFINE B == Len(line)
    <2>1. B \in Nat
        OBVIOUS
    <2>2. \A k \in 0 .. B - 1 : k \in T => k + 1 \in T
        BY <1>3
    <2> HIDE DEF T, B
    <2>3. \A k \in 0 .. B : k \in T
        BY <1>2, <2>1, <2>2, UpTo, Zenon
    <2>4. B \in 0 .. B
        BY <2>1
    <2> QED
        BY <2>3, <2>4 DEF B
<1> QED
    BY <1>1, <1>4

\* A line that has the kinds last keeps that part.
LEMMA OfKindsLast ==
    ASSUME NEW S, NEW line \in Seq(S), NEW kinds, NEW j \in 0 .. Len(line),
           \A k \in 1 .. j : line[k].kind \notin kinds,
           \A k \in j + 1 .. Len(line) : line[k].kind \in kinds
    PROVE  OfKinds(line, kinds) = SubSeq(line, j + 1, Len(line))
<1>1. PICK g : Keeps(g, line, kinds, Len(line)) /\ OfKinds(line, kinds) = g[Len(line)]
    BY OfKindsFolds
<1> DEFINE T == {k \in 0 .. Len(line) : g[k] = SubSeq(line, j + 1, k)}
<1>2. 0 \in T
    <2>1. SubSeq(line, j + 1, 0) = << >>
        OBVIOUS
    <2> QED
        BY <1>1, <2>1 DEF Keeps
<1>3. ASSUME NEW k \in 0 .. Len(line) - 1, k \in T PROVE k + 1 \in T
    <2>1. k + 1 \in 1 .. Len(line) /\ (k + 1) - 1 = k /\ k + 1 # 0
        OBVIOUS
    <2>2. g[k + 1] = Kept(g[k], line[k + 1], kinds)
        BY <1>1, <2>1 DEF Keeps
    <2>3. CASE k < j
        <3>1. line[k + 1].kind \notin kinds
            BY <2>1, <2>3
        <3>2. SubSeq(line, j + 1, k) = << >> /\ SubSeq(line, j + 1, k + 1) = << >>
            BY <2>1, <2>3
        <3> QED
            BY <1>3, <2>1, <2>2, <3>1, <3>2 DEF Kept
    <2>4. CASE ~ (k < j)
        <3>1. line[k + 1].kind \in kinds
            BY <2>1, <2>4
        <3>2. Append(SubSeq(line, j + 1, k), line[k + 1]) = SubSeq(line, j + 1, k + 1)
            BY <2>1, <2>4
        <3>3. g[k] = SubSeq(line, j + 1, k)
            BY <1>3
        <3>4. g[k + 1] = SubSeq(line, j + 1, k + 1)
            BY <2>2, <3>1, <3>2, <3>3 DEF Kept
        <3> QED
            BY <2>1, <3>4
    <2> QED
        BY <2>3, <2>4
<1>4. Len(line) \in T
    <2> DEFINE B == Len(line)
    <2>1. B \in Nat
        OBVIOUS
    <2>2. \A k \in 0 .. B - 1 : k \in T => k + 1 \in T
        BY <1>3
    <2> HIDE DEF T, B
    <2>3. \A k \in 0 .. B : k \in T
        BY <1>2, <2>1, <2>2, UpTo, Zenon
    <2>4. B \in 0 .. B
        BY <2>1
    <2> QED
        BY <2>3, <2>4 DEF B
<1> QED
    BY <1>1, <1>4

-----------------------------------------------------------------------------
(* Identifiers of lines.                                                   *)

LEMMA NoIds == IdsOf(<< >>) = {}
BY DEF IdsOf

LEMMA IdsOfOne == \A m : IdsOf(<<m>>) = {m.id}
BY DEF IdsOf

LEMMA IdsOfConcat ==
    ASSUME NEW S, NEW a \in Seq(S), NEW b \in Seq(S)
    PROVE  IdsOf(a \o b) = IdsOf(a) \cup IdsOf(b)
<1>1. /\ Len(a) \in Nat /\ Len(b) \in Nat /\ DOMAIN a = 1 .. Len(a) /\ DOMAIN b = 1 .. Len(b)
      /\ DOMAIN (a \o b) = 1 .. Len(a) + Len(b)
    OBVIOUS
<1>2. \A k \in 1 .. Len(a) : k \in 1 .. Len(a) + Len(b) /\ (a \o b)[k] = a[k]
    BY <1>1
<1>3. \A k \in 1 .. Len(b) : Len(a) + k \in 1 .. Len(a) + Len(b) /\ (a \o b)[Len(a) + k] = b[k]
    BY <1>1
<1>4. \A k \in 1 .. Len(a) + Len(b) :
          k \in 1 .. Len(a) \/ (k - Len(a) \in 1 .. Len(b) /\ (a \o b)[k] = b[k - Len(a)])
    BY <1>1
<1>5. IdsOf(a) \subseteq IdsOf(a \o b)
    BY <1>1, <1>2 DEF IdsOf
<1>6. IdsOf(b) \subseteq IdsOf(a \o b)
    BY <1>1, <1>3 DEF IdsOf
<1>7. IdsOf(a \o b) \subseteq IdsOf(a) \cup IdsOf(b)
    <2> SUFFICES ASSUME NEW k \in 1 .. Len(a) + Len(b) PROVE (a \o b)[k].id \in IdsOf(a) \cup IdsOf(b)
        BY <1>1 DEF IdsOf
    <2> QED
        BY <1>1, <1>2, <1>4 DEF IdsOf
<1> QED
    BY <1>5, <1>6, <1>7

\* The identifiers that are pending, queue by queue.
LEMMA IdsOfPending ==
    ASSUME NEW b \in Box
    PROVE  IdsOf(Pending(b)) = IdsOf(b.nextStep) \cup IdsOf(b.nextTurn) \cup IdsOf(b.quiet)
<1>1. b.nextStep \in Seq(Message) /\ b.nextTurn \in Seq(Message) /\ b.quiet \in Seq(Message)
    BY DEF Box
<1>2. b.nextStep \o b.nextTurn \in Seq(Message)
    BY <1>1
<1>3. IdsOf(b.nextStep \o b.nextTurn) = IdsOf(b.nextStep) \cup IdsOf(b.nextTurn)
    BY <1>1, IdsOfConcat
<1>4. IdsOf((b.nextStep \o b.nextTurn) \o b.quiet) = IdsOf(b.nextStep \o b.nextTurn) \cup IdsOf(b.quiet)
    BY <1>1, <1>2, IdsOfConcat
<1> QED
    BY <1>3, <1>4 DEF Pending

\* Removing one message keeps the others and their order.
LEMMA RemovedOne ==
    ASSUME NEW S, NEW s \in Seq(S), NEW n \in DOMAIN s
    PROVE  /\ RemoveAt(s, n) \in Seq(S) /\ Len(RemoveAt(s, n)) = Len(s) - 1
           /\ n \in 1 .. Len(s) /\ Len(s) \in Nat
           /\ \A k \in 1 .. Len(s) - 1 : RemoveAt(s, n)[k] = s[IF k < n THEN k ELSE k + 1]
<1>1. Len(s) \in Nat /\ n \in 1 .. Len(s)
    OBVIOUS
<1> DEFINE a == SubSeq(s, 1, n - 1)
           b == SubSeq(s, n + 1, Len(s))
<1>2. a \in Seq(S) /\ Len(a) = n - 1 /\ \A k \in 1 .. n - 1 : a[k] = s[k]
    BY <1>1
<1>3. b \in Seq(S) /\ Len(b) = Len(s) - n /\ \A k \in 1 .. Len(s) - n : b[k] = s[n + k]
    BY <1>1
<1>4. RemoveAt(s, n) = a \o b
    BY DEF RemoveAt
<1> HIDE DEF a, b
<1>5. a \o b \in Seq(S) /\ Len(a \o b) = Len(s) - 1
    BY <1>1, <1>2, <1>3
<1>6. ASSUME NEW k \in 1 .. Len(s) - 1 PROVE (a \o b)[k] = s[IF k < n THEN k ELSE k + 1]
    <2>1. CASE k < n
        BY <1>1, <1>2, <1>3, <2>1
    <2>2. CASE ~ (k < n)
        <3>1. k - (n - 1) \in 1 .. Len(s) - n /\ n + (k - (n - 1)) = k + 1
            BY <1>1, <2>2
        <3>2. (a \o b)[k] = b[k - (n - 1)]
            BY <1>1, <1>2, <1>3, <2>2
        <3> QED
            BY <1>3, <2>2, <3>1, <3>2
    <2> QED
        BY <2>1, <2>2
<1> QED
    BY <1>1, <1>4, <1>5, <1>6

LEMMA IdsOfRemoved ==
    ASSUME NEW S, NEW s \in Seq(S), NEW n \in DOMAIN s
    PROVE  IdsOf(RemoveAt(s, n)) \subseteq IdsOf(s)
<1> DEFINE t == RemoveAt(s, n)
<1>1. /\ t \in Seq(S) /\ Len(t) = Len(s) - 1 /\ n \in 1 .. Len(s) /\ Len(s) \in Nat
      /\ \A k \in 1 .. Len(s) - 1 : t[k] = s[IF k < n THEN k ELSE k + 1]
    BY RemovedOne
<1> HIDE DEF t
<1>2. DOMAIN t = 1 .. Len(s) - 1 /\ DOMAIN s = 1 .. Len(s)
    BY <1>1
<1>3. \A k \in 1 .. Len(s) - 1 : (IF k < n THEN k ELSE k + 1) \in 1 .. Len(s)
    BY <1>1
<1>4. IdsOf(t) \subseteq IdsOf(s)
    BY <1>1, <1>2, <1>3 DEF IdsOf
<1> QED
    BY <1>4 DEF t

-----------------------------------------------------------------------------
(* apply.                                                                  *)

LEMMA MaxOfTwo ==
    ASSUME NEW a \in Nat, NEW b \in Nat
    PROVE  Max({a} \cup {b}) = IF a >= b THEN a ELSE b
<1> DEFINE top == IF a >= b THEN a ELSE b
<1>1. top \in {a} \cup {b} /\ \A y \in {a} \cup {b} : top >= y
    OBVIOUS
<1>2. \A x \in {a} \cup {b} : (\A y \in {a} \cup {b} : x >= y) => x = top
    OBVIOUS
<1> HIDE DEF top
<1>3. Max({a} \cup {b}) = top
    BY <1>1, <1>2, Zenon DEF Max
<1> QED
    BY <1>3 DEF top

\* Removing messages leaves the counter, inserting one raises it.
LEMMA LastIdRemove ==
    ASSUME NEW b \in Box, NEW t, NEW i, NEW c
    PROVE  LastId(b, RemoveFrom(t, i, c)) = b.nextID
<1>1. b.nextID \in Nat
    BY BoundsAssumption DEF Box
<1>2. IdsOf(RemoveFrom(t, i, c).inserted) \cup {b.nextID} = {b.nextID} \cup {b.nextID}
    BY NoIds DEF RemoveFrom
<1> QED
    BY <1>1, <1>2, MaxOfTwo DEF LastId

LEMMA LastIdInsert ==
    ASSUME NEW b \in Box, NEW e, NEW m \in Message, e.inserted = <<m>>
    PROVE  LastId(b, e) = IF m.id >= b.nextID THEN m.id ELSE b.nextID
<1>1. b.nextID \in Nat /\ m.id \in Nat
    BY BoundsAssumption DEF Box, Message
<1>2. IdsOf(e.inserted) \cup {b.nextID} = {m.id} \cup {b.nextID}
    BY IdsOfOne
<1> QED
    BY <1>1, <1>2, MaxOfTwo DEF LastId

\* A line of waking messages and then quiet ones is split where they meet.
LEMMA SplitLine ==
    ASSUME NEW a \in Seq(Message), NEW c \in Seq(Message),
           \A n \in DOMAIN a : a[n].kind \in Kinds \ QuietKinds,
           \A n \in DOMAIN c : c[n].kind \in QuietKinds
    PROVE  /\ OfKinds(a \o c, Kinds \ QuietKinds) = a
           /\ OfKinds(a \o c, QuietKinds) = c
<1> DEFINE line == a \o c
           j == Len(a)
           waking == Kinds \ QuietKinds
<1>1. line \in Seq(Message) /\ Len(line) = j + Len(c) /\ j \in Nat /\ Len(c) \in Nat
    OBVIOUS
<1>2. \A k \in 1 .. j : line[k] = a[k]
    BY <1>1
<1>3. \A k \in j + 1 .. Len(line) : line[k] = c[k - j] /\ k - j \in DOMAIN c
    BY <1>1
<1>4. SubSeq(line, 1, j) = a
    BY <1>1
<1>5. SubSeq(line, j + 1, Len(line)) = c
    BY <1>1
<1>6. \A k \in 1 .. j : line[k].kind \in waking /\ line[k].kind \notin QuietKinds
    BY <1>2
<1>7. \A k \in j + 1 .. Len(line) : line[k].kind \notin waking /\ line[k].kind \in QuietKinds
    BY <1>3
<1>8. j \in 0 .. Len(line)
    BY <1>1
<1> HIDE DEF line, j, waking
<1>9. OfKinds(line, waking) = SubSeq(line, 1, j)
    BY <1>1, <1>6, <1>7, <1>8, OfKindsFirst
<1>10. OfKinds(line, QuietKinds) = SubSeq(line, j + 1, Len(line))
    BY <1>1, <1>6, <1>7, <1>8, OfKindsLast
<1> QED
    BY <1>4, <1>5, <1>9, <1>10 DEF line, waking

LEMMA OfKindsEmpty == \A kinds : OfKinds(<< >>, kinds) = << >>
<1> TAKE kinds
<1>1. << >> \in Seq({}) /\ Len(<< >>) = 0 /\ SubSeq(<< >>, 1, 0) = << >>
    OBVIOUS
<1>2. 0 \in 0 .. Len(<< >>) /\ (\A k \in 1 .. 0 : FALSE) /\ (\A k \in 0 + 1 .. Len(<< >>) : FALSE)
    BY <1>1
<1> QED
    BY <1>1, <1>2, OfKindsFirst

\* The queues are lines of messages.
LEMMA QueueType ==
    ASSUME NEW b \in Box, NEW t
    PROVE  /\ queue(b, t) \in Seq(Message) /\ Len(queue(b, t)) \in Nat
           /\ b.nextStep \in Seq(Message) /\ b.nextTurn \in Seq(Message) /\ b.quiet \in Seq(Message)
BY DEF Box, queue

\* The events the operations commit are events.
LEMMA RemoveFromType ==
    ASSUME NEW t \in {"next-step", "next-turn"}, NEW i \in Nat, NEW c \in Nat
    PROVE  RemoveFrom(t, i, c) \in Events
BY DEF RemoveFrom, Events

LEMMA InsertType ==
    ASSUME NEW b \in Box, NEW m \in Message
    PROVE  Insert(b, m) \in Events
<1>1. inboxTarget(m.kind) \in {"next-step", "next-turn"}
    BY DEF inboxTarget
<1>2. Len(queue(b, inboxTarget(m.kind))) \in Nat
    BY QueueType
<1> QED
    BY <1>1, <1>2 DEF Insert, Events

\* Applying an event to queues gives queues.
LEMMA ApplyType ==
    ASSUME NEW b \in Box, NEW e \in Events
    PROVE  apply(b, e) \in Box
<1> DEFINE q == queue(b, e.target)
           all == Splice(q, e)
<1>1. CASE ~b.ok \/ e.start + e.removed > Len(q) \/ IdsOf(e.inserted) \cap IdsOf(Pending(b)) # {}
    BY <1>1 DEF apply, Box
<1>2. CASE ~ (~b.ok \/ e.start + e.removed > Len(q) \/ IdsOf(e.inserted) \cap IdsOf(Pending(b)) # {})
    <2>0. q \in Seq(Message) /\ Len(q) \in Nat
        BY QueueType
    <2>a. e.start \in Nat /\ e.removed \in Nat /\ e.inserted \in {<< >>} \cup {<<m>> : m \in Message}
        BY DEF Events
    <2>b. e.inserted \in Seq(Message)
        <3>1. << >> \in Seq(Message) /\ \A m \in Message : <<m>> \in Seq(Message)
            OBVIOUS
        <3> QED
            BY <2>a, <3>1
    <2>1. q \in Seq(Message) /\ Len(q) \in Nat /\ e.start \in Nat /\ e.removed \in Nat
          /\ e.inserted \in Seq(Message)
        BY <2>0, <2>a, <2>b
    <2>2. SubSeq(q, 1, e.start) \in Seq(Message)
        BY <1>2, <2>1
    <2>3. SubSeq(q, e.start + e.removed + 1, Len(q)) \in Seq(Message)
        BY <1>2, <2>1
    <2>4. all \in Seq(Message)
        BY <2>1, <2>2, <2>3 DEF Splice
    <2>5. OfKinds(all, Kinds \ QuietKinds) \in Seq(Message) /\ OfKinds(all, QuietKinds) \in Seq(Message)
        BY <2>4, OfKindsType
    <2>6. LastId(b, e) \in 0 .. MaxId
        <3>1. CASE e.inserted = << >>
            <4>1. b.nextID \in Nat /\ IdsOf(e.inserted) \cup {b.nextID} = {b.nextID} \cup {b.nextID}
                BY <3>1, NoIds, BoundsAssumption DEF Box
            <4> QED
                BY <4>1, MaxOfTwo DEF LastId, Box
        <3>2. CASE \E m \in Message : e.inserted = <<m>>
            <4>1. PICK m \in Message : e.inserted = <<m>>
                BY <3>2
            <4>2. m.id \in 0 .. MaxId /\ b.nextID \in 0 .. MaxId
                BY BoundsAssumption DEF Box, Message
            <4>3. LastId(b, e) = IF m.id >= b.nextID THEN m.id ELSE b.nextID
                BY <4>1, LastIdInsert
            <4> QED
                BY <4>2, <4>3
        <3> QED
            BY <3>1, <3>2 DEF Events
    <2>7. Spliced(b, e) \in Box
        <3> HIDE DEF all
        <3>1. Spliced(b, e) = [b EXCEPT
                  !.nextTurn = IF e.target = "next-turn" THEN all ELSE @,
                  !.nextStep = IF e.target = "next-turn" THEN @ ELSE OfKinds(all, Kinds \ QuietKinds),
                  !.quiet = IF e.target = "next-turn" THEN @ ELSE OfKinds(all, QuietKinds)]
            BY DEF Spliced, all
        <3> QED
            BY <2>4, <2>5, <3>1 DEF Box
    <2>8. apply(b, e) = [Spliced(b, e) EXCEPT !.nextID = LastId(b, e)]
        BY <1>2 DEF apply
    <2> QED
        BY <2>6, <2>7, <2>8 DEF Box
<1> QED
    BY <1>1, <1>2

\* The line without c messages after the first i.
Cut(line, i, c) == SubSeq(line, 1, i) \o SubSeq(line, i + c + 1, Len(line))

\* Removals within bounds, on queues that replay.
LEMMA RemoveFromTurn ==
    ASSUME NEW b \in Box, b.ok, NEW i \in Nat, NEW c \in Nat, i + c <= Len(b.nextTurn)
    PROVE  apply(b, RemoveFrom("next-turn", i, c)) = [b EXCEPT !.nextTurn = Cut(b.nextTurn, i, c)]
<1> DEFINE q == b.nextTurn
           e == RemoveFrom("next-turn", i, c)
<1>1. q \in Seq(Message) /\ Len(q) \in Nat /\ queue(b, "next-turn") = q
    BY QueueType DEF queue
<1>2. e.target = "next-turn" /\ e.start = i /\ e.removed = c /\ e.inserted = << >>
    BY DEF RemoveFrom
<1>3. LastId(b, e) = b.nextID
    BY LastIdRemove
<1>4. IdsOf(e.inserted) \cap IdsOf(Pending(b)) = {}
    BY <1>2, NoIds
<1>5. SubSeq(q, 1, i) \o << >> = SubSeq(q, 1, i)
    <2>1. SubSeq(q, 1, i) \in Seq(Message)
        BY <1>1
    <2> QED
        BY <2>1
<1>6. Splice(q, e) = Cut(q, i, c)
    BY <1>2, <1>5 DEF Splice, Cut
<1> HIDE DEF e
<1>7. apply(b, e) = [Spliced(b, e) EXCEPT !.nextID = b.nextID]
    BY <1>1, <1>2, <1>3, <1>4 DEF apply
<1>8. Spliced(b, e) = [b EXCEPT !.nextTurn = Cut(q, i, c)]
    BY <1>1, <1>2, <1>6 DEF Spliced, Box
<1>9. [Spliced(b, e) EXCEPT !.nextID = b.nextID] = Spliced(b, e)
    BY <1>8 DEF Box
<1> QED
    BY <1>7, <1>8, <1>9 DEF e

LEMMA RemoveFromStep ==
    ASSUME NEW b \in Box, b.ok, NEW i \in Nat, NEW c \in Nat, i + c <= Len(queue(b, "next-step"))
    PROVE  apply(b, RemoveFrom("next-step", i, c)) =
             [b EXCEPT !.nextStep = OfKinds(Cut(queue(b, "next-step"), i, c), Kinds \ QuietKinds),
                       !.quiet = OfKinds(Cut(queue(b, "next-step"), i, c), QuietKinds)]
<1> DEFINE q == queue(b, "next-step")
           e == RemoveFrom("next-step", i, c)
           step == OfKinds(Cut(q, i, c), Kinds \ QuietKinds)
           quiet == OfKinds(Cut(q, i, c), QuietKinds)
<1>1. q \in Seq(Message) /\ Len(q) \in Nat
    BY QueueType
<1>2. e.target = "next-step" /\ e.start = i /\ e.removed = c /\ e.inserted = << >>
    BY DEF RemoveFrom
<1>3. LastId(b, e) = b.nextID
    BY LastIdRemove
<1>4. IdsOf(e.inserted) \cap IdsOf(Pending(b)) = {}
    BY <1>2, NoIds
<1>5. SubSeq(q, 1, i) \o << >> = SubSeq(q, 1, i)
    <2>1. SubSeq(q, 1, i) \in Seq(Message)
        BY <1>1
    <2> QED
        BY <2>1
<1>6. Splice(q, e) = Cut(q, i, c)
    BY <1>2, <1>5 DEF Splice, Cut
<1> HIDE DEF e
<1>7. apply(b, e) = [Spliced(b, e) EXCEPT !.nextID = b.nextID]
    BY <1>1, <1>2, <1>3, <1>4 DEF apply
<1>8. Spliced(b, e) = [b EXCEPT !.nextStep = step, !.quiet = quiet]
    BY <1>2, <1>6 DEF Spliced, Box
<1>9. [Spliced(b, e) EXCEPT !.nextID = b.nextID] = Spliced(b, e)
    BY <1>8 DEF Box
<1> QED
    BY <1>7, <1>8, <1>9 DEF e

\* Cutting everything, the first message and one message.
LEMMA CutFacts ==
    ASSUME NEW S, NEW q \in Seq(S)
    PROVE  /\ Len(q) \in Nat /\ Cut(q, 0, Len(q)) = << >>
           /\ q # << >> => 1 <= Len(q) /\ Cut(q, 0, 1) = SubSeq(q, 2, Len(q))
           /\ \A n \in DOMAIN q : n \in 1 .. Len(q) /\ Cut(q, n - 1, 1) = RemoveAt(q, n)
<1>1. Len(q) \in Nat /\ DOMAIN q = 1 .. Len(q)
    OBVIOUS
<1>2. SubSeq(q, 1, 0) = << >> /\ \A s \in Seq(S) : << >> \o s = s
    OBVIOUS
<1>3. SubSeq(q, 0 + Len(q) + 1, Len(q)) = << >> /\ << >> \o << >> = << >>
    BY <1>1
<1>4. q # << >> => 1 <= Len(q) /\ SubSeq(q, 2, Len(q)) \in Seq(S) /\ 0 + 1 + 1 = 2
    BY <1>1
<1>5. ASSUME NEW n \in DOMAIN q PROVE Cut(q, n - 1, 1) = RemoveAt(q, n)
    <2>1. n - 1 + 1 + 1 = n + 1
        BY <1>1
    <2> QED
        BY <2>1 DEF Cut, RemoveAt
<1> QED
    BY <1>1, <1>2, <1>3, <1>4, <1>5 DEF Cut

\* The shared target and the follow-ups are emptied.
LEMMA ApplyEmptyStep ==
    ASSUME NEW b \in Box, b.ok
    PROVE  apply(b, RemoveFrom("next-step", 0, Len(queue(b, "next-step")))) =
             [b EXCEPT !.nextStep = << >>, !.quiet = << >>]
<1>1. queue(b, "next-step") \in Seq(Message)
    BY QueueType
<1>2. /\ Len(queue(b, "next-step")) \in Nat
      /\ Cut(queue(b, "next-step"), 0, Len(queue(b, "next-step"))) = << >>
    BY <1>1, CutFacts
<1> DEFINE q == queue(b, "next-step")
<1>3. 0 \in Nat /\ Len(q) \in Nat /\ 0 + Len(q) <= Len(q)
    BY <1>2
<1>4. apply(b, RemoveFrom("next-step", 0, Len(q))) =
        [b EXCEPT !.nextStep = OfKinds(Cut(q, 0, Len(q)), Kinds \ QuietKinds),
                  !.quiet = OfKinds(Cut(q, 0, Len(q)), QuietKinds)]
    BY <1>3, RemoveFromStep
<1> HIDE DEF q
<1>5. Cut(q, 0, Len(q)) = << >>
    BY <1>2 DEF q
<1>6. apply(b, RemoveFrom("next-step", 0, Len(q))) = [b EXCEPT !.nextStep = << >>, !.quiet = << >>]
    BY <1>4, <1>5, OfKindsEmpty
<1> QED
    BY <1>6 DEF q

LEMMA ApplyEmptyTurn ==
    ASSUME NEW b \in Box, b.ok
    PROVE  apply(b, RemoveFrom("next-turn", 0, Len(b.nextTurn))) = [b EXCEPT !.nextTurn = << >>]
<1>1. b.nextTurn \in Seq(Message)
    BY QueueType
<1>2. Len(b.nextTurn) \in Nat /\ Cut(b.nextTurn, 0, Len(b.nextTurn)) = << >>
    BY <1>1, CutFacts
<1>3. 0 \in Nat /\ Len(b.nextTurn) \in Nat /\ 0 + Len(b.nextTurn) <= Len(b.nextTurn)
    BY <1>2
<1>4. apply(b, RemoveFrom("next-turn", 0, Len(b.nextTurn))) = [b EXCEPT !.nextTurn = Cut(b.nextTurn, 0, Len(b.nextTurn))]
    BY <1>3, RemoveFromTurn
<1> QED
    BY <1>2, <1>4

\* One follow-up is claimed.
LEMMA ApplyClaimTurn ==
    ASSUME NEW b \in Box, b.ok, b.nextTurn # << >>
    PROVE  apply(b, RemoveFrom("next-turn", 0, 1)) =
             [b EXCEPT !.nextTurn = SubSeq(b.nextTurn, 2, Len(b.nextTurn))]
<1>1. b.nextTurn \in Seq(Message)
    BY QueueType
<1>2. /\ Len(b.nextTurn) \in Nat /\ 1 <= Len(b.nextTurn)
      /\ Cut(b.nextTurn, 0, 1) = SubSeq(b.nextTurn, 2, Len(b.nextTurn))
    BY <1>1, CutFacts
<1>3. 0 \in Nat /\ 1 \in Nat /\ 0 + 1 <= Len(b.nextTurn)
    BY <1>2
<1>4. apply(b, RemoveFrom("next-turn", 0, 1)) = [b EXCEPT !.nextTurn = Cut(b.nextTurn, 0, 1)]
    BY <1>3, RemoveFromTurn
<1> QED
    BY <1>2, <1>4

\* One message is removed.
LEMMA ApplyRemoveTurn ==
    ASSUME NEW b \in Box, b.ok, NEW n \in DOMAIN b.nextTurn
    PROVE  apply(b, RemoveFrom("next-turn", n - 1, 1)) = [b EXCEPT !.nextTurn = RemoveAt(b.nextTurn, n)]
<1>1. b.nextTurn \in Seq(Message)
    BY QueueType
<1>2. /\ Len(b.nextTurn) \in Nat /\ n \in 1 .. Len(b.nextTurn)
      /\ Cut(b.nextTurn, n - 1, 1) = RemoveAt(b.nextTurn, n)
    BY <1>1, CutFacts
<1>3. n - 1 \in Nat /\ 1 \in Nat /\ n - 1 + 1 <= Len(b.nextTurn)
    BY <1>2
<1>4. apply(b, RemoveFrom("next-turn", n - 1, 1)) = [b EXCEPT !.nextTurn = Cut(b.nextTurn, n - 1, 1)]
    BY <1>3, RemoveFromTurn
<1> QED
    BY <1>2, <1>4

LEMMA RemoveInFirst ==
    ASSUME NEW S, NEW a \in Seq(S), NEW c \in Seq(S), NEW n \in DOMAIN a
    PROVE  n \in DOMAIN (a \o c) /\ RemoveAt(a \o c, n) = RemoveAt(a, n) \o c
<1> DEFINE q == a \o c
           u == RemoveAt(q, n)
           w == RemoveAt(a, n)
           v == w \o c
<1>1. Len(a) \in Nat /\ Len(c) \in Nat /\ n \in 1 .. Len(a)
    OBVIOUS
<1>2. /\ q \in Seq(S) /\ Len(q) = Len(a) + Len(c)
      /\ \A k \in 1 .. Len(a) + Len(c) : q[k] = IF k <= Len(a) THEN a[k] ELSE c[k - Len(a)]
    BY ConcatProperties
<1> HIDE DEF q
<1>3. n \in DOMAIN q
    BY <1>1, <1>2
<1>4. /\ u \in Seq(S) /\ Len(u) = Len(q) - 1
      /\ \A k \in 1 .. Len(q) - 1 : u[k] = q[IF k < n THEN k ELSE k + 1]
    BY <1>2, <1>3, RemovedOne
<1>5. /\ w \in Seq(S) /\ Len(w) = Len(a) - 1
      /\ \A k \in 1 .. Len(a) - 1 : w[k] = a[IF k < n THEN k ELSE k + 1]
    BY RemovedOne
<1> HIDE DEF w
<1>6. /\ v \in Seq(S) /\ Len(v) = Len(w) + Len(c)
      /\ \A k \in 1 .. Len(w) + Len(c) : v[k] = IF k <= Len(w) THEN w[k] ELSE c[k - Len(w)]
    BY <1>5, ConcatProperties
<1> HIDE DEF u, v
<1>7. ASSUME NEW k \in 1 .. Len(u) PROVE u[k] = v[k]
    <2> DEFINE i == IF k < n THEN k ELSE k + 1
    <2>1. /\ k \in 1 .. Len(q) - 1 /\ i \in 1 .. Len(a) + Len(c) /\ k \in 1 .. Len(w) + Len(c)
        BY <1>1, <1>2, <1>4, <1>5
    <2>2. u[k] = IF i <= Len(a) THEN a[i] ELSE c[i - Len(a)]
        <3>1. u[k] = q[i]
            BY <1>4, <2>1
        <3> HIDE DEF i
        <3> QED
            BY <1>2, <2>1, <3>1
    <2>3. v[k] = IF k <= Len(w) THEN w[k] ELSE c[k - Len(w)]
        BY <1>6, <2>1
    <2>4. CASE k <= Len(a) - 1
        <3>1. w[k] = a[i] /\ i <= Len(a) /\ k <= Len(w)
            BY <1>1, <1>5, <2>4
        <3> HIDE DEF i
        <3> QED
            BY <2>2, <2>3, <3>1
    <2>5. CASE ~ (k <= Len(a) - 1)
        <3>1. i = k + 1 /\ ~ (i <= Len(a)) /\ i - Len(a) = k - Len(w) /\ ~ (k <= Len(w))
            BY <1>1, <1>5, <2>5
        <3> HIDE DEF i
        <3> QED
            BY <2>2, <2>3, <3>1
    <2> QED
        BY <2>4, <2>5
<1>8. Len(u) = Len(v)
    BY <1>1, <1>2, <1>4, <1>5, <1>6
<1>9. u = v
    BY <1>4, <1>6, <1>7, <1>8, SeqEqual
<1> QED
    BY <1>3, <1>9 DEF u, v, w, q

LEMMA RemoveInSecond ==
    ASSUME NEW S, NEW a \in Seq(S), NEW c \in Seq(S), NEW n \in DOMAIN c
    PROVE  Len(a) + n \in DOMAIN (a \o c) /\ RemoveAt(a \o c, Len(a) + n) = a \o RemoveAt(c, n)
<1> DEFINE q == a \o c
           j == Len(a) + n
           u == RemoveAt(q, j)
           w == RemoveAt(c, n)
           v == a \o w
<1>1. Len(a) \in Nat /\ Len(c) \in Nat /\ n \in 1 .. Len(c)
    OBVIOUS
<1>2. /\ q \in Seq(S) /\ Len(q) = Len(a) + Len(c)
      /\ \A k \in 1 .. Len(a) + Len(c) : q[k] = IF k <= Len(a) THEN a[k] ELSE c[k - Len(a)]
    BY ConcatProperties
<1> HIDE DEF q
<1>3. j \in DOMAIN q
    BY <1>1, <1>2
<1> HIDE DEF j
<1>4. /\ u \in Seq(S) /\ Len(u) = Len(q) - 1
      /\ \A k \in 1 .. Len(q) - 1 : u[k] = q[IF k < j THEN k ELSE k + 1]
    BY <1>2, <1>3, RemovedOne
<1>5. /\ w \in Seq(S) /\ Len(w) = Len(c) - 1
      /\ \A k \in 1 .. Len(c) - 1 : w[k] = c[IF k < n THEN k ELSE k + 1]
    BY RemovedOne
<1> HIDE DEF w
<1>6. /\ v \in Seq(S) /\ Len(v) = Len(a) + Len(w)
      /\ \A k \in 1 .. Len(a) + Len(w) : v[k] = IF k <= Len(a) THEN a[k] ELSE w[k - Len(a)]
    BY <1>5, ConcatProperties
<1> HIDE DEF u, v
<1>7. ASSUME NEW k \in 1 .. Len(u) PROVE u[k] = v[k]
    <2> DEFINE i == IF k < j THEN k ELSE k + 1
               l == k - Len(a)
    <2>1. /\ k \in 1 .. Len(q) - 1 /\ i \in 1 .. Len(a) + Len(c) /\ k \in 1 .. Len(a) + Len(w)
        BY <1>1, <1>2, <1>4, <1>5 DEF j
    <2>2. u[k] = IF i <= Len(a) THEN a[i] ELSE c[i - Len(a)]
        <3>1. u[k] = q[i]
            BY <1>4, <2>1
        <3> HIDE DEF i
        <3> QED
            BY <1>2, <2>1, <3>1
    <2>3. v[k] = IF k <= Len(a) THEN a[k] ELSE w[l]
        BY <1>6, <2>1
    <2>4. CASE k <= Len(a)
        <3>1. i = k
            BY <1>1, <2>4 DEF j
        <3> HIDE DEF i
        <3> QED
            BY <2>2, <2>3, <2>4, <3>1
    <2>5. CASE ~ (k <= Len(a))
        <3>1. l \in 1 .. Len(c) - 1 /\ i - Len(a) = (IF l < n THEN l ELSE l + 1) /\ ~ (i <= Len(a))
            BY <1>1, <1>2, <1>4, <2>1, <2>5 DEF j
        <3> HIDE DEF i, l
        <3>2. w[l] = c[i - Len(a)]
            BY <1>5, <3>1
        <3> QED
            BY <2>2, <2>3, <2>5, <3>1, <3>2
    <2> QED
        BY <2>4, <2>5
<1>8. Len(u) = Len(v)
    BY <1>1, <1>2, <1>4, <1>5, <1>6
<1>9. u = v
    BY <1>4, <1>6, <1>7, <1>8, SeqEqual
<1> QED
    BY <1>3, <1>9 DEF u, v, w, q, j

LEMMA SortedRemoved ==
    ASSUME NEW s \in Seq(Message), NEW n \in DOMAIN s, NEW K, \A k \in DOMAIN s : s[k].kind \in K
    PROVE  RemoveAt(s, n) \in Seq(Message) /\ \A k \in DOMAIN RemoveAt(s, n) : RemoveAt(s, n)[k].kind \in K
<1> DEFINE t == RemoveAt(s, n)
<1>1. /\ t \in Seq(Message) /\ Len(t) = Len(s) - 1 /\ n \in 1 .. Len(s) /\ Len(s) \in Nat
      /\ \A k \in 1 .. Len(s) - 1 : t[k] = s[IF k < n THEN k ELSE k + 1]
    BY RemovedOne
<1> HIDE DEF t
<1>2. DOMAIN t = 1 .. Len(s) - 1 /\ DOMAIN s = 1 .. Len(s)
    BY <1>1
<1>3. \A k \in 1 .. Len(s) - 1 : (IF k < n THEN k ELSE k + 1) \in 1 .. Len(s)
    BY <1>1
<1>4. t \in Seq(Message) /\ \A k \in DOMAIN t : t[k].kind \in K
    BY <1>1, <1>2, <1>3
<1> QED
    BY <1>4 DEF t

LEMMA ApplyRemoveStep ==
    ASSUME NEW b \in Box, b.ok, Sorted(b), NEW n \in DOMAIN b.nextStep
    PROVE  apply(b, RemoveFrom("next-step", n - 1, 1)) = [b EXCEPT !.nextStep = RemoveAt(b.nextStep, n)]
<1> DEFINE q == queue(b, "next-step")
           a == b.nextStep
           c == b.quiet
           all == RemoveAt(a, n) \o c
<1>1. q = a \o c /\ a \in Seq(Message) /\ c \in Seq(Message) /\ n \in DOMAIN a
    BY QueueType DEF queue
<1>2. q \in Seq(Message)
    BY QueueType
<1>3. RemoveAt(a, n) \in Seq(Message) /\ \A k \in DOMAIN RemoveAt(a, n) : RemoveAt(a, n)[k].kind \in Kinds \ QuietKinds
    BY <1>1, SortedRemoved DEF Sorted
<1>4. OfKinds(all, Kinds \ QuietKinds) = RemoveAt(a, n) /\ OfKinds(all, QuietKinds) = c
    BY <1>1, <1>3, SplitLine DEF Sorted
<1>5. n \in DOMAIN q /\ RemoveAt(q, n) = all
    <2> HIDE DEF q, a, c
    <2> QED
        BY <1>1, RemoveInFirst, Zenon
<1>6. Len(q) \in Nat /\ n \in 1 .. Len(q) /\ Cut(q, n - 1, 1) = all
    <2> HIDE DEF q, all
    <2> QED
        BY <1>2, <1>5, CutFacts
<1>7. n - 1 \in Nat /\ 1 \in Nat /\ n - 1 + 1 <= Len(q)
    BY <1>6
<1>8. apply(b, RemoveFrom("next-step", n - 1, 1)) =
        [b EXCEPT !.nextStep = OfKinds(Cut(q, n - 1, 1), Kinds \ QuietKinds),
                  !.quiet = OfKinds(Cut(q, n - 1, 1), QuietKinds)]
    BY <1>7, RemoveFromStep
<1>9. [b EXCEPT !.nextStep = RemoveAt(a, n), !.quiet = c] = [b EXCEPT !.nextStep = RemoveAt(a, n)]
    BY DEF Box
<1> HIDE DEF q, all
<1> QED
    BY <1>4, <1>6, <1>8, <1>9

LEMMA ApplyRemoveQuiet ==
    ASSUME NEW b \in Box, b.ok, Sorted(b), NEW n \in DOMAIN b.quiet
    PROVE  apply(b, RemoveFrom("next-step", Len(b.nextStep) + n - 1, 1)) =
             [b EXCEPT !.quiet = RemoveAt(b.quiet, n)]
<1> DEFINE q == queue(b, "next-step")
           a == b.nextStep
           c == b.quiet
           j == Len(a) + n
           all == a \o RemoveAt(c, n)
<1>1. q = a \o c /\ a \in Seq(Message) /\ c \in Seq(Message) /\ n \in DOMAIN c
    BY QueueType DEF queue
<1>2. q \in Seq(Message)
    BY QueueType
<1>3. RemoveAt(c, n) \in Seq(Message) /\ \A k \in DOMAIN RemoveAt(c, n) : RemoveAt(c, n)[k].kind \in QuietKinds
    BY <1>1, SortedRemoved DEF Sorted
<1>4. OfKinds(all, Kinds \ QuietKinds) = a /\ OfKinds(all, QuietKinds) = RemoveAt(c, n)
    BY <1>1, <1>3, SplitLine DEF Sorted
<1>5. j \in DOMAIN q /\ RemoveAt(q, j) = all
    <2> HIDE DEF q, a, c
    <2> QED
        BY <1>1, RemoveInSecond, Zenon
<1>6. Len(q) \in Nat /\ j \in 1 .. Len(q) /\ Cut(q, j - 1, 1) = all
    <2> HIDE DEF q, all, j
    <2> QED
        BY <1>2, <1>5, CutFacts
<1>7. j - 1 \in Nat /\ 1 \in Nat /\ j - 1 + 1 <= Len(q)
    <2> HIDE DEF j
    <2> QED
        BY <1>6
<1>8. apply(b, RemoveFrom("next-step", j - 1, 1)) =
        [b EXCEPT !.nextStep = OfKinds(Cut(q, j - 1, 1), Kinds \ QuietKinds),
                  !.quiet = OfKinds(Cut(q, j - 1, 1), QuietKinds)]
    <2> HIDE DEF j
    <2> QED
        BY <1>7, RemoveFromStep
<1>9. [b EXCEPT !.nextStep = a, !.quiet = RemoveAt(c, n)] = [b EXCEPT !.quiet = RemoveAt(c, n)]
    BY DEF Box
<1>10. apply(b, RemoveFrom("next-step", j - 1, 1)) = [b EXCEPT !.quiet = RemoveAt(c, n)]
    <2> HIDE DEF q, all, j
    <2> QED
        BY <1>4, <1>6, <1>8, <1>9
<1>11. j - 1 = Len(b.nextStep) + n - 1
    BY <1>1
<1> HIDE DEF j
<1> QED
    BY <1>10, <1>11

\* The queues with one more message.
Grown(b, m) ==
    CASE m.kind = "next-turn" -> [b EXCEPT !.nextTurn = Append(@, m), !.nextID = m.id]
      [] m.kind = "quiet-injection" -> [b EXCEPT !.quiet = Append(@, m), !.nextID = m.id]
      [] OTHER -> [b EXCEPT !.nextStep = Append(@, m), !.nextID = m.id]

\* A message goes to the end of its queue.
LEMMA ApplyInsert ==
    ASSUME NEW b \in Box, b.ok = TRUE, Sorted(b), NEW x \in Box, NEW m \in Message, m.id > b.nextID,
           m.id \notin IdsOf(Pending(b)),
           x.nextStep = b.nextStep, x.nextTurn = b.nextTurn, x.quiet = b.quiet
    PROVE  apply(b, Insert(x, m)) = Grown(b, m)
<1> DEFINE e == Insert(x, m)
           t == inboxTarget(m.kind)
           q == queue(b, t)
           a == b.nextStep
           c == b.quiet
<1>1. /\ q \in Seq(Message) /\ Len(q) \in Nat /\ a \in Seq(Message) /\ c \in Seq(Message)
      /\ b.nextTurn \in Seq(Message) /\ b.nextID \in Nat /\ m.id \in Nat
    <2>1. b.nextID \in Nat /\ m.id \in Nat
        BY BoundsAssumption DEF Box, Message
    <2> QED
        BY <2>1, QueueType
<1>2. e.target = t /\ e.start = Len(q) /\ e.removed = 0 /\ e.inserted = <<m>>
    BY DEF Insert, queue
<1>3. LastId(b, e) = m.id
    <2>1. LastId(b, e) = IF m.id >= b.nextID THEN m.id ELSE b.nextID
        BY <1>2, LastIdInsert
    <2> QED
        BY <1>1, <2>1
<1>4. IdsOf(e.inserted) \cap IdsOf(Pending(b)) = {}
    BY <1>2, IdsOfOne
<1>5. Splice(q, e) = Append(q, m)
    <2>1. SubSeq(q, 1, Len(q)) = q
        BY <1>1
    <2>2. SubSeq(q, Len(q) + 0 + 1, Len(q)) = << >>
        BY <1>1
    <2>3. (q \o <<m>>) \o << >> = Append(q, m)
        BY <1>1
    <2> HIDE DEF q
    <2> QED
        BY <1>2, <2>1, <2>2, <2>3 DEF Splice
<1>6. apply(b, e) = [Spliced(b, e) EXCEPT !.nextID = m.id]
    <2>1. b.ok /\ ~ (e.start + e.removed > Len(queue(b, e.target)))
        BY <1>1, <1>2
    <2> QED
        BY <1>3, <1>4, <2>1 DEF apply
<1> HIDE DEF e
<1>7. CASE m.kind = "next-turn"
    <2>1. t = "next-turn" /\ q = b.nextTurn
        BY <1>7 DEF inboxTarget, queue
    <2>2. Spliced(b, e) = [b EXCEPT !.nextTurn = Append(b.nextTurn, m)]
        BY <1>2, <1>5, <2>1 DEF Spliced, Box
    <2>3. apply(b, e) = [b EXCEPT !.nextTurn = Append(b.nextTurn, m), !.nextID = m.id]
        BY <1>6, <2>2 DEF Box
    <2> QED
        BY <1>7, <2>3 DEF e, Grown
<1>8. CASE m.kind # "next-turn"
    <2>1. t = "next-step" /\ q = a \o c
        BY <1>8 DEF inboxTarget, queue
    <2>2. /\ OfKinds(a \o c, Kinds \ QuietKinds) = a
          /\ OfKinds(a \o c, QuietKinds) = c
        BY <1>1, SplitLine DEF Sorted
    <2>3. /\ OfKinds(Append(q, m), Kinds \ QuietKinds) = Kept(a, m, Kinds \ QuietKinds)
          /\ OfKinds(Append(q, m), QuietKinds) = Kept(c, m, QuietKinds)
        <3>1. \A kinds : OfKinds(Append(q, m), kinds) = Kept(OfKinds(q, kinds), m, kinds)
            <4> HIDE DEF q
            <4> QED
                BY <1>1, OfKindsAppend, Zenon
        <3> QED
            BY <2>1, <2>2, <3>1, Zenon
    <2>4. Spliced(b, e) = [b EXCEPT !.nextStep = Kept(a, m, Kinds \ QuietKinds), !.quiet = Kept(c, m, QuietKinds)]
        <3>1. e.target # "next-turn" /\ queue(b, e.target) = q
            BY <1>2, <2>1
        <3> HIDE DEF q
        <3> QED
            BY <1>5, <2>3, <3>1 DEF Spliced, Box
    <2>5. m.kind \in Kinds
        BY DEF Message
    <2>6. CASE m.kind = "quiet-injection"
        <3>1. Kept(a, m, Kinds \ QuietKinds) = a /\ Kept(c, m, QuietKinds) = Append(c, m)
            BY <2>6 DEF Kept, QuietKinds
        <3>2. apply(b, e) = [b EXCEPT !.quiet = Append(c, m), !.nextID = m.id]
            <4>1. Spliced(b, e) = [b EXCEPT !.nextStep = a, !.quiet = Append(c, m)]
                BY <2>4, <3>1
            <4> QED
                BY <1>6, <4>1 DEF Box
        <3> QED
            BY <2>6, <3>2 DEF e, Grown
    <2>7. CASE m.kind # "quiet-injection"
        <3>1. Kept(a, m, Kinds \ QuietKinds) = Append(a, m) /\ Kept(c, m, QuietKinds) = c
            BY <2>5, <2>7 DEF Kept, QuietKinds
        <3>2. apply(b, e) = [b EXCEPT !.nextStep = Append(a, m), !.nextID = m.id]
            BY <1>6, <2>4, <3>1 DEF Box
        <3> QED
            BY <1>8, <2>7, <3>2 DEF e, Grown
    <2> QED
        BY <2>6, <2>7
<1> QED
    BY <1>7, <1>8

-----------------------------------------------------------------------------
(* Operations that commit two events.                                      *)

\* The events: A unless the line x is empty, B unless the line y is.
Chosen(x, A, y, B) == (IF x = << >> THEN << >> ELSE <<A>>) \o (IF y = << >> THEN << >> ELSE <<B>>)
\* The journal once all of them are committed.
AfterBoth(x, A, y, B) ==
    IF x = << >> THEN IF y = << >> THEN durable ELSE apply(durable, B)
    ELSE IF y = << >> THEN apply(durable, A) ELSE apply(apply(durable, A), B)

LEMMA TwoEvents ==
    ASSUME NEW A, NEW B, NEW x, NEW y, NEW done \in 0 .. 2, done <= Len(Chosen(x, A, y, B))
    PROVE  \/ /\ done = Len(Chosen(x, A, y, B))
              /\ Committed(Chosen(x, A, y, B), done) = AfterBoth(x, A, y, B)
           \/ done < Len(Chosen(x, A, y, B)) /\ done = 0 /\ Committed(Chosen(x, A, y, B), done) = durable
           \/ /\ done < Len(Chosen(x, A, y, B)) /\ done # 0 /\ x # << >> /\ y # << >>
              /\ Committed(Chosen(x, A, y, B), done) = apply(durable, A)
<1> DEFINE events == Chosen(x, A, y, B)
<1>0. events = (IF x = << >> THEN << >> ELSE <<A>>) \o (IF y = << >> THEN << >> ELSE <<B>>)
    BY DEF Chosen
<1>a. done <= Len(events)
    OBVIOUS
<1> DEFINE Goal == \/ done = Len(events) /\ Committed(events, done) = AfterBoth(x, A, y, B)
                   \/ done < Len(events) /\ done = 0 /\ Committed(events, done) = durable
                   \/ /\ done < Len(events) /\ done # 0 /\ x # << >> /\ y # << >>
                      /\ Committed(events, done) = apply(durable, A)
<1> SUFFICES Goal
    OBVIOUS
<1> HIDE DEF events
<1>1. CASE x = << >> /\ y = << >>
    <2>1. events = << >>
        BY <1>0, <1>1
    <2>2. Len(events) = 0 /\ done = 0
        BY <1>a, <2>1
    <2> QED
        BY <1>1, <2>2 DEF Committed, AfterBoth
<1>2. CASE x = << >> /\ y # << >>
    <2>1. events = <<B>>
        BY <1>0, <1>2
    <2>2. Len(events) = 1 /\ events[1] = B /\ done \in {0, 1}
        <3>1. Len(<<B>>) = 1 /\ <<B>>[1] = B
            OBVIOUS
        <3>2. Len(events) = 1 /\ events[1] = B
            BY <2>1, <3>1
        <3> QED
            BY <1>a, <3>2
    <2> QED
        BY <1>2, <2>2 DEF Committed, AfterBoth
<1>3. CASE x # << >> /\ y = << >>
    <2>1. events = <<A>>
        BY <1>0, <1>3
    <2>2. Len(events) = 1 /\ events[1] = A /\ done \in {0, 1}
        <3>1. Len(<<A>>) = 1 /\ <<A>>[1] = A
            OBVIOUS
        <3>2. Len(events) = 1 /\ events[1] = A
            BY <2>1, <3>1
        <3> QED
            BY <1>a, <3>2
    <2> QED
        BY <1>3, <2>2 DEF Committed, AfterBoth
<1>4. CASE x # << >> /\ y # << >>
    <2>1. events = <<A>> \o <<B>>
        BY <1>0, <1>4
    <2>2. Len(events) = 2 /\ events[1] = A /\ events[2] = B /\ done \in {0, 1, 2}
        <3>1. <<A>> \in Seq({A, B}) /\ <<B>> \in Seq({A, B})
            OBVIOUS
        <3>2. Len(<<A>>) = 1 /\ Len(<<B>>) = 1 /\ <<A>>[1] = A /\ <<B>>[1] = B
            OBVIOUS
        <3>3. /\ Len(<<A>> \o <<B>>) = Len(<<A>>) + Len(<<B>>)
              /\ \A i \in 1 .. Len(<<A>>) + Len(<<B>>) : (<<A>> \o <<B>>)[i] =
                    IF i <= Len(<<A>>) THEN <<A>>[i] ELSE <<B>>[i - Len(<<A>>)]
            BY <3>1, ConcatProperties, Zenon
        <3> QED
            BY <2>1, <3>2, <3>3
    <2> QED
        BY <1>4, <2>2 DEF Committed, AfterBoth
<1> QED
    BY <1>1, <1>2, <1>3, <1>4

\* A commit of one event.
LEMMA OneEvent == \A e : Committed(<<e>>, 1) = apply(durable, e)
BY DEF Committed

\* Clearing and claiming commit events, whatever the queues are.
LEMMA CommittedType ==
    ASSUME NEW A \in Events, NEW B \in Events, NEW x, NEW y, NEW done \in 0 .. 2, durable \in Box,
           done <= Len(Chosen(x, A, y, B))
    PROVE  Committed(Chosen(x, A, y, B), done) \in Box
<1>1. apply(durable, A) \in Box /\ apply(durable, B) \in Box /\ apply(apply(durable, A), B) \in Box
    BY ApplyType
<1>2. AfterBoth(x, A, y, B) \in Box
    BY <1>1 DEF AfterBoth
<1> QED
    BY <1>1, <1>2, TwoEvents

\* The events of ClearWithError and ClaimWithError.
LEMMA EventsAre ==
    ASSUME inbox \in Box
    PROVE  /\ RemoveFrom("next-step", 0, Len(queue(inbox, "next-step"))) \in Events
           /\ RemoveFrom("next-turn", 0, Len(inbox.nextTurn)) \in Events
           /\ RemoveFrom("next-turn", 0, 1) \in Events
           /\ ClearEvents = Chosen(queue(inbox, "next-step"), RemoveFrom("next-step", 0, Len(queue(inbox, "next-step"))),
                                   inbox.nextTurn, RemoveFrom("next-turn", 0, Len(inbox.nextTurn)))
           /\ ClaimEvents = Chosen(queue(inbox, "next-step"), RemoveFrom("next-step", 0, Len(queue(inbox, "next-step"))),
                                   inbox.nextTurn, RemoveFrom("next-turn", 0, 1))
<1>1. Len(queue(inbox, "next-step")) \in Nat /\ Len(inbox.nextTurn) \in Nat
    BY QueueType
<1>2. /\ RemoveFrom("next-step", 0, Len(queue(inbox, "next-step"))) \in Events
      /\ RemoveFrom("next-turn", 0, Len(inbox.nextTurn)) \in Events
      /\ RemoveFrom("next-turn", 0, 1) \in Events
    BY <1>1, RemoveFromType
<1> QED
    BY <1>2, Zenon DEF ClearEvents, ClaimEvents, Chosen

-----------------------------------------------------------------------------
(* Types.                                                                  *)

LEMMA EmptyInboxType == EmptyInbox \in Box
BY BoundsAssumption DEF EmptyInbox, Box

LEMMA MessageType ==
    ASSUME NEW s \in Submissions, NEW n \in 0 .. MaxId, n < MaxId
    PROVE  [id |-> n + 1, kind |-> s[1], key |-> s[2]] \in Message
<1>1. s[1] \in Kinds /\ n + 1 \in 1 .. MaxId
    BY SubmissionsAssumption, BoundsAssumption
<1> QED
    BY <1>1 DEF Message

\* A process crash, and a commit that fails.
LEMMA CrashType == ASSUME TypeOK, Crash, durable' \in Box, issued' \subseteq 1 .. MaxId
                   PROVE  TypeOK'
<1>1. crashes' \in 0 .. MaxCrashes
    BY BoundsAssumption DEF TypeOK, Crash
<1>2. << >> \in Seq(Message)
    OBVIOUS
<1> QED
    BY <1>1, <1>2, EmptyInboxType DEF TypeOK, Crash, DriverStates

LEMMA CommitFaultType ==
    ASSUME TypeOK, NEW done \in 0 .. 2, CommitFault(done), durable' \in Box, inbox' \in Box,
           issued' = issued, driver' \in DriverStates
    PROVE  TypeOK'
<1>1. faults' \in 0 .. MaxFaults /\ torn' \in 0 .. MaxTorn
    BY BoundsAssumption DEF TypeOK, CommitFault
<1> QED
    BY <1>1 DEF TypeOK, CommitFault

LEMMA PutType == ASSUME TypeOK, NEW s \in Submissions, Put(s[1], s[2]) PROVE TypeOK'
<1> DEFINE m == [id |-> inbox.nextID + 1, kind |-> s[1], key |-> s[2]]
           advanced == [inbox EXCEPT !.nextID = m.id]
<1>1. inbox \in Box /\ durable \in Box /\ inbox.nextID \in 0 .. MaxId /\ inbox.nextID < MaxId
    BY DEF TypeOK, Box, Put
<1>2. m \in Message /\ m.id \in 0 .. MaxId /\ m.id \in 1 .. MaxId
    BY <1>1, MessageType, BoundsAssumption
<1> HIDE DEF m
<1>3. advanced \in Box
    BY <1>1, <1>2 DEF Box
<1>4. \/ /\ durable' = Committed(<<Insert(inbox, m)>>, 1)
         /\ issued' = issued \cup {m.id}
         /\ inbox' = CASE s[1] \in {"next-step", "steering"} ->
                           [advanced EXCEPT !.nextStep = Append(@, m)]
                      [] s[1] = "next-turn" -> [advanced EXCEPT !.nextTurn = Append(@, m)]
                      [] OTHER -> [advanced EXCEPT !.quiet = Append(@, m)]
         /\ wake' = (wake \/ Wakes(s[1]))
         /\ UNCHANGED <<closed, driver, inHand, delivered, budget>>
      \/ /\ CommitFault(0)
         /\ inbox' = advanced
         /\ UNCHANGED <<durable, driver, issued>>
    BY DEF Put, m
<1> HIDE DEF advanced
<1>5. CASE inbox' = advanced /\ CommitFault(0) /\ UNCHANGED <<durable, driver, issued>>
    <2>1. 0 \in 0 .. 2
        OBVIOUS
    <2> QED
        BY <1>1, <1>3, <1>5, <2>1, CommitFaultType DEF TypeOK
<1>6. CASE /\ durable' = Committed(<<Insert(inbox, m)>>, 1)
           /\ issued' = issued \cup {m.id}
           /\ inbox' = CASE s[1] \in {"next-step", "steering"} ->
                             [advanced EXCEPT !.nextStep = Append(@, m)]
                        [] s[1] = "next-turn" -> [advanced EXCEPT !.nextTurn = Append(@, m)]
                        [] OTHER -> [advanced EXCEPT !.quiet = Append(@, m)]
           /\ wake' = (wake \/ Wakes(s[1]))
           /\ UNCHANGED <<closed, driver, inHand, delivered, budget>>
    <2>1. durable' \in Box
        BY <1>1, <1>2, <1>6, OneEvent, InsertType, ApplyType
    <2>2. inbox' \in Box
        <3>1. /\ advanced.nextStep \in Seq(Message) /\ advanced.nextTurn \in Seq(Message)
              /\ advanced.quiet \in Seq(Message)
            BY <1>3, QueueType
        <3>2. /\ Append(advanced.nextStep, m) \in Seq(Message) /\ Append(advanced.nextTurn, m) \in Seq(Message)
              /\ Append(advanced.quiet, m) \in Seq(Message)
            BY <1>2, <3>1
        <3>3. CASE s[1] \in {"next-step", "steering"}
            BY <1>3, <1>6, <3>2, <3>3 DEF Box
        <3>4. CASE s[1] = "next-turn"
            BY <1>3, <1>6, <3>2, <3>4 DEF Box
        <3>5. CASE ~ (s[1] \in {"next-step", "steering"}) /\ s[1] # "next-turn"
            BY <1>3, <1>6, <3>2, <3>5 DEF Box
        <3> QED
            BY <3>3, <3>4, <3>5
    <2>3. issued' \subseteq 1 .. MaxId
        BY <1>2, <1>6 DEF TypeOK
    <2>4. wake' \in BOOLEAN
        BY <1>6
    <2> QED
        BY <1>6, <2>1, <2>2, <2>3, <2>4 DEF TypeOK, budget
<1> QED
    BY <1>4, <1>5, <1>6

LEMMA ClearType == ASSUME TypeOK, NEW done \in 0 .. 2, Clear(done) PROVE TypeOK'
<1>1. inbox \in Box /\ durable \in Box
    BY DEF TypeOK
<1>2. durable' \in Box
    <2>1. durable' = Committed(ClearEvents, done) /\ done <= Len(ClearEvents)
        BY DEF Clear
    <2> QED
        BY <1>1, <2>1, EventsAre, CommittedType, Zenon
<1>3. CASE /\ inbox' = [EmptyInbox EXCEPT !.nextID = inbox.nextID]
           /\ UNCHANGED <<closed, wake, driver, inHand, delivered, budget>> /\ issued' = issued
    <2>1. inbox' \in Box
        BY <1>1, <1>3, EmptyInboxType DEF Box
    <2> QED
        BY <1>2, <1>3, <2>1 DEF TypeOK, budget
<1>4. CASE Crash /\ issued' = issued
    BY <1>2, <1>4, CrashType DEF TypeOK
<1>5. CASE CommitFault(done) /\ UNCHANGED <<inbox, driver>> /\ issued' = issued
    BY <1>2, <1>5, CommitFaultType DEF TypeOK
<1> QED
    BY <1>3, <1>4, <1>5 DEF Clear

LEMMA RemoveMessageType ==
    ASSUME TypeOK, NEW field \in {"nextStep", "nextTurn", "quiet"}, NEW n \in 1 .. MaxId,
           RemoveMessage(field, n)
    PROVE  TypeOK'
<1> DEFINE target == IF field = "nextTurn" THEN "next-turn" ELSE "next-step"
           start  == IF field = "quiet" THEN Len(inbox.nextStep) + n - 1 ELSE n - 1
<1>1. inbox \in Box /\ durable \in Box /\ n \in DOMAIN inbox[field]
    BY DEF TypeOK, RemoveMessage
<1>2. inbox[field] \in Seq(Message) /\ Len(inbox.nextStep) \in Nat
    BY <1>1, QueueType DEF Box
<1>3. target \in {"next-step", "next-turn"} /\ start \in Nat /\ 1 \in Nat
    BY <1>2, BoundsAssumption
<1>4. RemoveFrom(target, start, 1) \in Events
    <2> HIDE DEF target, start
    <2> QED
        BY <1>3, RemoveFromType
<1>5. issued' = issued
      /\ \/ /\ durable' = Committed(<<RemoveFrom(target, start, 1)>>, 1)
            /\ inbox' = [inbox EXCEPT ![field] = RemoveAt(@, n)]
            /\ UNCHANGED <<closed, wake, driver, inHand, delivered, budget>>
         \/ /\ CommitFault(0)
            /\ UNCHANGED <<inbox, durable, driver>>
    BY DEF RemoveMessage
<1> HIDE DEF target, start
<1>6. CASE CommitFault(0) /\ UNCHANGED <<inbox, durable, driver>>
    <2>1. 0 \in 0 .. 2
        OBVIOUS
    <2> QED
        BY <1>1, <1>5, <1>6, <2>1, CommitFaultType DEF TypeOK
<1>7. CASE /\ durable' = Committed(<<RemoveFrom(target, start, 1)>>, 1)
           /\ inbox' = [inbox EXCEPT ![field] = RemoveAt(@, n)]
           /\ UNCHANGED <<closed, wake, driver, inHand, delivered, budget>>
    <2>1. durable' \in Box
        BY <1>1, <1>4, <1>7, OneEvent, ApplyType
    <2>2. RemoveAt(inbox[field], n) \in Seq(Message)
        BY <1>1, <1>2, RemovedOne
    <2>3. inbox' \in Box
        BY <1>1, <1>7, <2>2 DEF Box
    <2> QED
        BY <1>5, <1>7, <2>1, <2>3 DEF TypeOK, budget
<1> QED
    BY <1>5, <1>6, <1>7

\* What a claim takes.
LEMMA FollowupType ==
    ASSUME inbox \in Box
    PROVE  /\ NextFollowup \in Seq(Message)
           /\ SubSeq(inbox.nextTurn, 2, Len(inbox.nextTurn)) \in Seq(Message)
           /\ inbox.nextStep \o NextFollowup \o inbox.quiet \in Seq(Message)
<1>1. inbox.nextStep \in Seq(Message) /\ inbox.nextTurn \in Seq(Message) /\ inbox.quiet \in Seq(Message)
    BY QueueType
<1>2. SubSeq(inbox.nextTurn, 2, Len(inbox.nextTurn)) \in Seq(Message)
    <2>1. 2 \in Int /\ Len(inbox.nextTurn) \in Int
          /\ \A i \in 2 .. Len(inbox.nextTurn) : inbox.nextTurn[i] \in Message
        BY <1>1
    <2> QED
        BY <2>1, SubSeqProperties
<1>3. NextFollowup \in Seq(Message)
    <2>1. CASE inbox.nextTurn = << >>
        BY <2>1 DEF NextFollowup
    <2>2. CASE inbox.nextTurn # << >>
        <3>1. Head(inbox.nextTurn) \in Message
            BY <1>1, <2>2
        <3> QED
            BY <2>2, <3>1 DEF NextFollowup
    <2> QED
        BY <2>1, <2>2
<1>4. inbox.nextStep \o NextFollowup \o inbox.quiet \in Seq(Message)
    BY <1>1, <1>3, ConcatProperties
<1> QED
    BY <1>2, <1>3, <1>4

LEMMA ClaimType == ASSUME TypeOK, NEW done \in 0 .. 2, Claim(done) PROVE TypeOK'
<1>1. inbox \in Box /\ durable \in Box
    BY DEF TypeOK
<1>2. durable' \in Box
    <2>1. durable' = Committed(ClaimEvents, done) /\ done <= Len(ClaimEvents)
        BY DEF Claim
    <2> QED
        BY <1>1, <2>1, EventsAre, CommittedType, Zenon
<1>3. CASE /\ driver' = "claimed"
           /\ inHand' = inbox.nextStep \o NextFollowup \o inbox.quiet
           /\ inbox' = [inbox EXCEPT !.nextStep = << >>, !.quiet = << >>,
                                     !.nextTurn = SubSeq(@, 2, Len(@))]
           /\ UNCHANGED <<closed, wake, delivered, budget>> /\ issued' = issued
    <2>0. << >> \in Seq(Message)
        OBVIOUS
    <2>1. inbox' \in Box
        BY <1>1, <1>3, <2>0, FollowupType DEF Box
    <2>2. inHand' \in Seq(Message)
        BY <1>1, <1>3, FollowupType
    <2> QED
        BY <1>2, <1>3, <2>1, <2>2 DEF TypeOK, budget, DriverStates
<1>4. CASE Crash /\ issued' = issued
    BY <1>2, <1>4, CrashType DEF TypeOK
<1>5. CASE CommitFault(done) /\ driver' = "exited" /\ UNCHANGED inbox /\ issued' = issued
    BY <1>1, <1>2, <1>5, CommitFaultType DEF DriverStates
<1> QED
    BY <1>3, <1>4, <1>5 DEF Claim

\* The identifiers of messages.
LEMMA IdsOfType == ASSUME NEW s \in Seq(Message) PROVE IdsOf(s) \subseteq 1 .. MaxId
<1>1. \A n \in DOMAIN s : s[n] \in Message
    OBVIOUS
<1> QED
    BY <1>1 DEF IdsOf, Message

LEMMA ClaimStepType == ASSUME TypeOK, ClaimStep PROVE TypeOK'
<1> DEFINE line == queue(inbox, "next-step")
<1>1. inbox \in Box /\ durable \in Box /\ line \in Seq(Message) /\ Len(line) \in Nat
    BY QueueType DEF TypeOK
<1>2. issued' = issued
      /\ \/ /\ durable' = Committed(<<RemoveFrom("next-step", 0, Len(line))>>, 1)
            /\ inbox' = [inbox EXCEPT !.nextStep = << >>, !.quiet = << >>]
            /\ delivered' = delivered \cup IdsOf(line)
            /\ UNCHANGED <<closed, wake, driver, inHand, budget>>
         \/ /\ CommitFault(0)
            /\ UNCHANGED <<inbox, durable, driver>>
    BY DEF ClaimStep
<1> HIDE DEF line
<1>3. CASE CommitFault(0) /\ UNCHANGED <<inbox, durable, driver>>
    <2>1. 0 \in 0 .. 2
        OBVIOUS
    <2> QED
        BY <1>1, <1>2, <1>3, <2>1, CommitFaultType DEF TypeOK
<1>4. CASE /\ durable' = Committed(<<RemoveFrom("next-step", 0, Len(line))>>, 1)
           /\ inbox' = [inbox EXCEPT !.nextStep = << >>, !.quiet = << >>]
           /\ delivered' = delivered \cup IdsOf(line)
           /\ UNCHANGED <<closed, wake, driver, inHand, budget>>
    <2>1. RemoveFrom("next-step", 0, Len(line)) \in Events
        BY <1>1, RemoveFromType
    <2>2. durable' \in Box
        BY <1>1, <1>4, <2>1, OneEvent, ApplyType
    <2>0. << >> \in Seq(Message)
        OBVIOUS
    <2>3. inbox' \in Box
        BY <1>1, <1>4, <2>0 DEF Box
    <2>4. delivered' \subseteq 1 .. MaxId
        BY <1>1, <1>4, IdsOfType DEF TypeOK
    <2> QED
        BY <1>2, <1>4, <2>2, <2>3, <2>4 DEF TypeOK, budget
<1> QED
    BY <1>2, <1>3, <1>4

LEMMA StepType == TypeOK /\ [Next]_vars => TypeOK'
<1> SUFFICES ASSUME TypeOK, [Next]_vars PROVE TypeOK'
    OBVIOUS
<1>1. CASE \E s \in Submissions : Put(s[1], s[2])
    BY <1>1, PutType
<1>2. CASE \E done \in 0 .. 2 : Clear(done)
    BY <1>2, ClearType
<1>3. CASE \E field \in {"nextStep", "nextTurn", "quiet"}, n \in 1 .. MaxId : RemoveMessage(field, n)
    BY <1>3, RemoveMessageType
<1>4. CASE Close
    BY <1>4 DEF Close, TypeOK, budget
<1>5. CASE ClaimTurn
    BY <1>5, ClaimType DEF ClaimTurn
<1>6. CASE ClaimStep
    BY <1>6, ClaimStepType
<1>7. CASE ClaimNothing
    BY <1>7 DEF ClaimNothing, TypeOK, budget, DriverStates
<1>8. CASE Wait
    BY <1>8 DEF Wait, TypeOK, budget, DriverStates
<1>9. CASE StartTurn
    <2>1. delivered' \subseteq 1 .. MaxId /\ inHand' \in Seq(Message) /\ driver' \in DriverStates
        <3>1. << >> \in Seq(Message) /\ inHand \in Seq(Message)
            BY DEF TypeOK
        <3>2. IdsOf(inHand) \subseteq 1 .. MaxId
            BY <3>1, IdsOfType
        <3> QED
            BY <1>9, <3>1, <3>2 DEF StartTurn, TypeOK, DriverStates
    <2> QED
        BY <1>9, <2>1 DEF StartTurn, TypeOK, budget
<1>10. CASE EndTurn
    BY <1>10 DEF EndTurn, TypeOK, budget, DriverStates
<1>11. CASE CrashIdle
    BY <1>11, CrashType DEF CrashIdle, TypeOK
<1>12. CASE Restart
    BY <1>12 DEF Restart, TypeOK, budget, DriverStates
<1>13. CASE Reopen
    BY <1>13 DEF Reopen, TypeOK, budget, DriverStates
<1>14. CASE UNCHANGED vars
    BY <1>14 DEF vars, TypeOK
<1> QED
    BY <1>1, <1>2, <1>3, <1>4, <1>5, <1>6, <1>7, <1>8, <1>9, <1>10, <1>11, <1>12, <1>13, <1>14
       DEF Next, DriverStep

\* Every variable keeps its type and the bounds are respected, torn operations
\* included: whatever was committed, what apply makes of it are queues.
THEOREM TypeCorrect == Spec => []TypeOK
<1>1. Init => TypeOK
    <2>1. << >> \in Seq(Message)
        OBVIOUS
    <2> QED
        <3>1. 0 \in 0 .. MaxCrashes /\ 0 \in 0 .. MaxFaults /\ 0 \in 0 .. MaxTorn
            BY BoundsAssumption
        <3> QED
            BY <2>1, <3>1, EmptyInboxType DEF Init, TypeOK, DriverStates
<1> QED
    BY <1>1, StepType, PTL DEF Spec

-----------------------------------------------------------------------------
(* Lines that lose messages.                                               *)

\* t is what is left of the line s.
Thins(t, s) ==
    /\ \A k \in DOMAIN t : \E j \in DOMAIN s : t[k] = s[j]
    /\ Distinct(s) => Distinct(t)

LEMMA ThinSame == \A s : Thins(s, s)
BY DEF Thins

LEMMA ThinEmpty == \A s : Thins(<< >>, s)
BY DEF Thins, Distinct

LEMMA ThinRemoved == ASSUME NEW s \in Seq(Message), NEW n \in DOMAIN s PROVE Thins(RemoveAt(s, n), s)
<1> DEFINE t == RemoveAt(s, n)
           at(k) == IF k < n THEN k ELSE k + 1
<1>1. /\ t \in Seq(Message) /\ Len(t) = Len(s) - 1 /\ n \in 1 .. Len(s) /\ Len(s) \in Nat
      /\ \A k \in 1 .. Len(s) - 1 : t[k] = s[at(k)]
    BY RemovedOne
<1> HIDE DEF t
<1>2. DOMAIN t = 1 .. Len(s) - 1 /\ DOMAIN s = 1 .. Len(s)
    BY <1>1
<1>3. \A k \in 1 .. Len(s) - 1 : at(k) \in 1 .. Len(s)
    BY <1>1
<1>4. \A j, k \in 1 .. Len(s) - 1 : at(j) = at(k) => j = k
    BY <1>1
<1> HIDE DEF at
<1>5. \A k \in DOMAIN t : at(k) \in DOMAIN s /\ t[k] = s[at(k)]
    BY <1>1, <1>2, <1>3
<1>6. ASSUME Distinct(s), NEW j \in DOMAIN t, NEW k \in DOMAIN t, t[j].id = t[k].id PROVE j = k
    <2>1. at(j) = at(k)
        BY <1>5, <1>6 DEF Distinct
    <2> QED
        BY <1>2, <1>4, <2>1
<1>7. Thins(t, s)
    BY <1>5, <1>6 DEF Thins, Distinct
<1> QED
    BY <1>7 DEF t

\* The follow-ups after the first, which is none of them.
LEMMA ThinRest ==
    ASSUME NEW s \in Seq(Message)
    PROVE  /\ SubSeq(s, 2, Len(s)) \in Seq(Message)
           /\ Thins(SubSeq(s, 2, Len(s)), s)
           /\ s # << >> =>
                /\ IdsOf(s) = {Head(s).id} \cup IdsOf(SubSeq(s, 2, Len(s)))
                /\ Distinct(s) => Head(s).id \notin IdsOf(SubSeq(s, 2, Len(s)))
<1> DEFINE t == SubSeq(s, 2, Len(s))
<1>1. Len(s) \in Nat /\ DOMAIN s = 1 .. Len(s) /\ \A i \in 2 .. Len(s) : s[i] \in Message
    OBVIOUS
<1>2. /\ t \in Seq(Message) /\ Len(t) = (IF 2 <= Len(s) THEN Len(s) - 2 + 1 ELSE 0)
      /\ \A k \in 1 .. Len(s) - 2 + 1 : t[k] = s[2 + k - 1]
    BY <1>1, SubSeqProperties
<1> HIDE DEF t
<1>3. DOMAIN t = 1 .. Len(t)
    BY <1>2
<1>4. ASSUME NEW k \in DOMAIN t PROVE k + 1 \in 2 .. Len(s) /\ t[k] = s[k + 1]
    <2> DEFINE n == Len(s)
    <2>1. n \in Nat /\ k \in 1 .. (IF 2 <= n THEN n - 2 + 1 ELSE 0)
        BY <1>1, <1>2, <1>3
    <2>2. t[k] = s[2 + k - 1] \/ ~ (k \in 1 .. n - 2 + 1)
        BY <1>2
    <2> HIDE DEF n
    <2>3. k + 1 \in 2 .. n /\ k \in 1 .. n - 2 + 1 /\ 2 + k - 1 = k + 1
        BY <2>1
    <2> QED
        BY <2>2, <2>3 DEF n
<1>5. ASSUME NEW j \in 2 .. Len(s) PROVE j - 1 \in DOMAIN t /\ (j - 1) + 1 = j
    <2> DEFINE n == Len(s)
               l == Len(t)
    <2>1. n \in Nat /\ l = (IF 2 <= n THEN n - 2 + 1 ELSE 0) /\ j \in 2 .. n
        BY <1>1, <1>2
    <2> HIDE DEF n, l
    <2>2. j - 1 \in 1 .. l /\ (j - 1) + 1 = j
        BY <2>1
    <2> QED
        BY <1>3, <2>2 DEF l
<1>6. Thins(t, s)
    <2>1. \A k \in DOMAIN t : k + 1 \in DOMAIN s
        BY <1>1, <1>4
    <2>2. \A j, k \in DOMAIN t : j + 1 = k + 1 => j = k
        BY <1>3, <1>2
    <2> QED
        BY <1>4, <2>1, <2>2 DEF Thins, Distinct
<1>7. ASSUME s # << >>
      PROVE  /\ IdsOf(s) = {Head(s).id} \cup IdsOf(t)
             /\ Distinct(s) => Head(s).id \notin IdsOf(t)
    <2>1. 1 \in DOMAIN s /\ Head(s) = s[1]
        BY <1>1, <1>7
    <2>2. \A j \in DOMAIN s : j = 1 \/ j \in 2 .. Len(s)
        BY <1>1
    <2>3. \A k \in DOMAIN t : k + 1 \in DOMAIN s /\ k + 1 # 1
        BY <1>1, <1>4
    <2>4. \A j \in DOMAIN s : j = 1 \/ (j - 1 \in DOMAIN t /\ s[j] = t[j - 1])
        BY <1>4, <1>5, <2>2
    <2>5. IdsOf(s) \subseteq {Head(s).id} \cup IdsOf(t)
        BY <2>1, <2>4 DEF IdsOf
    <2>6. {Head(s).id} \cup IdsOf(t) \subseteq IdsOf(s)
        BY <1>4, <2>1, <2>3 DEF IdsOf
    <2>7. Distinct(s) => Head(s).id \notin IdsOf(t)
        BY <1>4, <2>1, <2>3 DEF Distinct, IdsOf
    <2> QED
        BY <2>5, <2>6, <2>7
<1> QED
    BY <1>2, <1>6, <1>7 DEF t

LEMMA ThinIds == ASSUME NEW s, NEW t, Thins(t, s) PROVE IdsOf(t) \subseteq IdsOf(s)
BY DEF Thins, IdsOf

\* The journal loses messages and nothing else.
Shrinks(d, b) ==
    /\ d.ok = b.ok /\ d.nextID = b.nextID
    /\ Thins(d.nextStep, b.nextStep) /\ Thins(d.nextTurn, b.nextTurn) /\ Thins(d.quiet, b.quiet)

LEMMA ShrinksIds ==
    ASSUME NEW b \in Box, NEW d \in Box, Shrinks(d, b)
    PROVE  /\ IdsOf(d.nextStep) \subseteq IdsOf(b.nextStep) /\ IdsOf(d.nextTurn) \subseteq IdsOf(b.nextTurn)
           /\ IdsOf(d.quiet) \subseteq IdsOf(b.quiet)
           /\ IdsOf(Pending(d)) \subseteq IdsOf(Pending(b))
<1>1. /\ IdsOf(d.nextStep) \subseteq IdsOf(b.nextStep) /\ IdsOf(d.nextTurn) \subseteq IdsOf(b.nextTurn)
      /\ IdsOf(d.quiet) \subseteq IdsOf(b.quiet)
    BY ThinIds DEF Shrinks
<1> QED
    BY <1>1, IdsOfPending

\* What is left keeps the kinds and the follow-ups apart.
LEMMA ShrinksKeep ==
    ASSUME durable \in Box, durable' \in Box, Shrinks(durable', durable),
           RestartPossible, Sorted(durable), FollowupInv
    PROVE  RestartPossible' /\ Sorted(durable)' /\ FollowupInv'
<1>1. RestartPossible'
    BY DEF RestartPossible, Shrinks
<1>2. Sorted(durable)'
    BY DEF Sorted, Shrinks, Thins
<1>3. FollowupInv'
    <2>1. Distinct(durable.nextTurn)'
        BY DEF FollowupInv, Shrinks, Thins
    <2>2. /\ IdsOf(durable'.nextStep) \subseteq IdsOf(durable.nextStep)
          /\ IdsOf(durable'.nextTurn) \subseteq IdsOf(durable.nextTurn)
          /\ IdsOf(durable'.quiet) \subseteq IdsOf(durable.quiet)
        BY ShrinksIds
    <2> QED
        BY <2>1, <2>2 DEF FollowupInv
<1> QED
    BY <1>1, <1>2, <1>3

-----------------------------------------------------------------------------
(* What the commits of an operation make of the journal.                   *)

NoSteps(b) == [b EXCEPT !.nextStep = << >>, !.quiet = << >>]

LEMMA NoStepsFacts ==
    ASSUME NEW b \in Box
    PROVE  /\ NoSteps(b) \in Box /\ Shrinks(NoSteps(b), b)
           /\ NoSteps(b).nextTurn = b.nextTurn /\ NoSteps(b).ok = b.ok
           /\ queue(b, "next-step") = << >> => NoSteps(b) = b
<1>1. << >> \in Seq(Message)
    OBVIOUS
<1>2. NoSteps(b) \in Box
    BY <1>1 DEF NoSteps, Box
<1>3. /\ NoSteps(b).nextTurn = b.nextTurn /\ NoSteps(b).ok = b.ok /\ NoSteps(b).nextID = b.nextID
      /\ NoSteps(b).nextStep = << >> /\ NoSteps(b).quiet = << >>
    BY DEF NoSteps, Box
<1>4. Shrinks(NoSteps(b), b)
    BY <1>3, ThinSame, ThinEmpty DEF Shrinks
<1>5. ASSUME queue(b, "next-step") = << >> PROVE NoSteps(b) = b
    <2>1. b.nextStep \in Seq(Message) /\ b.quiet \in Seq(Message) /\ b.nextStep \o b.quiet = << >>
        BY <1>5, QueueType DEF queue
    <2>2. b.nextStep = << >> /\ b.quiet = << >>
        BY <2>1, ConcatEqualIffEmpty
    <2> QED
        BY <2>2 DEF NoSteps, Box
<1> QED
    BY <1>2, <1>3, <1>4, <1>5

\* The live queues are the durable ones, so the events fit the journal.
LEMMA SameQueues ==
    ASSUME SyncInv, Up
    PROVE  /\ queue(inbox, "next-step") = queue(durable, "next-step")
           /\ inbox.nextStep = durable.nextStep /\ inbox.nextTurn = durable.nextTurn
           /\ inbox.quiet = durable.quiet
BY DEF SyncInv, queue

LEMMA ClearCommits ==
    ASSUME TypeOK, SyncInv, Up, RestartPossible, NEW done \in 0 .. 2, done <= Len(ClearEvents)
    PROVE  \/ /\ done = Len(ClearEvents)
              /\ Committed(ClearEvents, done) = [NoSteps(durable) EXCEPT !.nextTurn = << >>]
           \/ done < Len(ClearEvents) /\ done = 0 /\ Committed(ClearEvents, done) = durable
           \/ done < Len(ClearEvents) /\ done # 0 /\ Committed(ClearEvents, done) = NoSteps(durable)
<1> DEFINE x == queue(durable, "next-step")
           y == durable.nextTurn
           A == RemoveFrom("next-step", 0, Len(x))
           B == RemoveFrom("next-turn", 0, Len(y))
           z == [NoSteps(durable) EXCEPT !.nextTurn = << >>]
<1>1. durable \in Box /\ durable.ok /\ inbox \in Box
    BY DEF TypeOK, RestartPossible
<1>2. ClearEvents = Chosen(x, A, y, B)
    BY <1>1, SameQueues, EventsAre
<1>3. apply(durable, A) = NoSteps(durable)
    BY <1>1, ApplyEmptyStep DEF NoSteps
<1>4. apply(durable, B) = [durable EXCEPT !.nextTurn = << >>]
    BY <1>1, ApplyEmptyTurn
<1>5. /\ NoSteps(durable) \in Box /\ NoSteps(durable).ok /\ NoSteps(durable).nextTurn = y
      /\ x = << >> => NoSteps(durable) = durable
    BY <1>1, NoStepsFacts
<1>6. apply(NoSteps(durable), B) = z
    BY <1>5, ApplyEmptyTurn
<1>7. y = << >> => z = NoSteps(durable)
    BY <1>5 DEF Box
<1>8. AfterBoth(x, A, y, B) = z
    <2> HIDE DEF x, y, A, B, z
    <2>1. x = << >> => apply(durable, B) = z
        BY <1>5, <1>6
    <2> QED
        BY <1>3, <1>5, <1>6, <1>7, <2>1 DEF AfterBoth
<1> HIDE DEF x, y, A, B, z
<1>9. done <= Len(Chosen(x, A, y, B))
    BY <1>2
<1>10. \/ done = Len(Chosen(x, A, y, B)) /\ Committed(Chosen(x, A, y, B), done) = z
       \/ done < Len(Chosen(x, A, y, B)) /\ done = 0 /\ Committed(Chosen(x, A, y, B), done) = durable
       \/ /\ done < Len(Chosen(x, A, y, B)) /\ done # 0
          /\ Committed(Chosen(x, A, y, B), done) = NoSteps(durable)
    BY <1>3, <1>8, <1>9, TwoEvents
<1> QED
    BY <1>2, <1>10 DEF z

LEMMA ClaimCommits ==
    ASSUME TypeOK, SyncInv, Up, RestartPossible, NEW done \in 0 .. 2, done <= Len(ClaimEvents)
    PROVE  \/ /\ done = Len(ClaimEvents)
              /\ Committed(ClaimEvents, done) =
                   [NoSteps(durable) EXCEPT !.nextTurn = SubSeq(durable.nextTurn, 2, Len(durable.nextTurn))]
           \/ done < Len(ClaimEvents) /\ done = 0 /\ Committed(ClaimEvents, done) = durable
           \/ done < Len(ClaimEvents) /\ done # 0 /\ Committed(ClaimEvents, done) = NoSteps(durable)
<1> DEFINE x == queue(durable, "next-step")
           y == durable.nextTurn
           A == RemoveFrom("next-step", 0, Len(x))
           B == RemoveFrom("next-turn", 0, 1)
           rest == SubSeq(y, 2, Len(y))
           z == [NoSteps(durable) EXCEPT !.nextTurn = rest]
<1>1. durable \in Box /\ durable.ok /\ inbox \in Box
    BY DEF TypeOK, RestartPossible
<1>2. ClaimEvents = Chosen(x, A, y, B)
    BY <1>1, SameQueues, EventsAre
<1>3. apply(durable, A) = NoSteps(durable)
    BY <1>1, ApplyEmptyStep DEF NoSteps
<1>5. /\ NoSteps(durable) \in Box /\ NoSteps(durable).ok /\ NoSteps(durable).nextTurn = y
      /\ x = << >> => NoSteps(durable) = durable
    BY <1>1, NoStepsFacts
<1>6. y # << >> => apply(NoSteps(durable), B) = z
    BY <1>5, ApplyClaimTurn
<1>7. y = << >> => z = NoSteps(durable)
    <2>1. SubSeq(<< >>, 2, Len(<< >>)) = << >>
        OBVIOUS
    <2> QED
        BY <1>5, <2>1 DEF Box
<1>8. AfterBoth(x, A, y, B) = z
    <2> HIDE DEF x, y, A, B, z
    <2>1. x = << >> /\ y # << >> => apply(durable, B) = z
        BY <1>5, <1>6
    <2> QED
        BY <1>3, <1>5, <1>6, <1>7, <2>1 DEF AfterBoth
<1> HIDE DEF x, y, A, B, z
<1>9. done <= Len(Chosen(x, A, y, B))
    BY <1>2
<1>10. \/ done = Len(Chosen(x, A, y, B)) /\ Committed(Chosen(x, A, y, B), done) = z
       \/ done < Len(Chosen(x, A, y, B)) /\ done = 0 /\ Committed(Chosen(x, A, y, B), done) = durable
       \/ /\ done < Len(Chosen(x, A, y, B)) /\ done # 0
          /\ Committed(Chosen(x, A, y, B), done) = NoSteps(durable)
    BY <1>3, <1>8, <1>9, TwoEvents
<1> QED
    BY <1>2, <1>10 DEF z, y

-----------------------------------------------------------------------------
(* The invariant, and what a step does to the messages.                    *)

\* The messages that still have to be delivered or dropped.
Held == IdsOf(Pending(durable)) \cup IdsOf(inHand)

\* A step that takes messages out, delivering or dropping all it takes.
Takes ==
    /\ Held' \subseteq Held /\ issued' = issued
    /\ delivered' = delivered \/ delivered' = delivered \cup (Held \ Held')

\* A step that submits one message, numbered beyond all the others.
Sends ==
    \E n \in 1 .. MaxId :
        /\ \A k \in issued : k < n
        /\ Held' = Held \cup {n} /\ issued' = issued \cup {n} /\ delivered' = delivered

\* Steps that only lose messages.
LEMMA Losing ==
    ASSUME TypeOK, TypeOK', IInv, Shrinks(durable', durable), SyncInv', issued' = issued,
           delivered' = delivered, IdsOf(inHand)' \subseteq IdsOf(inHand)
    PROVE  IInv' /\ Takes
<1>1. durable \in Box /\ durable' \in Box
    BY DEF TypeOK
<1>2. RestartPossible' /\ Sorted(durable)' /\ FollowupInv'
    BY <1>1, ShrinksKeep DEF IInv
<1>3. IdsOf(Pending(durable))' \subseteq IdsOf(Pending(durable)) /\ durable'.nextID = durable.nextID
    BY <1>1, ShrinksIds DEF Shrinks
<1>4. PlaceInv'
    BY <1>3 DEF IInv, PlaceInv
<1>5. Takes
    BY <1>3 DEF Takes, Held
<1> QED
    BY <1>2, <1>4, <1>5 DEF IInv

LEMMA ShrinksSame == Shrinks(durable, durable)
BY ThinSame DEF Shrinks

\* A process crash after a prefix of the commits.
LEMMA CrashStep ==
    ASSUME TypeOK, TypeOK', IInv, Crash, issued' = issued,
           durable' = durable \/ durable' = NoSteps(durable)
    PROVE  IInv' /\ Takes
<1>1. Shrinks(durable', durable)
    BY ShrinksSame, NoStepsFacts DEF TypeOK
<1>2. SyncInv' /\ delivered' = delivered
    BY DEF Crash, SyncInv, Up
<1>3. IdsOf(inHand)' = {}
    BY NoIds DEF Crash
<1> QED
    BY <1>1, <1>2, <1>3, Losing

\* A commit that fails before anything is committed.
LEMMA FaultStep ==
    ASSUME TypeOK, TypeOK', IInv, NEW done \in 0 .. 2, CommitFault(done), torn = 0, torn' = 0,
           issued' = issued, done = 0 => durable' = durable, Up,
           inbox' = inbox \/ inbox' = [inbox EXCEPT !.nextID = inbox.nextID + 1]
    PROVE  IInv' /\ Takes
<1>1. done = 0 /\ durable' = durable
    BY DEF CommitFault
<1>2. Shrinks(durable', durable)
    BY <1>1, ShrinksSame
<1>3. SyncInv'
    <2>1. /\ inbox'.nextStep = inbox.nextStep /\ inbox'.nextTurn = inbox.nextTurn
          /\ inbox'.quiet = inbox.quiet
          /\ inbox'.nextID \in {inbox.nextID, inbox.nextID + 1}
        BY DEF TypeOK, Box
    <2>2. inbox.nextID \in Nat /\ durable.nextID \in Nat
        BY BoundsAssumption DEF TypeOK, Box
    <2> QED
        BY <1>1, <2>1, <2>2 DEF IInv, SyncInv
<1>4. delivered' = delivered /\ inHand' = inHand
    BY DEF CommitFault
<1> QED
    BY <1>2, <1>3, <1>4, Losing

\* Steps that leave the journal and the history alone.
LEMMA QuietStep ==
    ASSUME TypeOK, TypeOK', IInv, UNCHANGED <<durable, delivered, issued>>, SyncInv',
           inHand' = inHand \/ inHand' = << >>
    PROVE  IInv' /\ Takes
<1>1. IdsOf(inHand)' \subseteq IdsOf(inHand)
    BY NoIds
<1> QED
    BY <1>1, ShrinksSame, Losing

LEMMA ClearGood ==
    ASSUME TypeOK, TypeOK', IInv, torn = 0, torn' = 0, NEW done \in 0 .. 2, Clear(done)
    PROVE  IInv' /\ Takes
<1>1. Up /\ done <= Len(ClearEvents) /\ durable' = Committed(ClearEvents, done) /\ issued' = issued
    BY DEF Clear
<1>2. \/ done = Len(ClearEvents) /\ durable' = [NoSteps(durable) EXCEPT !.nextTurn = << >>]
      \/ done < Len(ClearEvents) /\ done = 0 /\ durable' = durable
      \/ done < Len(ClearEvents) /\ done # 0 /\ durable' = NoSteps(durable)
    BY <1>1, ClearCommits DEF IInv
<1>3. Len(ClearEvents) \in Nat
    BY EventsAre DEF ClearEvents
<1>4. CASE done = Len(ClearEvents) /\ inbox' = [EmptyInbox EXCEPT !.nextID = inbox.nextID]
           /\ UNCHANGED <<closed, wake, driver, inHand, delivered, budget>>
    <2>1. durable' = [NoSteps(durable) EXCEPT !.nextTurn = << >>]
        BY <1>2, <1>3, <1>4
    <2>2. /\ durable'.nextStep = << >> /\ durable'.nextTurn = << >> /\ durable'.quiet = << >>
          /\ durable'.ok = durable.ok /\ durable'.nextID = durable.nextID
        BY <2>1 DEF NoSteps, TypeOK, Box
    <2>3. Shrinks(durable', durable)
        BY <2>2, ThinEmpty DEF Shrinks
    <2>4. /\ inbox'.nextStep = << >> /\ inbox'.nextTurn = << >> /\ inbox'.quiet = << >>
          /\ inbox'.nextID = inbox.nextID
        BY <1>4 DEF EmptyInbox
    <2>5. SyncInv'
        BY <1>1, <2>2, <2>4 DEF IInv, SyncInv
    <2> QED
        BY <1>1, <1>4, <2>3, <2>5, Losing
<1>5. CASE done < Len(ClearEvents) /\ Crash
    <2>1. durable' = durable \/ durable' = NoSteps(durable)
        BY <1>2, <1>3, <1>5
    <2> QED
        BY <1>1, <1>5, <2>1, CrashStep
<1>6. CASE done < Len(ClearEvents) /\ CommitFault(done) /\ UNCHANGED <<inbox, driver>>
    <2>1. done = 0 => durable' = durable
        BY <1>2, <1>3, <1>6
    <2> QED
        BY <1>1, <1>6, <2>1, FaultStep
<1> QED
    BY <1>4, <1>5, <1>6 DEF Clear

LEMMA RemoveMessageGood ==
    ASSUME TypeOK, TypeOK', IInv, torn = 0, torn' = 0, NEW field \in {"nextStep", "nextTurn", "quiet"},
           NEW n \in 1 .. MaxId, RemoveMessage(field, n)
    PROVE  IInv' /\ Takes
<1> DEFINE target == IF field = "nextTurn" THEN "next-turn" ELSE "next-step"
           start  == IF field = "quiet" THEN Len(inbox.nextStep) + n - 1 ELSE n - 1
<1>1. /\ durable \in Box /\ inbox \in Box /\ durable.ok /\ Sorted(durable) /\ Up /\ issued' = issued
      /\ n \in DOMAIN inbox[field] /\ inbox.nextStep = durable.nextStep
      /\ inbox.nextTurn = durable.nextTurn /\ inbox.quiet = durable.quiet
    BY SameQueues DEF TypeOK, IInv, RestartPossible, RemoveMessage
<1>2. inbox[field] = durable[field] /\ n \in DOMAIN durable[field] /\ durable[field] \in Seq(Message)
    BY <1>1 DEF Box
<1>3. \/ /\ durable' = Committed(<<RemoveFrom(target, start, 1)>>, 1)
         /\ inbox' = [inbox EXCEPT ![field] = RemoveAt(@, n)]
         /\ UNCHANGED <<closed, wake, driver, inHand, delivered, budget>>
      \/ /\ CommitFault(0)
         /\ UNCHANGED <<inbox, durable, driver>>
    BY DEF RemoveMessage
<1>4. apply(durable, RemoveFrom(target, start, 1)) = [durable EXCEPT ![field] = RemoveAt(durable[field], n)]
    <2>1. CASE field = "nextStep"
        BY <1>1, <1>2, <2>1, ApplyRemoveStep
    <2>2. CASE field = "nextTurn"
        BY <1>1, <1>2, <2>2, ApplyRemoveTurn
    <2>3. CASE field = "quiet"
        BY <1>1, <1>2, <2>3, ApplyRemoveQuiet
    <2> QED
        BY <2>1, <2>2, <2>3
<1> HIDE DEF target, start
<1>5. CASE CommitFault(0) /\ UNCHANGED <<inbox, durable, driver>>
    <2>1. 0 \in 0 .. 2
        OBVIOUS
    <2> QED
        BY <1>1, <1>5, <2>1, FaultStep
<1>6. CASE /\ durable' = Committed(<<RemoveFrom(target, start, 1)>>, 1)
           /\ inbox' = [inbox EXCEPT ![field] = RemoveAt(@, n)]
           /\ UNCHANGED <<closed, wake, driver, inHand, delivered, budget>>
    <2>1. durable' = [durable EXCEPT ![field] = RemoveAt(durable[field], n)]
        BY <1>4, <1>6, OneEvent
    <2>2. Thins(RemoveAt(durable[field], n), durable[field])
        BY <1>2, ThinRemoved
    <2>3. /\ durable'.ok = durable.ok /\ durable'.nextID = durable.nextID
          /\ inbox'.nextID = inbox.nextID
          /\ \A f \in {"nextStep", "nextTurn", "quiet"} :
               /\ durable'[f] = IF f = field THEN RemoveAt(durable[field], n) ELSE durable[f]
               /\ inbox'[f] = IF f = field THEN RemoveAt(durable[field], n) ELSE inbox[f]
        BY <1>1, <1>2, <1>6, <2>1 DEF Box
    <2>4. Shrinks(durable', durable)
        BY <2>2, <2>3, ThinSame DEF Shrinks
    <2>5. SyncInv'
        BY <1>1, <1>6, <2>3 DEF IInv, SyncInv
    <2> QED
        BY <1>1, <1>6, <2>4, <2>5, Losing
<1> QED
    BY <1>3, <1>5, <1>6

\* The whole claim: the messages move from the journal to the driver.
LEMMA ClaimAll ==
    ASSUME TypeOK, TypeOK', IInv, Up, issued' = issued, delivered' = delivered, driver' = "claimed",
           durable' = [NoSteps(durable) EXCEPT !.nextTurn = SubSeq(durable.nextTurn, 2, Len(durable.nextTurn))],
           inHand' = inbox.nextStep \o NextFollowup \o inbox.quiet,
           inbox' = [inbox EXCEPT !.nextStep = << >>, !.quiet = << >>, !.nextTurn = SubSeq(@, 2, Len(@))]
    PROVE  IInv' /\ Takes
<1> DEFINE rest == SubSeq(durable.nextTurn, 2, Len(durable.nextTurn))
           first == IdsOf(NextFollowup)
<1>1. /\ durable \in Box /\ durable' \in Box /\ inbox \in Box
      /\ inbox.nextStep = durable.nextStep /\ inbox.nextTurn = durable.nextTurn
      /\ inbox.quiet = durable.quiet /\ inbox.nextID >= durable.nextID
    BY DEF TypeOK, IInv, SyncInv
<1>2. durable.nextStep \in Seq(Message) /\ durable.nextTurn \in Seq(Message) /\ durable.quiet \in Seq(Message)
    BY <1>1, QueueType
<1>3. /\ durable'.nextStep = << >> /\ durable'.nextTurn = rest /\ durable'.quiet = << >>
      /\ durable'.ok = durable.ok /\ durable'.nextID = durable.nextID
    BY <1>1 DEF NoSteps, Box
<1>4. /\ inbox'.nextStep = << >> /\ inbox'.nextTurn = rest /\ inbox'.quiet = << >>
      /\ inbox'.nextID = inbox.nextID
    BY <1>1 DEF Box
<1>5. Thins(rest, durable.nextTurn) /\ rest \in Seq(Message)
    BY <1>2, ThinRest
<1>6. IdsOf(durable.nextTurn) = first \cup IdsOf(rest) /\ first \cap IdsOf(rest) = {}
    <2>1. CASE durable.nextTurn = << >>
        <3>1. SubSeq(<< >>, 2, Len(<< >>)) = << >>
            OBVIOUS
        <3> QED
            BY <1>1, <2>1, <3>1, NoIds DEF NextFollowup
    <2>2. CASE durable.nextTurn # << >>
        <3>1. first = {Head(durable.nextTurn).id}
            BY <1>1, <2>2, IdsOfOne DEF NextFollowup
        <3> QED
            BY <1>2, <2>2, <3>1, ThinRest DEF IInv, FollowupInv
    <2> QED
        BY <2>1, <2>2
<1>7. IdsOf(inHand)' = IdsOf(durable.nextStep) \cup first \cup IdsOf(durable.quiet)
    <2>1. NextFollowup \in Seq(Message)
        BY <1>1, FollowupType
    <2>2. inbox.nextStep \o NextFollowup \in Seq(Message)
        BY <1>1, <1>2, <2>1, ConcatProperties
    <2>3. IdsOf(inbox.nextStep \o NextFollowup) = IdsOf(durable.nextStep) \cup first
        BY <1>1, <1>2, <2>1, IdsOfConcat
    <2>4. IdsOf((inbox.nextStep \o NextFollowup) \o inbox.quiet)
            = IdsOf(inbox.nextStep \o NextFollowup) \cup IdsOf(durable.quiet)
        <3> DEFINE a == inbox.nextStep \o NextFollowup
        <3>1. a \in Seq(Message) /\ durable.quiet \in Seq(Message) /\ inbox.quiet = durable.quiet
            BY <1>1, <1>2, <2>2
        <3> HIDE DEF a
        <3>2. IdsOf(a \o durable.quiet) = IdsOf(a) \cup IdsOf(durable.quiet)
            BY <3>1, IdsOfConcat
        <3> QED
            BY <3>1, <3>2 DEF a
    <2> QED
        BY <2>3, <2>4
<1> HIDE DEF rest, first
<1>8. Shrinks(durable', durable)
    BY <1>3, <1>5, ThinEmpty DEF Shrinks
<1>9. RestartPossible' /\ Sorted(durable)' /\ FollowupInv'
    BY <1>1, <1>8, ShrinksKeep DEF IInv
<1>10. IdsOf(Pending(durable)) = IdsOf(durable.nextStep) \cup IdsOf(durable.nextTurn) \cup IdsOf(durable.quiet)
    BY <1>1, IdsOfPending
<1>11. IdsOf(Pending(durable))' = IdsOf(rest)
    <2>1. IdsOf(Pending(durable')) = IdsOf(durable'.nextStep) \cup IdsOf(durable'.nextTurn) \cup IdsOf(durable'.quiet)
        BY <1>1, IdsOfPending
    <2> QED
        BY <1>3, <2>1, NoIds
<1>12. SyncInv'
    BY <1>1, <1>3, <1>4 DEF SyncInv
<1>13. IdsOf(rest) \cap (IdsOf(durable.nextStep) \cup IdsOf(durable.quiet)) = {}
    BY <1>6 DEF IInv, FollowupInv
<1>14. PlaceInv'
    BY <1>3, <1>6, <1>7, <1>10, <1>11, <1>13 DEF IInv, PlaceInv
<1>15. Takes
    BY <1>6, <1>7, <1>10, <1>11 DEF Takes, Held
<1> QED
    BY <1>9, <1>12, <1>14, <1>15 DEF IInv

LEMMA ClaimGood ==
    ASSUME TypeOK, TypeOK', IInv, torn = 0, torn' = 0, NEW done \in 0 .. 2, Claim(done)
    PROVE  IInv' /\ Takes
<1>1. Up /\ done <= Len(ClaimEvents) /\ durable' = Committed(ClaimEvents, done) /\ issued' = issued
    BY DEF Claim, Up
<1>2. \/ /\ done = Len(ClaimEvents)
         /\ durable' = [NoSteps(durable) EXCEPT !.nextTurn = SubSeq(durable.nextTurn, 2, Len(durable.nextTurn))]
      \/ done < Len(ClaimEvents) /\ done = 0 /\ durable' = durable
      \/ done < Len(ClaimEvents) /\ done # 0 /\ durable' = NoSteps(durable)
    BY <1>1, ClaimCommits DEF IInv
<1>3. Len(ClaimEvents) \in Nat
    BY DEF ClaimEvents
<1>4. CASE /\ done = Len(ClaimEvents) /\ driver' = "claimed"
           /\ inHand' = inbox.nextStep \o NextFollowup \o inbox.quiet
           /\ inbox' = [inbox EXCEPT !.nextStep = << >>, !.quiet = << >>, !.nextTurn = SubSeq(@, 2, Len(@))]
           /\ UNCHANGED <<closed, wake, delivered, budget>>
    <2>1. durable' = [NoSteps(durable) EXCEPT !.nextTurn = SubSeq(durable.nextTurn, 2, Len(durable.nextTurn))]
        BY <1>2, <1>3, <1>4
    <2> QED
        BY <1>1, <1>4, <2>1, ClaimAll
<1>5. CASE done < Len(ClaimEvents) /\ Crash
    <2>1. durable' = durable \/ durable' = NoSteps(durable)
        BY <1>2, <1>3, <1>5
    <2> QED
        BY <1>1, <1>5, <2>1, CrashStep
<1>6. CASE done < Len(ClaimEvents) /\ CommitFault(done) /\ driver' = "exited" /\ UNCHANGED inbox
    <2>1. done = 0 => durable' = durable
        BY <1>2, <1>3, <1>6
    <2> QED
        BY <1>1, <1>6, <2>1, FaultStep
<1> QED
    BY <1>4, <1>5, <1>6 DEF Claim

\* Messages for the running turn are delivered as they are claimed.
LEMMA ClaimStepGood ==
    ASSUME TypeOK, TypeOK', IInv, torn = 0, torn' = 0, ClaimStep
    PROVE  IInv' /\ Takes
<1> DEFINE line == queue(durable, "next-step")
<1>1. /\ durable \in Box /\ durable' \in Box /\ inbox \in Box /\ durable.ok /\ Up /\ issued' = issued
      /\ queue(inbox, "next-step") = line
      /\ inbox.nextStep = durable.nextStep /\ inbox.nextTurn = durable.nextTurn
      /\ inbox.quiet = durable.quiet /\ inbox.nextID >= durable.nextID
    BY SameQueues DEF TypeOK, IInv, SyncInv, RestartPossible, ClaimStep, Up
<1>2. \/ /\ durable' = Committed(<<RemoveFrom("next-step", 0, Len(line))>>, 1)
         /\ inbox' = [inbox EXCEPT !.nextStep = << >>, !.quiet = << >>]
         /\ delivered' = delivered \cup IdsOf(line)
         /\ UNCHANGED <<closed, wake, driver, inHand, budget>>
      \/ /\ CommitFault(0)
         /\ UNCHANGED <<inbox, durable, driver>>
    BY <1>1 DEF ClaimStep
<1>3. IdsOf(line) = IdsOf(durable.nextStep) \cup IdsOf(durable.quiet)
    <2>1. durable.nextStep \in Seq(Message) /\ durable.quiet \in Seq(Message)
        BY <1>1, QueueType
    <2>2. line = durable.nextStep \o durable.quiet
        BY DEF queue
    <2> HIDE DEF line
    <2> QED
        BY <2>1, <2>2, IdsOfConcat
<1>4. apply(durable, RemoveFrom("next-step", 0, Len(line))) = NoSteps(durable)
    BY <1>1, ApplyEmptyStep DEF NoSteps
<1> HIDE DEF line
<1>5. CASE CommitFault(0) /\ UNCHANGED <<inbox, durable, driver>>
    <2>1. 0 \in 0 .. 2
        OBVIOUS
    <2> QED
        BY <1>1, <1>5, <2>1, FaultStep
<1>6. CASE /\ durable' = Committed(<<RemoveFrom("next-step", 0, Len(line))>>, 1)
           /\ inbox' = [inbox EXCEPT !.nextStep = << >>, !.quiet = << >>]
           /\ delivered' = delivered \cup IdsOf(line)
           /\ UNCHANGED <<closed, wake, driver, inHand, budget>>
    <2>1. durable' = NoSteps(durable)
        BY <1>4, <1>6, OneEvent
    <2>2. Shrinks(durable', durable)
        BY <1>1, <2>1, NoStepsFacts
    <2>3. RestartPossible' /\ Sorted(durable)' /\ FollowupInv'
        BY <1>1, <2>2, ShrinksKeep DEF IInv
    <2>4. /\ durable'.nextStep = << >> /\ durable'.nextTurn = durable.nextTurn /\ durable'.quiet = << >>
          /\ durable'.nextID = durable.nextID
          /\ inbox'.nextStep = << >> /\ inbox'.nextTurn = inbox.nextTurn /\ inbox'.quiet = << >>
          /\ inbox'.nextID = inbox.nextID
        BY <1>1, <1>6, <2>1 DEF NoSteps, Box
    <2>5. SyncInv'
        BY <1>1, <2>4 DEF SyncInv
    <2>6. IdsOf(Pending(durable)) = IdsOf(durable.nextStep) \cup IdsOf(durable.nextTurn) \cup IdsOf(durable.quiet)
        BY <1>1, IdsOfPending
    <2>7. IdsOf(Pending(durable))' = IdsOf(durable.nextTurn)
        <3>1. IdsOf(Pending(durable')) = IdsOf(durable'.nextStep) \cup IdsOf(durable'.nextTurn) \cup IdsOf(durable'.quiet)
            BY <1>1, IdsOfPending
        <3> QED
            BY <2>4, <3>1, NoIds
    <2>8. IdsOf(line) \cap IdsOf(durable.nextTurn) = {}
        BY <1>3 DEF IInv, FollowupInv
    <2>9. PlaceInv'
        BY <1>1, <1>3, <1>6, <2>4, <2>6, <2>7, <2>8 DEF IInv, PlaceInv
    <2>10. Takes
        <3>1. Held \ Held' = IdsOf(line)
            BY <1>3, <1>6, <2>6, <2>7, <2>8 DEF Held, IInv, PlaceInv
        <3> QED
            BY <1>1, <1>6, <2>6, <2>7, <3>1 DEF Takes, Held
    <2> QED
        BY <2>3, <2>5, <2>9, <2>10 DEF IInv
<1> QED
    BY <1>2, <1>5, <1>6

LEMMA StartTurnGood ==
    ASSUME TypeOK, TypeOK', IInv, StartTurn
    PROVE  IInv' /\ Takes
<1>1. SyncInv'
    BY DEF StartTurn, IInv, SyncInv, Up
<1>2. CASE closed
    <2>1. UNCHANGED <<durable, delivered, issued>> /\ inHand' = << >>
        BY <1>2 DEF StartTurn
    <2> QED
        BY <1>1, <2>1, QuietStep
<1>3. CASE ~closed
    <2>1. /\ durable' = durable /\ issued' = issued /\ delivered' = delivered \cup IdsOf(inHand)
          /\ inHand' = << >>
        BY <1>3 DEF StartTurn
    <2>2. IdsOf(inHand)' = {}
        BY <2>1, NoIds
    <2>3. RestartPossible' /\ Sorted(durable)' /\ FollowupInv'
        BY <2>1 DEF IInv, RestartPossible, Sorted, FollowupInv
    <2>4. PlaceInv'
        BY <2>1, <2>2 DEF IInv, PlaceInv
    <2>5. Takes
        <3>1. Held' = IdsOf(Pending(durable))
            BY <2>1, <2>2 DEF Held
        <3> QED
            BY <2>1, <3>1 DEF Takes, Held, IInv, PlaceInv
    <2> QED
        BY <1>1, <2>3, <2>4, <2>5 DEF IInv
<1> QED
    BY <1>2, <1>3

\* One more message at the end of a line.
LEMMA AppendFacts ==
    ASSUME NEW s \in Seq(Message), NEW m \in Message
    PROVE  /\ Append(s, m) \in Seq(Message) /\ IdsOf(Append(s, m)) = IdsOf(s) \cup {m.id}
           /\ \A K : (\A n \in DOMAIN s : s[n].kind \in K) /\ m.kind \in K =>
                     \A n \in DOMAIN Append(s, m) : Append(s, m)[n].kind \in K
           /\ Distinct(s) /\ m.id \notin IdsOf(s) => Distinct(Append(s, m))
<1> DEFINE t == Append(s, m)
<1>1. /\ t \in Seq(Message) /\ DOMAIN t = 1 .. Len(s) + 1 /\ DOMAIN s = 1 .. Len(s) /\ Len(s) \in Nat
      /\ t[Len(s) + 1] = m
    OBVIOUS
<1>2. \A k \in DOMAIN s : k \in DOMAIN t /\ t[k] = s[k]
    BY <1>1
<1> HIDE DEF t
<1>3. \A k \in DOMAIN t : k \in DOMAIN s \/ k = Len(s) + 1
    BY <1>1
<1>4. Len(s) + 1 \in DOMAIN t
    BY <1>1
<1>5. IdsOf(t) = IdsOf(s) \cup {m.id}
    <2>1. IdsOf(t) \subseteq IdsOf(s) \cup {m.id}
        BY <1>1, <1>2, <1>3 DEF IdsOf
    <2>2. IdsOf(s) \cup {m.id} \subseteq IdsOf(t)
        BY <1>1, <1>2, <1>4 DEF IdsOf
    <2> QED
        BY <2>1, <2>2
<1>6. ASSUME NEW K, \A n \in DOMAIN s : s[n].kind \in K, m.kind \in K
      PROVE  \A n \in DOMAIN t : t[n].kind \in K
    BY <1>1, <1>2, <1>3, <1>6
<1>7. ASSUME Distinct(s), m.id \notin IdsOf(s), NEW j \in DOMAIN t, NEW k \in DOMAIN t, t[j].id = t[k].id
      PROVE  j = k
    <2>1. \A n \in DOMAIN s : t[n].id # m.id
        BY <1>2, <1>7 DEF IdsOf
    <2>2. CASE j \in DOMAIN s /\ k \in DOMAIN s
        BY <1>2, <1>7, <2>2 DEF Distinct
    <2>3. CASE ~ (j \in DOMAIN s /\ k \in DOMAIN s)
        BY <1>1, <1>3, <1>7, <2>1, <2>3
    <2> QED
        BY <2>2, <2>3
<1>8. Distinct(s) /\ m.id \notin IdsOf(s) => Distinct(t)
    BY <1>7 DEF Distinct
<1> QED
    BY <1>1, <1>5, <1>6, <1>8 DEF t

\* The queue that gets the message.
LEMMA Submitting ==
    ASSUME TypeOK, TypeOK', IInv, Up, UNCHANGED <<driver, inHand, delivered>>, NEW m \in Message,
           m.id = inbox.nextID + 1, issued' = issued \cup {m.id},
           durable' = Grown(durable, m), inbox' = Grown(inbox, m)
    PROVE  IInv' /\ Sends
<1> DEFINE a == durable.nextStep
           t == durable.nextTurn
           q == durable.quiet
           n == m.id
<1>1. /\ durable \in Box /\ durable' \in Box /\ inbox \in Box
      /\ inbox.nextStep = a /\ inbox.nextTurn = t /\ inbox.quiet = q
    BY DEF TypeOK, IInv, SyncInv
<1>2. a \in Seq(Message) /\ t \in Seq(Message) /\ q \in Seq(Message) /\ m.kind \in Kinds
    BY <1>1, QueueType DEF Message
<1>3. n \in 1 .. MaxId /\ durable.nextID \in Nat /\ durable.nextID < n
    BY <1>1, BoundsAssumption DEF IInv, SyncInv, Message, Box
<1>4. /\ durable'.ok = durable.ok /\ durable'.nextID = n /\ inbox'.nextID = n
      /\ \/ /\ m.kind = "next-turn"
            /\ durable'.nextStep = a /\ durable'.nextTurn = Append(t, m) /\ durable'.quiet = q
            /\ inbox'.nextStep = a /\ inbox'.nextTurn = Append(t, m) /\ inbox'.quiet = q
         \/ /\ m.kind = "quiet-injection"
            /\ durable'.nextStep = a /\ durable'.nextTurn = t /\ durable'.quiet = Append(q, m)
            /\ inbox'.nextStep = a /\ inbox'.nextTurn = t /\ inbox'.quiet = Append(q, m)
         \/ /\ m.kind # "next-turn" /\ m.kind # "quiet-injection"
            /\ durable'.nextStep = Append(a, m) /\ durable'.nextTurn = t /\ durable'.quiet = q
            /\ inbox'.nextStep = Append(a, m) /\ inbox'.nextTurn = t /\ inbox'.quiet = q
    <2>1. CASE m.kind = "next-turn"
        BY <1>1, <2>1 DEF Box, Grown
    <2>2. CASE m.kind = "quiet-injection"
        BY <1>1, <2>2 DEF Box, Grown
    <2>3. CASE m.kind # "next-turn" /\ m.kind # "quiet-injection"
        BY <1>1, <2>3 DEF Box, Grown
    <2> QED
        BY <2>1, <2>2, <2>3
<1>5. /\ IdsOf(Pending(durable)) = IdsOf(a) \cup IdsOf(t) \cup IdsOf(q)
      /\ IdsOf(Pending(durable))' = IdsOf(durable'.nextStep) \cup IdsOf(durable'.nextTurn) \cup IdsOf(durable'.quiet)
    BY <1>1, IdsOfPending
<1>6. \A k \in issued : k \in 1 .. durable.nextID
    BY DEF IInv, PlaceInv
<1>7. \A k \in issued : k < n
    BY <1>3, <1>6
<1>8. n \notin issued
    BY <1>3, <1>6
<1>9. n \notin IdsOf(a) \cup IdsOf(t) \cup IdsOf(q) \cup IdsOf(inHand) \cup delivered
    BY <1>5, <1>8 DEF IInv, PlaceInv
<1>10. /\ IdsOf(Append(a, m)) = IdsOf(a) \cup {n} /\ IdsOf(Append(t, m)) = IdsOf(t) \cup {n}
       /\ IdsOf(Append(q, m)) = IdsOf(q) \cup {n}
    BY <1>2, AppendFacts
<1>11. RestartPossible'
    BY <1>4 DEF IInv, RestartPossible
<1>12. Sorted(durable)'
    <2>1. \A k \in DOMAIN a : a[k].kind \in Kinds \ QuietKinds
        BY DEF IInv, Sorted
    <2>2. \A k \in DOMAIN q : q[k].kind \in QuietKinds
        BY DEF IInv, Sorted
    <2>3. m.kind \in Kinds \ QuietKinds =>
            \A k \in DOMAIN Append(a, m) : Append(a, m)[k].kind \in Kinds \ QuietKinds
        BY <1>2, <2>1, AppendFacts
    <2>4. m.kind \in QuietKinds => \A k \in DOMAIN Append(q, m) : Append(q, m)[k].kind \in QuietKinds
        BY <1>2, <2>2, AppendFacts
    <2>5. m.kind \in QuietKinds <=> m.kind = "quiet-injection"
        BY DEF QuietKinds
    <2> HIDE DEF a, q, t
    <2> QED
        BY <1>2, <1>4, <2>1, <2>2, <2>3, <2>4, <2>5 DEF Sorted
<1>13. SyncInv'
    <2>1. /\ inbox'.nextStep = durable'.nextStep /\ inbox'.nextTurn = durable'.nextTurn
          /\ inbox'.quiet = durable'.quiet /\ inbox'.nextID = durable'.nextID
        <3> HIDE DEF a, q, t, n
        <3> QED
            BY <1>4
    <2>2. durable'.nextID \in Nat
        BY <1>3, <1>4, BoundsAssumption
    <2> QED
        BY <2>1, <2>2 DEF SyncInv
<1>14. FollowupInv'
    <2>1. Distinct(Append(t, m)) /\ Distinct(t)
        BY <1>2, <1>9, AppendFacts DEF IInv, FollowupInv
    <2>2. IdsOf(t) \cap (IdsOf(a) \cup IdsOf(q)) = {}
        BY DEF IInv, FollowupInv
    <2> HIDE DEF a, q, t, n
    <2> QED
        BY <1>4, <1>9, <1>10, <2>1, <2>2 DEF FollowupInv
<1>15. IdsOf(Pending(durable))' = IdsOf(Pending(durable)) \cup {n}
    <2> HIDE DEF a, q, t, n
    <2> QED
        BY <1>4, <1>5, <1>10
<1>16. PlaceInv'
    <2>1. issued' \subseteq 1 .. durable'.nextID
        <3>1. \A k \in issued : k \in 1 .. n
            BY <1>3, <1>6
        <3>2. n \in 1 .. n
            BY <1>3
        <3> QED
            BY <1>4, <3>1, <3>2
    <2> HIDE DEF a, q, t, n
    <2>2. n \notin IdsOf(Pending(durable)) \cup IdsOf(inHand) \cup delivered
        BY <1>5, <1>9
    <2>3. issued' = issued \cup {n}
        BY DEF n
    <2> QED
        BY <1>15, <2>1, <2>2, <2>3 DEF IInv, PlaceInv
<1>17. Sends
    <2>1. Held' = Held \cup {n}
        BY <1>15 DEF Held
    <2> QED
        BY <1>3, <1>7, <2>1 DEF Sends
<1> QED
    BY <1>11, <1>12, <1>13, <1>14, <1>16, <1>17 DEF IInv

LEMMA PutGood ==
    ASSUME TypeOK, TypeOK', IInv, torn = 0, torn' = 0, NEW s \in Submissions, Put(s[1], s[2])
    PROVE  IInv' /\ (Takes \/ Sends)
<1> DEFINE m == [id |-> inbox.nextID + 1, kind |-> s[1], key |-> s[2]]
           advanced == [inbox EXCEPT !.nextID = m.id]
<1>1. /\ inbox \in Box /\ durable \in Box /\ durable.ok = TRUE /\ Sorted(durable) /\ Up
      /\ inbox.nextStep = durable.nextStep /\ inbox.nextTurn = durable.nextTurn /\ inbox.quiet = durable.quiet
      /\ inbox.nextID \in 0 .. MaxId /\ inbox.nextID < MaxId /\ inbox.nextID >= durable.nextID
      /\ durable.nextID \in Nat
    BY BoundsAssumption DEF TypeOK, Box, Put, IInv, RestartPossible, SyncInv
<1>2. m \in Message /\ m.id = inbox.nextID + 1 /\ m.kind = s[1] /\ m.kind \in Kinds
    BY <1>1, MessageType, SubmissionsAssumption
<1>3. \/ /\ durable' = Committed(<<Insert(inbox, m)>>, 1)
         /\ issued' = issued \cup {m.id}
         /\ inbox' = CASE s[1] \in {"next-step", "steering"} ->
                           [advanced EXCEPT !.nextStep = Append(@, m)]
                      [] s[1] = "next-turn" -> [advanced EXCEPT !.nextTurn = Append(@, m)]
                      [] OTHER -> [advanced EXCEPT !.quiet = Append(@, m)]
         /\ wake' = (wake \/ Wakes(s[1]))
         /\ UNCHANGED <<closed, driver, inHand, delivered, budget>>
      \/ /\ CommitFault(0)
         /\ inbox' = advanced
         /\ UNCHANGED <<durable, driver, issued>>
    BY DEF Put
<1>4. CASE CommitFault(0) /\ inbox' = advanced /\ UNCHANGED <<durable, driver, issued>>
    <2>1. 0 \in 0 .. 2 /\ inbox' = [inbox EXCEPT !.nextID = inbox.nextID + 1]
        BY <1>4
    <2> QED
        BY <1>1, <1>4, <2>1, FaultStep
<1>5. CASE /\ durable' = Committed(<<Insert(inbox, m)>>, 1)
           /\ issued' = issued \cup {m.id}
           /\ inbox' = CASE s[1] \in {"next-step", "steering"} ->
                             [advanced EXCEPT !.nextStep = Append(@, m)]
                        [] s[1] = "next-turn" -> [advanced EXCEPT !.nextTurn = Append(@, m)]
                        [] OTHER -> [advanced EXCEPT !.quiet = Append(@, m)]
           /\ wake' = (wake \/ Wakes(s[1]))
           /\ UNCHANGED <<closed, driver, inHand, delivered, budget>>
    <2> HIDE DEF m
    <2>1. m.id \notin IdsOf(Pending(durable)) /\ m.id > durable.nextID
        <3>1. m.id > durable.nextID
            BY <1>1, <1>2
        <3>2. IdsOf(Pending(durable)) \subseteq 1 .. durable.nextID
            BY DEF IInv, PlaceInv
        <3> QED
            BY <1>1, <3>1, <3>2
    <2>2. apply(durable, Insert(inbox, m)) = Grown(durable, m)
        BY <1>1, <1>2, <2>1, ApplyInsert
    <2>4. durable' = Grown(durable, m)
        BY <1>5, <2>2, OneEvent
    <2>3. inbox' = Grown(inbox, m)
        <3>1. CASE m.kind = "next-turn"
            BY <1>1, <1>2, <1>5, <3>1 DEF Box, Grown
        <3>2. CASE m.kind = "quiet-injection"
            BY <1>1, <1>2, <1>5, <3>2 DEF Box, Grown
        <3>3. CASE m.kind \in {"next-step", "steering"}
            BY <1>1, <1>2, <1>5, <3>3 DEF Box, Grown
        <3> QED
            BY <1>2, <3>1, <3>2, <3>3 DEF Kinds
    <2> QED
        BY <1>1, <1>2, <1>5, <2>3, <2>4, Submitting
<1> QED
    BY <1>3, <1>4, <1>5

\* Up to the first torn operation every step keeps the invariant, and submits
\* one message or takes some.
LEMMA StepGood ==
    ASSUME TypeOK, TypeOK', [Next]_vars, IInv, torn = 0, torn' = 0
    PROVE  IInv' /\ (Takes \/ Sends)
<1>1. CASE \E s \in Submissions : Put(s[1], s[2])
    BY <1>1, PutGood
<1>2. CASE \E done \in 0 .. 2 : Clear(done)
    BY <1>2, ClearGood
<1>3. CASE \E field \in {"nextStep", "nextTurn", "quiet"}, n \in 1 .. MaxId : RemoveMessage(field, n)
    BY <1>3, RemoveMessageGood
<1>4. CASE ClaimTurn
    BY <1>4, ClaimGood DEF ClaimTurn
<1>5. CASE ClaimStep
    BY <1>5, ClaimStepGood
<1>6. CASE StartTurn
    BY <1>6, StartTurnGood
<1>7. CASE Close \/ ClaimNothing \/ Wait \/ EndTurn \/ UNCHANGED vars
    <2>1. UNCHANGED <<inbox, durable, delivered, issued, inHand>> /\ (Up' => Up)
        BY <1>7 DEF Close, ClaimNothing, Wait, EndTurn, vars, Up
    <2>2. SyncInv'
        BY <2>1 DEF IInv, SyncInv
    <2> QED
        BY <2>1, <2>2, QuietStep
<1>8. CASE CrashIdle
    BY <1>8, CrashStep DEF CrashIdle
<1>9. CASE Restart \/ Reopen
    <2>1. UNCHANGED <<durable, delivered, issued, inHand>> /\ inbox' = durable
        BY <1>9 DEF Restart, Reopen
    <2>2. SyncInv'
        <3>1. durable.nextID \in Nat
            BY BoundsAssumption DEF TypeOK, Box
        <3> QED
            BY <2>1, <3>1 DEF SyncInv
    <2> QED
        BY <2>1, <2>2, QuietStep
<1> QED
    BY <1>1, <1>2, <1>3, <1>4, <1>5, <1>6, <1>7, <1>8, <1>9 DEF Next, DriverStep

LEMMA InitGood == Init => IInv
<1> SUFFICES ASSUME Init PROVE IInv
    OBVIOUS
<1>1. /\ durable.ok /\ durable.nextStep = << >> /\ durable.nextTurn = << >> /\ durable.quiet = << >>
      /\ inbox = durable /\ inHand = << >> /\ delivered = {} /\ issued = {} /\ durable.nextID = 0
    BY DEF Init, EmptyInbox
<1>2. IdsOf(Pending(durable)) = {}
    BY <1>1, NoIds DEF Pending
<1> QED
    BY <1>1, <1>2, NoIds DEF IInv, RestartPossible, Sorted, SyncInv, FollowupInv, PlaceInv, Distinct

\* A torn operation stays on the record.
LEMMA TornStays == ASSUME TypeOK, [Next]_vars, torn' = 0 PROVE torn = 0
<1>1. torn \in Nat
    BY BoundsAssumption DEF TypeOK
<1>2. torn' = torn \/ torn' = torn + 1
    BY DEF Next, DriverStep, ClaimTurn, vars, budget, Put, Clear, RemoveMessage, Close, Claim, ClaimStep,
           ClaimNothing, Wait, StartTurn, EndTurn, CrashIdle, Restart, Reopen, Crash, CommitFault
<1> QED
    BY <1>1, <1>2

\* InboxEvent's contract: until an operation is torn, the committed events can
\* be replayed and rebuild the pending work of the live inbox, in every state of
\* a running process and after any crashes, restarts and failing commits. With
\* MaxTorn = 0, as in the run, that is in every state.
THEOREM ReplayReconstructsHolds == Spec => [](torn = 0 => ReplayReconstructs)
<1> DEFINE Good == torn = 0 => IInv
<1>1. Init => Good
    BY InitGood
<1>2. TypeOK /\ TypeOK' /\ Good /\ [Next]_vars => Good'
    BY StepGood, TornStays
<1>3. Good => (torn = 0 => ReplayReconstructs)
    BY DEF IInv, SyncInv, ReplayReconstructs
<1> HIDE DEF Good
<1> QED
    BY <1>1, <1>2, <1>3, TypeCorrect, PTL DEF Spec

-----------------------------------------------------------------------------
(* The refinement.                                                         *)

\* What the refinement mapping makes of a message, by where it is.
LEMMA FateIs ==
    ASSUME IInv, NEW n \in 1 .. MaxId
    PROVE  /\ n \in Held => fate[n] = "pending"
           /\ n \in delivered => fate[n] = "delivered"
           /\ n \in issued /\ n \notin Held \cup delivered => fate[n] = "dropped"
           /\ n \notin issued => fate[n] = "unsent"
<1>1. delivered \cap Held = {} /\ delivered \cup Held \subseteq issued
    BY DEF IInv, PlaceInv, Held
<1>2. fate[n] = IF n \in Held THEN IF n \in delivered THEN "twice" ELSE "pending"
                 ELSE IF n \in delivered THEN "delivered"
                 ELSE IF n \in issued THEN "dropped" ELSE "unsent"
    BY Zenon DEF fate, Held
<1> QED
    <2>1. CASE n \in Held
        BY <1>1, <1>2, <2>1
    <2>2. CASE n \in delivered
        BY <1>1, <1>2, <2>2
    <2>3. CASE n \notin Held /\ n \notin delivered
        BY <1>1, <1>2, <2>3
    <2> QED
        BY <1>1, <2>1, <2>2, <2>3

LEMMA FateIsNext ==
    ASSUME IInv', NEW n \in 1 .. MaxId
    PROVE  /\ n \in Held' => fate'[n] = "pending"
           /\ n \in delivered' => fate'[n] = "delivered"
           /\ n \in issued' /\ n \notin Held' \cup delivered' => fate'[n] = "dropped"
           /\ n \notin issued' => fate'[n] = "unsent"
<1>1. delivered' \cap Held' = {} /\ delivered' \cup Held' \subseteq issued'
    BY DEF IInv, PlaceInv, Held
<1>2. fate'[n] = IF n \in Held' THEN IF n \in delivered' THEN "twice" ELSE "pending"
                 ELSE IF n \in delivered' THEN "delivered"
                 ELSE IF n \in issued' THEN "dropped" ELSE "unsent"
    BY Zenon DEF fate, Held
<1> QED
    <2>1. CASE n \in Held'
        BY <1>1, <1>2, <2>1
    <2>2. CASE n \in delivered'
        BY <1>1, <1>2, <2>2
    <2>3. CASE n \notin Held' /\ n \notin delivered'
        BY <1>1, <1>2, <2>3
    <2> QED
        BY <1>1, <2>1, <2>2, <2>3

\* The abstract state is a function of the identifiers, before and after.
LEMMA FateFunction ==
    /\ fate = [n \in 1 .. MaxId |-> fate[n]]
    /\ fate' = [n \in 1 .. MaxId |-> fate'[n]]
BY DEF fate

\* A submission is the abstract one, of the same identifier.
LEMMA SendsRefines ==
    ASSUME IInv, IInv', Sends
    PROVE  Promise!Next
<1>1. PICK n \in 1 .. MaxId :
        /\ \A k \in issued : k < n
        /\ Held' = Held \cup {n} /\ issued' = issued \cup {n} /\ delivered' = delivered
    BY DEF Sends
<1>2. \A k \in 1 .. MaxId : k >= n => k \notin issued
    BY <1>1
<1>3. n \notin issued
    BY <1>1
<1>4. \A k \in 1 .. MaxId : k > n => fate[k] = "unsent"
    BY <1>2, FateIs
<1>5. fate[n] = "unsent" /\ fate'[n] = "pending"
    BY <1>1, <1>3, FateIs, FateIsNext
<1>6. ASSUME NEW k \in 1 .. MaxId, k # n PROVE fate'[k] = fate[k]
    <2>1. /\ k \in Held' <=> k \in Held
          /\ k \in issued' <=> k \in issued
          /\ k \in delivered' <=> k \in delivered
        BY <1>1, <1>6
    <2> QED
        BY <2>1, FateIs, FateIsNext
<1>7. fate' = [fate EXCEPT ![n] = "pending"]
    BY <1>5, <1>6, FateFunction
<1>8. Promise!Submit(n)
    BY <1>4, <1>5, <1>7 DEF Promise!Submit, Promise!Ids
<1> QED
    BY <1>8 DEF Promise!Next, Promise!Ids

\* What leaves the inbox leaves it for one outcome; a step that takes nothing
\* out is no step of PendingWork.
LEMMA TakesRefines ==
    ASSUME TypeOK, IInv, IInv', Takes
    PROVE  Promise!Next \/ fate' = fate
<1> DEFINE S == Held \ Held'
           outcome == IF delivered' = delivered THEN "dropped" ELSE "delivered"
<1>1. Held \subseteq 1 .. MaxId
    <2>1. issued \subseteq 1 .. MaxId
        BY DEF TypeOK
    <2> QED
        BY <2>1 DEF IInv, PlaceInv, Held
<1>2. \A n \in S : fate[n] = "pending"
    BY <1>1, FateIs
<1>3. ASSUME NEW n \in 1 .. MaxId, n \in S PROVE fate'[n] = outcome
    <2>1. n \in issued' /\ n \notin Held'
        BY <1>3 DEF Takes, IInv, PlaceInv, Held
    <2>2. CASE delivered' = delivered
        <3>1. n \notin delivered
            BY <1>3 DEF IInv, PlaceInv, Held
        <3> QED
            BY <2>1, <2>2, <3>1, FateIsNext
    <2>3. CASE delivered' # delivered
        <3>1. n \in delivered'
            BY <1>3, <2>3 DEF Takes
        <3> QED
            BY <2>3, <3>1, FateIsNext
    <2> QED
        BY <2>2, <2>3
<1>4. ASSUME NEW n \in 1 .. MaxId, n \notin S PROVE fate'[n] = fate[n]
    <2>1. /\ n \in Held' <=> n \in Held
          /\ n \in issued' <=> n \in issued
          /\ n \in delivered' <=> n \in delivered
        BY <1>4 DEF Takes
    <2> QED
        BY <2>1, FateIs, FateIsNext
<1> HIDE DEF S
<1>5. fate' = [n \in 1 .. MaxId |-> IF n \in S THEN outcome ELSE fate[n]]
    BY <1>3, <1>4, FateFunction
<1>6. CASE S = {}
    BY <1>5, <1>6, FateFunction
<1>7. CASE S # {}
    <2>1. S \in SUBSET {n \in 1 .. MaxId : fate[n] = "pending"}
        BY <1>1, <1>2 DEF S
    <2>2. outcome \in {"delivered", "dropped"}
        OBVIOUS
    <2> HIDE DEF outcome
    <2>3. Promise!Take(S, outcome)
        BY <1>2, <1>5, <1>7 DEF Promise!Take, Promise!Ids
    <2> QED
        BY <2>1, <2>2, <2>3 DEF Promise!Next, Promise!Ids
<1> QED
    BY <1>6, <1>7

LEMMA InitRefines == Init => Promise!Init
<1> SUFFICES ASSUME Init PROVE Promise!Init
    OBVIOUS
<1>1. IInv /\ issued = {}
    BY InitGood DEF Init
<1>2. \A n \in 1 .. MaxId : fate[n] = "unsent"
    BY <1>1, FateIs
<1> QED
    BY <1>2, FateFunction DEF Promise!Init, Promise!Ids

\* A message is submitted once, and then delivered to one turn or dropped:
\* the inbox implements PendingWork, whatever crashes and whatever commits
\* fail, as long as no operation is torn between its two commits.
THEOREM ImplementsPendingWorkHolds ==
    ASSUME MaxTorn = 0
    PROVE  Spec => ImplementsPendingWork
<1>1. TypeOK => torn = 0
    BY DEF TypeOK
<1>2. Init => IInv /\ Promise!Init
    BY InitGood, InitRefines
<1>3. TypeOK /\ TypeOK' /\ IInv /\ [Next]_vars => IInv' /\ [Promise!Next]_fate
    <2> SUFFICES ASSUME TypeOK, TypeOK', IInv, [Next]_vars
                 PROVE  IInv' /\ [Promise!Next]_fate
        OBVIOUS
    <2>1. torn = 0 /\ torn' = 0
        BY DEF TypeOK
    <2>2. IInv' /\ (Takes \/ Sends)
        BY <2>1, StepGood
    <2> QED
        BY <2>2, SendsRefines, TakesRefines
<1> QED
    BY <1>2, <1>3, TypeCorrect, PTL DEF Spec, ImplementsPendingWork, Promise!Spec
=============================================================================
