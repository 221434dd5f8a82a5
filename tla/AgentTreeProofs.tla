--------------------------- MODULE AgentTreeProofs ---------------------------
(***************************************************************************)
(* Proofs about AgentTree, for any two-level tree of ids, any number of    *)
(* creators, closers and sweepers, any number of Agents and of failures.   *)
(*                                                                         *)
(* The difficulty is that a closing call is a list: what the tree may rely *)
(* on is which step a list holds, and which step it has before or after    *)
(* another one. The first part has the lemmas about such lists, then each  *)
(* action has a lemma, and the invariant and its consequences come last.   *)
(***************************************************************************)
EXTENDS AgentTree, FiniteSetTheorems, TLAPS

----------------------------------------------------------------------------
(* The inductive invariant.                                                *)

\* The steps that a call can have left, and those that a scope can have as cleanups.
CleanupSteps ==
    [do : {"unregister"}, on : Ids] \cup [do : {"forget", "release"}, on : 1 .. made]
Steps ==
    CleanupSteps \cup [do : {"close", "await", "done"}, on : 1 .. made] \cup [do : {"scope"}, on : 0 .. made]

\* Process q still has the step e to take.
Holds(q, e) == e \in Range(work[q])

\* In the list s every b comes after an a; every a comes before a b.
Before(s, a, b) == \A n \in 1 .. Len(s) : s[n] = b => \E m \in 1 .. n - 1 : s[m] = a
After(s, a, b) == \A n \in 1 .. Len(s) : s[n] = a => \E m \in n + 1 .. Len(s) : s[m] = b

\* The types, with those of the lists.
Typed ==
    /\ TypeOK
    /\ work \in [Procs -> Seq(Steps)] /\ cleanups \in [Scopes -> Seq(CleanupSteps)]

\* Who is not in a closing call has no steps left; a driver has some only once it leaves.
AtRest ==
    /\ \A c \in Callers : pc[c] \notin {"undo", "closing"} => work[c] = <<>>
    /\ \A i \in Agents : driver[i] \in {"none", "idle", "turn"} => work[i] = <<>>

\* Ids, parents, children and the registry agree.
Instances ==
    /\ \A i \in 1 .. made : id[i] \in Ids
    /\ \A i \in 1 .. made :
          parent[i] # Root => parent[i] \in 1 .. made /\ ~Session(id[i]) /\ Session(id[parent[i]])
    /\ \A i \in Agents : parent[i] # Root => i \in 1 .. made
    /\ \A i \in Agents : driver[i] # "none" => i \in 1 .. made
    /\ \A s \in Scopes : \A k \in Range(kids[s]) : k \in 1 .. made /\ parent[k] = s
    /\ \A x \in Ids : agents[x] # None => agents[x] \in 1 .. made /\ id[agents[x]] = x
    /\ \A x \in Ids : memo[x] \in 0 .. made
    /\ \A c \in Creators : new[c] \in 0 .. made
    /\ scopeClosed \subseteq 0 .. made

\* A creator works on an instance of its own, which has no driver yet.
Creations ==
    /\ \A c \in Creators : pc[c] \in {"publish", "setup", "start"} => new[c] # None /\ driver[new[c]] = "none"
    /\ \A c, d \in Creators : new[c] = new[d] /\ new[c] # None => c = d

\* The registry's mutex keeps the place of the instance about to be published.
Publishing ==
    \A c \in Creators :
        /\ pc[c] = "publish" <=> regMu = c
        /\ pc[c] = "publish" => agents[id[new[c]]] = None /\ ~registryClosed

\* A closed registry is empty and stays so; only then is the root closed.
Swept ==
    /\ registryClosed => \A x \in Ids : agents[x] = None
    /\ \A c \in Sweepers : pc[c] \in {"closing", "returned"} => registryClosed
    /\ \A q \in Procs : Holds(q, Step("scope", Root)) => registryClosed
    /\ Root \in scopeClosed => registryClosed

InWork(i) == \E q \in Procs : \E do \in {"close", "await", "done"} : Holds(q, Step(do, i))

\* No instance is lost: it is registered, disposed, in somebody's hands or being created.
Accounted ==
    /\ \A i \in 1 .. made :
          \/ agents[id[i]] = i \/ i \in done \/ InWork(i)
          \/ \E c \in Creators : new[c] = i /\ pc[c] = "publish"
    /\ \A i \in disposed : i \in done \/ \E q \in Procs : Holds(q, Step("done", i))

\* One call ends an Agent, after it has closed the Agent's scope.
EndedOnce ==
    \A i \in Agents :
        /\ \A q \in Procs : Holds(q, Step("done", i)) =>
              /\ i \in closed /\ driver[i] \in {"none", "exit", "gone"}
              /\ \A r \in Procs : Holds(r, Step("done", i)) => r = q
        /\ i \notin scopeClosed => \A q \in Procs : Before(work[q], Step("scope", i), Step("done", i))
        /\ i \in done => i \in scopeClosed

\* Until the registry is closed, the scope of a session is closed by the call that ends its Agent.
SessionScopes ==
    ~registryClosed => \A p \in 1 .. made : Session(id[p]) =>
        /\ p \in scopeClosed => p \in closed /\ driver[p] \in {"none", "exit", "gone"}
        /\ \A q \in Procs : After(work[q], Step("scope", p), Step("done", p))

\* A registered child leaves the registry before its parent is done: its parent's scope
\* has the cleanup, or whoever ends the parent has it among the steps before that.
Tied ==
    \A i \in 1 .. made : agents[id[i]] = i /\ parent[i] # Root =>
        /\ parent[i] \notin done
        /\ parent[i] \notin scopeClosed => Step("unregister", id[i]) \in Range(cleanups[parent[i]])
        /\ parent[i] \in scopeClosed =>
              \A q \in Procs : Before(work[q], Step("unregister", id[i]), Step("done", parent[i]))

\* The inductive invariant.
TreeInv ==
    /\ Typed /\ AtRest /\ Instances /\ Creations /\ Publishing /\ Swept
    /\ Accounted /\ EndedOnce /\ SessionScopes /\ Tied
----------------------------------------------------------------------------
(* Lists of steps: the rest of a call after its first step was replaced.   *)

\* What the list after a replaced first step is made of (Replace).
LEMMA ReplacedList ==
    ASSUME NEW S, NEW s \in Seq(S), s # <<>>, NEW t \in Seq(S)
    PROVE  /\ t \o Tail(s) \in Seq(S)
           /\ Len(t \o Tail(s)) = Len(t) + Len(s) - 1
           /\ \A n \in 1 .. Len(t) : (t \o Tail(s))[n] = t[n]
           /\ \A n \in 2 .. Len(s) : (t \o Tail(s))[Len(t) + n - 1] = s[n]
           /\ \A n \in 1 .. Len(t) + Len(s) - 1 :
                 n > Len(t) => n - Len(t) + 1 \in 2 .. Len(s) /\ (t \o Tail(s))[n] = s[n - Len(t) + 1]
<1>1. Tail(s) \in Seq(S) /\ Len(Tail(s)) = Len(s) - 1 /\ Len(s) \in Nat \ {0}
  OBVIOUS
<1>2. \A n \in 1 .. Len(s) - 1 : Tail(s)[n] = s[n + 1]
  OBVIOUS
<1>3. QED
  BY <1>1, <1>2

\* The elements of a list are those at its places.
LEMMA RangeOfList ==
    ASSUME NEW S, NEW s \in Seq(S)
    PROVE  /\ Range(s) \subseteq S
           /\ \A e : e \in Range(s) <=> \E n \in 1 .. Len(s) : s[n] = e
  BY DEF Range

\* What a call has left after its first step was replaced.
LEMMA ReplacedRange ==
    ASSUME NEW S, NEW s \in Seq(S), s # <<>>, NEW t \in Seq(S)
    PROVE  /\ t \o Tail(s) \in Seq(S) /\ s[1] \in Range(s)
           /\ Range(t) \subseteq Range(t \o Tail(s))
           /\ Range(t \o Tail(s)) \subseteq Range(t) \cup Range(s)
           /\ Range(s) \subseteq {s[1]} \cup Range(t \o Tail(s))
<1> DEFINE r == t \o Tail(s)
<1>1. r \in Seq(S) /\ Len(r) = Len(t) + Len(s) - 1 /\ Len(s) \in Nat \ {0} /\ Len(t) \in Nat
  BY ReplacedList
<1>2. \A n \in 1 .. Len(t) : r[n] = t[n]
  BY ReplacedList
<1>3. \A n \in 2 .. Len(s) : r[Len(t) + n - 1] = s[n]
  BY ReplacedList
<1>4. \A n \in 1 .. Len(r) : n > Len(t) => n - Len(t) + 1 \in 2 .. Len(s) /\ r[n] = s[n - Len(t) + 1]
  BY ReplacedList, <1>1
<1> HIDE DEF r
<1>5. Range(t) \subseteq Range(r)
  BY <1>1, <1>2, RangeOfList
<1>6. Range(s) \subseteq {s[1]} \cup Range(r)
  <2> SUFFICES ASSUME NEW n \in 1 .. Len(s), n # 1 PROVE s[n] \in Range(r)
    BY RangeOfList
  <2>1. n \in 2 .. Len(s) /\ Len(t) + n - 1 \in 1 .. Len(r)
    BY <1>1
  <2>2. QED
    BY <2>1, <1>3, <1>1, RangeOfList
<1>7. Range(r) \subseteq Range(t) \cup Range(s)
  <2> SUFFICES ASSUME NEW n \in 1 .. Len(r) PROVE r[n] \in Range(t) \cup Range(s)
    BY <1>1, RangeOfList
  <2>1. CASE n <= Len(t)
    <3>1. n \in 1 .. Len(t)
      BY <2>1, <1>1
    <3>2. QED
      BY <3>1, <1>2, RangeOfList
  <2>2. CASE n > Len(t)
    <3>1. n - Len(t) + 1 \in 1 .. Len(s) /\ r[n] = s[n - Len(t) + 1]
      BY <2>2, <1>4, <1>1
    <3>2. QED
      BY <3>1, RangeOfList
  <2>3. QED
    BY <2>1, <2>2, <1>1
<1>8. s[1] \in Range(s)
  BY <1>1, RangeOfList
<1>9. QED
  BY <1>1, <1>5, <1>6, <1>7, <1>8 DEF r

\* A first step never comes after another one.
LEMMA FirstIsNotLater ==
    ASSUME NEW S, NEW s \in Seq(S), s # <<>>, NEW a, NEW b, Before(s, a, b)
    PROVE  s[1] # b
<1>1. 1 \in 1 .. Len(s)
  OBVIOUS
<1>2. QED
  BY <1>1 DEF Before

\* An order of steps survives the replacement of the first one.
LEMMA BeforeReplaced ==
    ASSUME NEW S, NEW s \in Seq(S), s # <<>>, NEW t \in Seq(S), NEW a, NEW b,
           Before(s, a, b), s[1] # a, b \notin Range(t)
    PROVE  Before(t \o Tail(s), a, b)
<1> DEFINE r == t \o Tail(s)
<1>1. r \in Seq(S) /\ Len(r) = Len(t) + Len(s) - 1 /\ Len(s) \in Nat \ {0} /\ Len(t) \in Nat
  BY ReplacedList
<1>2. \A n \in 1 .. Len(t) : r[n] = t[n]
  BY ReplacedList
<1>3. \A n \in 2 .. Len(s) : r[Len(t) + n - 1] = s[n]
  BY ReplacedList
<1>4. \A n \in 1 .. Len(r) : n > Len(t) => n - Len(t) + 1 \in 2 .. Len(s) /\ r[n] = s[n - Len(t) + 1]
  BY ReplacedList, <1>1
<1> HIDE DEF r
<1> SUFFICES ASSUME NEW n \in 1 .. Len(r), r[n] = b PROVE \E m \in 1 .. n - 1 : r[m] = a
  BY DEF Before, r
<1>5. n > Len(t)
  <2> SUFFICES ASSUME n <= Len(t) PROVE FALSE
    BY <1>1
  <2>1. n \in 1 .. Len(t) /\ t[n] = b
    BY <1>1, <1>2
  <2>2. QED
    BY <2>1, RangeOfList
<1>6. n - Len(t) + 1 \in 2 .. Len(s) /\ s[n - Len(t) + 1] = b
  BY <1>5, <1>4
<1>7. PICK m \in 1 .. n - Len(t) : s[m] = a
  <2>1. n - Len(t) + 1 \in 1 .. Len(s) /\ (n - Len(t) + 1) - 1 = n - Len(t)
    BY <1>6, <1>1
  <2>2. \E m \in 1 .. (n - Len(t) + 1) - 1 : s[m] = a
    BY <2>1, <1>6 DEF Before
  <2>3. QED
    BY <2>1, <2>2
<1>8. m \in 2 .. Len(s) /\ Len(t) + m - 1 \in 1 .. n - 1
  BY <1>1, <1>6, <1>7
<1>9. QED
  BY <1>3, <1>7, <1>8

\* The steps that take the place of the first one come before all others.
LEMMA BeforeRest ==
    ASSUME NEW S, NEW s \in Seq(S), s # <<>>, NEW t \in Seq(S), NEW a, NEW b,
           a \in Range(t), b \notin Range(t)
    PROVE  Before(t \o Tail(s), a, b)
<1> DEFINE r == t \o Tail(s)
<1>1. r \in Seq(S) /\ Len(r) = Len(t) + Len(s) - 1 /\ Len(s) \in Nat \ {0} /\ Len(t) \in Nat
  BY ReplacedList
<1>2. \A n \in 1 .. Len(t) : r[n] = t[n]
  BY ReplacedList
<1> HIDE DEF r
<1> SUFFICES ASSUME NEW n \in 1 .. Len(r), r[n] = b PROVE \E m \in 1 .. n - 1 : r[m] = a
  BY DEF Before, r
<1>3. PICK m \in 1 .. Len(t) : t[m] = a
  BY RangeOfList
<1>4. n > Len(t)
  <2> SUFFICES ASSUME n <= Len(t) PROVE FALSE
    BY <1>1
  <2>1. n \in 1 .. Len(t) /\ t[n] = b
    BY <1>1, <1>2
  <2>2. QED
    BY <2>1, RangeOfList
<1>5. QED
  BY <1>1, <1>2, <1>3, <1>4

\* The two steps of Agent.disposeScope: the scope is closed before the Agent is done.
LEMMA PairInOrder ==
    ASSUME NEW S, NEW s \in Seq(S), NEW a \in S, NEW b \in S, a # b
    PROVE  /\ Before(<<a, b>> \o s, a, b)
           /\ After(s, a, b) => After(<<a, b>> \o s, a, b)
<1> DEFINE r == <<a, b>> \o s
<1>1. Len(r) = Len(s) + 2 /\ Len(s) \in Nat /\ r[1] = a /\ r[2] = b
  OBVIOUS
<1>2. \A n \in 1 .. Len(r) : n > 2 => n - 2 \in 1 .. Len(s) /\ r[n] = s[n - 2]
  OBVIOUS
<1>3. \A n \in 1 .. Len(s) : r[n + 2] = s[n]
  OBVIOUS
<1> HIDE DEF r
<1>4. Before(r, a, b)
  <2> SUFFICES ASSUME NEW n \in 1 .. Len(r), r[n] = b PROVE \E m \in 1 .. n - 1 : r[m] = a
    BY DEF Before
  <2>1. n # 1 /\ 1 \in 1 .. n - 1
    BY <1>1
  <2>2. QED
    BY <2>1, <1>1
<1>5. ASSUME After(s, a, b) PROVE After(r, a, b)
  <2> SUFFICES ASSUME NEW n \in 1 .. Len(r), r[n] = a PROVE \E m \in n + 1 .. Len(r) : r[m] = b
    BY DEF After
  <2>1. CASE n = 1
    BY <2>1, <1>1
  <2>2. CASE n > 2
    <3>1. n - 2 \in 1 .. Len(s) /\ s[n - 2] = a
      BY <2>2, <1>2
    <3>2. PICK m \in (n - 2) + 1 .. Len(s) : s[m] = b
      BY <3>1, <1>5 DEF After
    <3>3. m \in 1 .. Len(s) /\ m + 2 \in n + 1 .. Len(r)
      BY <3>1, <3>2, <1>1
    <3>4. QED
      BY <3>2, <3>3, <1>3
  <2>3. QED
    BY <2>1, <2>2, <1>1
<1>6. QED
  BY <1>4, <1>5 DEF r

\* The same when the first step goes and others take its place.
LEMMA AfterReplaced ==
    ASSUME NEW S, NEW s \in Seq(S), s # <<>>, NEW t \in Seq(S), NEW a, NEW b,
           After(s, a, b), a \notin Range(t)
    PROVE  After(t \o Tail(s), a, b)
<1> DEFINE r == t \o Tail(s)
<1>1. r \in Seq(S) /\ Len(r) = Len(t) + Len(s) - 1 /\ Len(s) \in Nat \ {0} /\ Len(t) \in Nat
  BY ReplacedList
<1>2. \A n \in 1 .. Len(t) : r[n] = t[n]
  BY ReplacedList
<1>3. \A n \in 2 .. Len(s) : r[Len(t) + n - 1] = s[n]
  BY ReplacedList
<1>4. \A n \in 1 .. Len(r) : n > Len(t) => n - Len(t) + 1 \in 2 .. Len(s) /\ r[n] = s[n - Len(t) + 1]
  BY ReplacedList, <1>1
<1> HIDE DEF r
<1> SUFFICES ASSUME NEW n \in 1 .. Len(r), r[n] = a PROVE \E m \in n + 1 .. Len(r) : r[m] = b
  BY DEF After, r
<1>5. n > Len(t)
  <2> SUFFICES ASSUME n <= Len(t) PROVE FALSE
    BY <1>1
  <2>1. n \in 1 .. Len(t) /\ t[n] = a
    BY <1>1, <1>2
  <2>2. QED
    BY <2>1, RangeOfList
<1>6. n - Len(t) + 1 \in 2 .. Len(s) /\ s[n - Len(t) + 1] = a
  BY <1>5, <1>4
<1>7. PICK m \in (n - Len(t) + 1) + 1 .. Len(s) : s[m] = b
  <2>1. n - Len(t) + 1 \in 1 .. Len(s)
    BY <1>6, <1>1
  <2>2. QED
    BY <2>1, <1>6 DEF After
<1>8. m \in 2 .. Len(s) /\ Len(t) + m - 1 \in n + 1 .. Len(r)
  BY <1>1, <1>6, <1>7
<1>9. QED
  BY <1>3, <1>7, <1>8

\* A list without the later step, or without the earlier one, is in order.
LEMMA NothingToOrder ==
    ASSUME NEW S, NEW s \in Seq(S), NEW a, NEW b
    PROVE  /\ b \notin Range(s) => Before(s, a, b)
           /\ a \notin Range(s) => After(s, a, b)
  BY RangeOfList DEF Before, After

\* A step that is ahead of another one in a list has that one behind it.
LEMMA AheadHasBehind ==
    ASSUME NEW S, NEW s \in Seq(S), s # <<>>, NEW t \in Seq(S), NEW b, s[1] # b, After(s, s[1], b)
    PROVE  b \in Range(s) /\ b \in Range(t \o Tail(s))
<1>1. 1 \in 1 .. Len(s)
  OBVIOUS
<1>2. PICK m \in 1 + 1 .. Len(s) : s[m] = b
  BY <1>1 DEF After
<1>3. m \in 1 .. Len(s)
  BY <1>2
<1>4. b \in Range(s)
  BY <1>2, <1>3, RangeOfList
<1>5. QED
  BY <1>4, ReplacedRange

\* Lists put together.
LEMMA JoinedRange ==
    ASSUME NEW S, NEW s \in Seq(S), NEW t \in Seq(S)
    PROVE  s \o t \in Seq(S) /\ Range(s \o t) = Range(s) \cup Range(t)
<1> DEFINE r == s \o t
<1>1. r \in Seq(S) /\ Len(r) = Len(s) + Len(t) /\ Len(s) \in Nat /\ Len(t) \in Nat
  OBVIOUS
<1>2. \A n \in 1 .. Len(r) : r[n] = IF n <= Len(s) THEN s[n] ELSE t[n - Len(s)]
  OBVIOUS
<1> HIDE DEF r
<1>3. Range(r) \subseteq Range(s) \cup Range(t)
  <2> SUFFICES ASSUME NEW n \in 1 .. Len(r) PROVE r[n] \in Range(s) \cup Range(t)
    BY <1>1, RangeOfList
  <2>1. CASE n <= Len(s)
    <3>1. n \in 1 .. Len(s) /\ r[n] = s[n]
      BY <2>1, <1>1, <1>2
    <3>2. QED
      BY <3>1, RangeOfList
  <2>2. CASE n > Len(s)
    <3>1. n - Len(s) \in 1 .. Len(t) /\ r[n] = t[n - Len(s)]
      BY <2>2, <1>1, <1>2
    <3>2. QED
      BY <3>1, RangeOfList
  <2>3. QED
    BY <2>1, <2>2, <1>1
<1>4. Range(s) \subseteq Range(r)
  <2> SUFFICES ASSUME NEW n \in 1 .. Len(s) PROVE s[n] \in Range(r)
    BY RangeOfList
  <2>1. n \in 1 .. Len(r) /\ r[n] = s[n]
    BY <1>1, <1>2
  <2>2. QED
    BY <2>1, <1>1, RangeOfList
<1>5. Range(t) \subseteq Range(r)
  <2> SUFFICES ASSUME NEW n \in 1 .. Len(t) PROVE t[n] \in Range(r)
    BY RangeOfList
  <2>1. n + Len(s) \in 1 .. Len(r) /\ n + Len(s) > Len(s) /\ (n + Len(s)) - Len(s) = n
    BY <1>1
  <2>2. r[n + Len(s)] = t[n]
    BY <2>1, <1>1, <1>2
  <2>3. QED
    BY <2>1, <2>2, <1>1, RangeOfList
<1>6. QED
  BY <1>1, <1>3, <1>4, <1>5 DEF r

\* What a list with one more entry at its end contains.
LEMMA AppendedRange ==
    ASSUME NEW S, NEW s \in Seq(S), NEW e \in S
    PROVE  Append(s, e) \in Seq(S) /\ Range(Append(s, e)) = Range(s) \cup {e}
<1>1. Append(s, e) = s \o <<e>> /\ <<e>> \in Seq(S)
  OBVIOUS
<1>2. Range(<<e>>) = {e}
  BY DEF Range
<1>3. s \o <<e>> \in Seq(S) /\ Range(s \o <<e>>) = Range(s) \cup Range(<<e>>)
  BY <1>1, JoinedRange
<1>4. QED
  BY <1>1, <1>2, <1>3

\* Reversing a list keeps its elements.
LEMMA ReversedRange ==
    ASSUME NEW S, NEW s \in Seq(S)
    PROVE  Reverse(s) \in Seq(S) /\ Range(Reverse(s)) = Range(s)
<1> DEFINE r == Reverse(s)
<1>1. Len(s) \in Nat /\ r = [n \in 1 .. Len(s) |-> s[Len(s) - n + 1]]
  BY DEF Reverse
<1>2. \A n \in 1 .. Len(s) : Len(s) - n + 1 \in 1 .. Len(s) /\ s[n] \in S
  BY <1>1
<1>3. r \in Seq(S) /\ Len(r) = Len(s) /\ \A n \in 1 .. Len(s) : r[n] = s[Len(s) - n + 1]
  BY <1>1, <1>2
<1> HIDE DEF r
<1>4. \A n \in 1 .. Len(s) : Len(s) - n + 1 \in 1 .. Len(s) /\ r[Len(s) - n + 1] = s[n]
  BY <1>1, <1>3
<1>5. Range(r) \subseteq Range(s)
  BY <1>2, <1>3, RangeOfList
<1>6. Range(s) \subseteq Range(r)
  BY <1>3, <1>4, RangeOfList
<1>7. QED
  BY <1>3, <1>5, <1>6 DEF r

----------------------------------------------------------------------------
(* Steps, and how an action changes what the calls have left.              *)

\* Steps differ when what they do or whom they do it to differs.
LEMMA StepIs ==
    \A d, e, x, y : Step(d, x) = Step(e, y) <=> d = e /\ x = y
  BY DEF Step

\* What the short lists that the actions write contain.
LEMMA ShortRanges ==
    /\ Range(<<>>) = {}
    /\ \A e : Range(<<e>>) = {e}
    /\ \A e, f : Range(<<e, f>>) = {e, f}
  BY DEF Range

\* A list of a set's members is a list of a larger set's.
LEMMA SeqGrows ==
    ASSUME NEW S, NEW T, S \subseteq T
    PROVE  Seq(S) \subseteq Seq(T)
  OBVIOUS

\* Which steps there are.
LEMMA StepKinds ==
    /\ CleanupSteps \subseteq Steps
    /\ \A x \in Ids : Step("unregister", x) \in CleanupSteps
    /\ \A i \in 1 .. made : \A d \in {"forget", "release"} : Step(d, i) \in CleanupSteps
    /\ \A i \in 1 .. made : \A d \in {"close", "await", "done", "scope"} : Step(d, i) \in Steps
    /\ \A e \in CleanupSteps : e.do \notin {"close", "await", "done", "scope"}
    /\ \A e \in Steps : /\ e = Step(e.do, e.on)
                        /\ e.do = "unregister" => e.on \in Ids
                        /\ e.do = "scope" => e.on \in 0 .. made
                        /\ e.do \notin {"unregister", "scope"} => e.on \in 1 .. made
<1>1. CleanupSteps \subseteq Steps /\ \A x \in Ids : Step("unregister", x) \in CleanupSteps
  BY DEF CleanupSteps, Steps, Step
<1>2. \A i \in 1 .. made : \A d \in {"forget", "release"} : Step(d, i) \in CleanupSteps
  BY DEF CleanupSteps, Step
<1>3. ASSUME NEW i \in 1 .. made PROVE \A d \in {"close", "await", "done", "scope"} : Step(d, i) \in Steps
  <2>1. \A d \in {"close", "await", "done"} : Step(d, i) \in Steps
    BY DEF Steps, Step
  <2>2. i \in 0 .. made
    OBVIOUS
  <2>3. Step("scope", i) \in Steps
    BY <2>2 DEF Steps, Step
  <2>4. QED
    BY <2>1, <2>3
<1>4. \A e \in CleanupSteps : e.do \notin {"close", "await", "done", "scope"}
  BY DEF CleanupSteps
<1>5. ASSUME NEW e \in Steps
      PROVE  /\ e = Step(e.do, e.on)
             /\ e.do = "unregister" => e.on \in Ids
             /\ e.do = "scope" => e.on \in 0 .. made
             /\ e.do \notin {"unregister", "scope"} => e.on \in 1 .. made
  <2>1. CASE e \in [do : {"unregister"}, on : Ids]
    BY <2>1 DEF Step
  <2>2. CASE e \in [do : {"forget", "release"}, on : 1 .. made]
    BY <2>2 DEF Step
  <2>3. CASE e \in [do : {"close", "await", "done"}, on : 1 .. made]
    BY <2>3 DEF Step
  <2>4. CASE e \in [do : {"scope"}, on : 0 .. made]
    BY <2>4 DEF Step
  <2>5. QED
    BY <2>1, <2>2, <2>3, <2>4 DEF Steps, CleanupSteps
<1>6. QED
  BY <1>1, <1>2, <1>3, <1>4, <1>5

\* The sets of names, and what the constants are.
LEMMA Names ==
    ASSUME TreeShape
    PROVE  /\ Root = 0 /\ None = 0 /\ MaxAgents \in Nat
           /\ Creators \subseteq Callers /\ Closers \subseteq Callers /\ Sweepers \subseteq Callers
           /\ Callers \subseteq Procs /\ Agents \subseteq Procs /\ Procs = Agents \cup Callers
           /\ Agents \cap Callers = {} /\ Closers \cap Sweepers = {} /\ Nobody \notin Creators
           /\ Agents = 1 .. MaxAgents /\ Scopes = 0 .. MaxAgents
           /\ Agents \subseteq Scopes /\ Agents \subseteq Nat /\ 0 \notin Agents /\ 0 \in Scopes
           /\ Nobody \notin Ids
  BY DEF TreeShape, Root, None, Callers, Procs, Agents, Scopes

\* The instances made so far are Agents, and have scopes.
LEMMA MadeAre ==
    ASSUME TreeShape, Typed
    PROVE  /\ made \in Nat /\ 1 .. made \subseteq Agents /\ 0 .. made \subseteq Scopes
           /\ \A i \in 1 .. made : i # 0
<1>1. made \in 0 .. MaxAgents /\ MaxAgents \in Nat
  BY Names DEF Typed, TypeOK
<1>2. QED
  BY <1>1, Names

\* The first step of a call that has some.
LEMMA FirstStep ==
    ASSUME TreeShape, Typed, AtRest, NEW p \in Procs, NEW d, Todo(p, d)
    PROVE  /\ work[p] \in Seq(Steps) /\ work[p] # <<>> /\ work[p][1] = Step(d, On(p)) /\ Holds(p, Step(d, On(p)))
           /\ d = "unregister" => On(p) \in Ids
           /\ d = "scope" => On(p) \in 0 .. made
           /\ d \notin {"unregister", "scope"} => On(p) \in 1 .. made
           /\ p \in Callers => pc[p] \in {"undo", "closing"}
           /\ p \in Agents => driver[p] \notin {"none", "idle", "turn"}
<1>1. work[p] \in Seq(Steps) /\ work[p] # <<>>
  BY DEF Typed, Todo
<1>2. 1 \in 1 .. Len(work[p]) /\ work[p][1] \in Range(work[p]) /\ work[p][1] \in Steps
  BY <1>1 DEF Range
<1>3. work[p][1] = Step(d, On(p))
  BY <1>2, StepKinds DEF Todo, On
<1>4. Holds(p, Step(d, On(p)))
  BY <1>2, <1>3 DEF Holds
<1>5. /\ d = "unregister" => On(p) \in Ids
      /\ d = "scope" => On(p) \in 0 .. made
      /\ d \notin {"unregister", "scope"} => On(p) \in 1 .. made
  BY <1>2, StepKinds DEF Todo, On
<1>6. p \in Callers => pc[p] \in {"undo", "closing"}
  BY <1>1 DEF AtRest
<1>7. p \in Agents => driver[p] \notin {"none", "idle", "turn"}
  BY <1>1 DEF AtRest
<1>8. QED
  BY <1>1, <1>3, <1>4, <1>5, <1>6, <1>7

\* A call whose first step is replaced by the list t.
LEMMA CallGoesOn ==
    ASSUME TreeShape, Typed, NEW p \in Procs, work[p] # <<>>, NEW t \in Seq(Steps), Replace(p, t)
    PROVE  /\ work' \in [Procs -> Seq(Steps)] /\ work'[p] = t \o Tail(work[p])
           /\ \A q \in Procs : q # p => work'[q] = work[q]
           /\ \A q \in Procs : \A e : e \in Range(work'[q]) => Holds(q, e) \/ (q = p /\ e \in Range(t))
           /\ \A q \in Procs : \A e : Holds(q, e) => e \in Range(work'[q]) \/ (q = p /\ e = work[p][1])
           /\ \A e : e \in Range(t) => e \in Range(work'[p])
           /\ \A q \in Procs : \A a, b :
                 Before(work[q], a, b) /\ (work[p][1] # a \/ a \in Range(t)) /\ b \notin Range(t)
                    => Before(work'[q], a, b)
           /\ \A q \in Procs : \A a, b : After(work[q], a, b) /\ a \notin Range(t) => After(work'[q], a, b)
<1>1. work \in [Procs -> Seq(Steps)] /\ work[p] \in Seq(Steps)
  BY DEF Typed
<1>2. t \o Tail(work[p]) \in Seq(Steps) /\ work[p][1] \in Range(work[p])
      /\ Range(t) \subseteq Range(t \o Tail(work[p]))
      /\ Range(t \o Tail(work[p])) \subseteq Range(t) \cup Range(work[p])
      /\ Range(work[p]) \subseteq {work[p][1]} \cup Range(t \o Tail(work[p]))
  BY <1>1, ReplacedRange
<1>3. work' = [work EXCEPT ![p] = t \o Tail(work[p])]
  BY DEF Replace, Do
<1>4. work' \in [Procs -> Seq(Steps)] /\ work'[p] = t \o Tail(work[p])
      /\ \A q \in Procs : q # p => work'[q] = work[q]
  BY <1>1, <1>2, <1>3
<1>5. \A q \in Procs : \A e : e \in Range(work'[q]) => Holds(q, e) \/ (q = p /\ e \in Range(t))
  BY <1>2, <1>4 DEF Holds
<1>6. \A q \in Procs : \A e : Holds(q, e) => e \in Range(work'[q]) \/ (q = p /\ e = work[p][1])
  BY <1>2, <1>4 DEF Holds
<1>7. \A e : e \in Range(t) => e \in Range(work'[p])
  BY <1>2, <1>4
<1>8. ASSUME NEW q \in Procs, NEW a, NEW b, Before(work[q], a, b), work[p][1] # a \/ a \in Range(t), b \notin Range(t)
      PROVE  Before(work'[q], a, b)
  <2>1. CASE q # p
    BY <2>1, <1>4, <1>8
  <2>2. CASE q = p /\ a \in Range(t)
    BY <2>2, <1>1, <1>4, <1>8, BeforeRest
  <2>3. CASE q = p /\ work[p][1] # a
    BY <2>3, <1>1, <1>4, <1>8, BeforeReplaced
  <2>4. QED
    BY <2>1, <2>2, <2>3, <1>8
<1>9. ASSUME NEW q \in Procs, NEW a, NEW b, After(work[q], a, b), a \notin Range(t)
      PROVE  After(work'[q], a, b)
  <2>1. CASE q # p
    BY <2>1, <1>4, <1>9
  <2>2. CASE q = p
    BY <2>2, <1>1, <1>4, <1>9, AfterReplaced
  <2>3. QED
    BY <2>1, <2>2
<1>10. QED
  BY <1>4, <1>5, <1>6, <1>7, <1>8, <1>9

\* A call that begins with the list t.
LEMMA CallBegins ==
    ASSUME TreeShape, Typed, NEW p \in Procs, work[p] = <<>>, NEW t \in Seq(Steps), Do(p, t)
    PROVE  /\ work' \in [Procs -> Seq(Steps)] /\ work'[p] = t
           /\ \A q \in Procs : q # p => work'[q] = work[q]
           /\ \A q \in Procs : \A e : e \in Range(work'[q]) <=> Holds(q, e) \/ (q = p /\ e \in Range(t))
           /\ \A q \in Procs : \A a, b : Before(work[q], a, b) /\ b \notin Range(t) => Before(work'[q], a, b)
           /\ \A q \in Procs : \A a, b : After(work[q], a, b) /\ a \notin Range(t) => After(work'[q], a, b)
<1>1. work \in [Procs -> Seq(Steps)]
  BY DEF Typed
<1>2. work' \in [Procs -> Seq(Steps)] /\ work'[p] = t /\ \A q \in Procs : q # p => work'[q] = work[q]
  BY <1>1 DEF Do
<1>3. \A q \in Procs : \A e : e \in Range(work'[q]) <=> Holds(q, e) \/ (q = p /\ e \in Range(t))
  <2>1. \A e : ~Holds(p, e)
    BY ShortRanges DEF Holds
  <2>2. QED
    BY <1>2, <2>1 DEF Holds
<1>4. \A a, b : (b \notin Range(t) => Before(t, a, b)) /\ (a \notin Range(t) => After(t, a, b))
  BY NothingToOrder
<1>5. \A q \in Procs : \A a, b : Before(work[q], a, b) /\ b \notin Range(t) => Before(work'[q], a, b)
  BY <1>2, <1>4
<1>6. \A q \in Procs : \A a, b : After(work[q], a, b) /\ a \notin Range(t) => After(work'[q], a, b)
  BY <1>2, <1>4
<1>7. QED
  BY <1>2, <1>3, <1>5, <1>6

----------------------------------------------------------------------------
(* Each action keeps the invariant.                                        *)

\* Nothing happens.
LEMMA StutterKeeps ==
    ASSUME TreeInv, UNCHANGED vars
    PROVE  TreeInv'
<1> USE DEF vars, agentVars, flagVars, scopeVars, regVars, memoVars, callVars, histVars, envVars
<1>1. Steps' = Steps /\ CleanupSteps' = CleanupSteps
  BY DEF Steps, CleanupSteps
<1>2. Typed'
  BY <1>1 DEF TreeInv, Typed, TypeOK
<1>3. AtRest'
  BY DEF TreeInv, AtRest
<1>4. Instances'
  BY DEF TreeInv, Instances, Session
<1>5. Creations'
  BY DEF TreeInv, Creations
<1>6. Publishing'
  BY DEF TreeInv, Publishing
<1>7. Swept'
  BY DEF TreeInv, Swept, Holds
<1>8. Accounted'
  BY DEF TreeInv, Accounted, InWork, Holds
<1>9. EndedOnce'
  BY DEF TreeInv, EndedOnce, Holds
<1>10. SessionScopes'
  BY DEF TreeInv, SessionScopes, Session
<1>11. Tied'
  BY DEF TreeInv, Tied
<1>12. QED
  BY <1>2, <1>3, <1>4, <1>5, <1>6, <1>7, <1>8, <1>9, <1>10, <1>11 DEF TreeInv

\* A driver begins or ends a turn.
LEMMA TurnKeeps ==
    ASSUME TreeShape, TreeInv, NEW i \in Agents, BeginTurn(i) \/ EndTurn(i)
    PROVE  TreeInv'
<1> USE DEF flagVars, scopeVars, regVars, memoVars, callVars, histVars, envVars
<1>0. /\ driver[i] \in {"idle", "turn"} /\ \E d \in {"idle", "turn"} : driver' = [driver EXCEPT ![i] = d]
      /\ UNCHANGED <<made, id, parent, flagVars, scopeVars, regVars, memoVars, callVars, work, histVars, envVars>>
  BY DEF BeginTurn, EndTurn
<1>1. Steps' = Steps /\ CleanupSteps' = CleanupSteps
  BY <1>0 DEF Steps, CleanupSteps
<1>2. driver \in [Agents -> {"none", "idle", "turn", "exit", "gone"}]
  BY DEF TreeInv, Typed, TypeOK
<1>3. /\ driver' \in [Agents -> {"none", "idle", "turn", "exit", "gone"}]
      /\ driver'[i] \in {"idle", "turn"}
      /\ \A j \in Agents : j # i => driver'[j] = driver[j]
  BY <1>0, <1>2
<1>4. Typed'
  BY <1>0, <1>1, <1>3 DEF TreeInv, Typed, TypeOK
<1>5. AtRest'
  BY <1>0, <1>3 DEF TreeInv, AtRest
<1>6. Instances'
  BY <1>0, <1>3 DEF TreeInv, Instances, Session
<1>7. Creations'
  <2>1. \A c \in Creators : new[c] # None => new[c] \in Agents
    BY Names, MadeAre DEF TreeInv, Instances
  <2>2. QED
    BY <1>0, <1>3, <2>1 DEF TreeInv, Creations
<1>8. Publishing'
  BY <1>0 DEF TreeInv, Publishing
<1>9. Swept'
  BY <1>0 DEF TreeInv, Swept, Holds
<1>10. Accounted'
  BY <1>0 DEF TreeInv, Accounted, InWork, Holds
<1>11. EndedOnce'
  BY <1>0, <1>3 DEF TreeInv, EndedOnce, Holds
<1>12. SessionScopes'
  <2>1. 1 .. made \subseteq Agents
    BY MadeAre DEF TreeInv
  <2>2. QED
    BY <1>0, <1>3, <2>1 DEF TreeInv, SessionScopes, Session
<1>13. Tied'
  BY <1>0 DEF TreeInv, Tied
<1>14. QED
  BY <1>4, <1>5, <1>6, <1>7, <1>8, <1>9, <1>10, <1>11, <1>12, <1>13 DEF TreeInv

\* The process ends, or a call returns to its caller.
LEMMA ReturnKeeps ==
    ASSUME TreeShape, TreeInv,
           \/ EndProcess
           \/ \E c \in Creators : Undone(c)
           \/ \E c \in Closers \cup Sweepers : Return(c)
    PROVE  TreeInv'
<1> USE DEF agentVars, flagVars, scopeVars, regVars, memoVars, callVars, histVars, envVars
<1>0. /\ UNCHANGED <<agentVars, flagVars, scopeVars, regVars, memo, new, work, histVars, faults>>
      /\ \/ UNCHANGED pc
         \/ \E c \in Creators : pc[c] = "undo" /\ work[c] = <<>> /\ Goto(c, "ready")
         \/ \E c \in Closers \cup Sweepers : pc[c] = "closing" /\ work[c] = <<>> /\ Goto(c, "returned")
  BY DEF EndProcess, Undone, Return
<1>1. ended' \in BOOLEAN /\ agentMu' \in Creators \cup {Nobody}
  BY DEF EndProcess, Undone, Return, TreeInv, Typed, TypeOK
<1>2. Steps' = Steps /\ CleanupSteps' = CleanupSteps
  BY <1>0 DEF Steps, CleanupSteps
<1>3. pc \in [Callers -> {"ready", "publish", "setup", "start", "finish", "undo", "closing", "returned"}]
  BY DEF TreeInv, Typed, TypeOK
<1>4. /\ pc' \in [Callers -> {"ready", "publish", "setup", "start", "finish", "undo", "closing", "returned"}]
      /\ \A c \in Callers :
            \/ pc'[c] = pc[c]
            \/ /\ pc[c] \in {"undo", "closing"} /\ work[c] = <<>> /\ pc'[c] \in {"ready", "returned"}
               /\ pc'[c] = "returned" => pc[c] = "closing"
  <2>1. CASE UNCHANGED pc
    BY <2>1, <1>3
  <2>2. ASSUME NEW c \in Creators, pc[c] = "undo", work[c] = <<>>, Goto(c, "ready") PROVE <1>4!1 /\ <1>4!2
    BY <2>2, <1>3, Names DEF Goto
  <2>3. ASSUME NEW c \in Closers \cup Sweepers, pc[c] = "closing", work[c] = <<>>, Goto(c, "returned")
        PROVE  <1>4!1 /\ <1>4!2
    BY <2>3, <1>3, Names DEF Goto
  <2>4. QED
    BY <2>1, <2>2, <2>3, <1>0
<1>5. Typed'
  BY <1>0, <1>1, <1>2, <1>4 DEF TreeInv, Typed, TypeOK
<1>6. AtRest'
  BY <1>0, <1>4 DEF TreeInv, AtRest
<1>7. Instances'
  BY <1>0 DEF TreeInv, Instances, Session
<1>8. Creations'
  BY <1>0, <1>4, Names DEF TreeInv, Creations
<1>9. Publishing'
  BY <1>0, <1>4, Names DEF TreeInv, Publishing
<1>10. Swept'
  BY <1>0, <1>4, Names DEF TreeInv, Swept, Holds
<1>11. Accounted'
  <2>1. \A c \in Creators : pc[c] = "publish" => pc'[c] = "publish"
    BY <1>4, Names
  <2>2. QED
    BY <1>0, <2>1 DEF TreeInv, Accounted, InWork, Holds
<1>12. EndedOnce'
  BY <1>0 DEF TreeInv, EndedOnce, Holds
<1>13. SessionScopes'
  BY <1>0 DEF TreeInv, SessionScopes, Session
<1>14. Tied'
  BY <1>0 DEF TreeInv, Tied
<1>15. QED
  BY <1>5, <1>6, <1>7, <1>8, <1>9, <1>10, <1>11, <1>12, <1>13, <1>14 DEF TreeInv

\* The two steps that end an Agent, where its end begins: at the head of a call
\* or as a call of their own.
LEMMA EndingPair ==
    ASSUME TreeShape, Typed, NEW i \in 1 .. made
    PROVE  /\ <<Step("scope", i), Step("done", i)>> \in Seq(Steps)
           /\ Range(<<Step("scope", i), Step("done", i)>>) = {Step("scope", i), Step("done", i)}
           /\ Before(<<Step("scope", i), Step("done", i)>>, Step("scope", i), Step("done", i))
           /\ After(<<Step("scope", i), Step("done", i)>>, Step("scope", i), Step("done", i))
<1> DEFINE a == Step("scope", i)
           b == Step("done", i)
<1>1. a \in Steps /\ b \in Steps /\ a # b
  BY StepKinds, StepIs
<1> HIDE DEF a, b
<1>2. <<a, b>> \in Seq(Steps) /\ Len(<<a, b>>) = 2 /\ <<a, b>>[1] = a /\ <<a, b>>[2] = b
  BY <1>1
<1>3. Before(<<a, b>>, a, b) /\ After(<<a, b>>, a, b)
  BY <1>1, <1>2 DEF Before, After
<1>4. QED
  BY <1>2, <1>3, ShortRanges DEF a, b

\* A driver leaves and disposes of its Agent.
LEMMA LeaveKeeps ==
    ASSUME TreeShape, TreeInv, NEW i \in Agents, Exit(i) \/ Fail(i)
    PROVE  TreeInv'
<1> USE DEF flagVars, scopeVars, regVars, memoVars, callVars, histVars, envVars
<1> DEFINE t == <<Step("scope", i), Step("done", i)>>
<1>0. /\ driver[i] = "idle" /\ closed' = closed \cup {i} /\ driver' = [driver EXCEPT ![i] = "exit"] /\ Do(i, t)
      /\ UNCHANGED <<made, id, parent, disposed, done, scopeVars, regVars, memoVars, callVars, histVars, ended>>
  BY DEF Exit, Fail, Leave
<1>1. faults' \in 0 .. MaxFaults
  <2>1. faults \in 0 .. MaxFaults /\ MaxFaults \in Nat
    BY DEF TreeInv, Typed, TypeOK, TreeShape
  <2>2. faults' = faults \/ (faults < MaxFaults /\ faults' = faults + 1)
    BY DEF Exit, Fail
  <2>3. QED
    BY <2>1, <2>2
<1>2. Steps' = Steps /\ CleanupSteps' = CleanupSteps
  BY <1>0 DEF Steps, CleanupSteps
<1>3. i \in 1 .. made /\ i \in Procs /\ i # 0 /\ work[i] = <<>>
  BY <1>0, Names DEF TreeInv, Instances, AtRest
<1>4. t \in Seq(Steps) /\ Range(t) = {Step("scope", i), Step("done", i)}
      /\ Before(t, Step("scope", i), Step("done", i)) /\ After(t, Step("scope", i), Step("done", i))
  BY <1>3, EndingPair DEF TreeInv
<1> HIDE DEF t
<1>5. /\ work' \in [Procs -> Seq(Steps)] /\ work'[i] = t
      /\ \A q \in Procs : q # i => work'[q] = work[q]
      /\ \A q \in Procs : \A e : e \in Range(work'[q]) <=> Holds(q, e) \/ (q = i /\ e \in Range(t))
      /\ \A q \in Procs : \A a, b : Before(work[q], a, b) /\ b \notin Range(t) => Before(work'[q], a, b)
      /\ \A q \in Procs : \A a, b : After(work[q], a, b) /\ a \notin Range(t) => After(work'[q], a, b)
  BY <1>0, <1>3, <1>4, CallBegins DEF TreeInv
<1>6. /\ driver' \in [Agents -> {"none", "idle", "turn", "exit", "gone"}]
      /\ driver'[i] = "exit" /\ \A j \in Agents : j # i => driver'[j] = driver[j]
  BY <1>0 DEF TreeInv, Typed, TypeOK
<1>7. Typed'
  BY <1>0, <1>1, <1>2, <1>5, <1>6 DEF TreeInv, Typed, TypeOK
<1>8. AtRest'
  <2>1. \A c \in Callers : c # i /\ c \in Procs
    BY Names
  <2>2. QED
    BY <1>0, <1>5, <1>6, <2>1, Names DEF TreeInv, AtRest
<1>9. Instances'
  BY <1>0, <1>3, <1>6 DEF TreeInv, Instances, Session
<1>10. Creations'
  <2>1. \A c \in Creators : new[c] # None => new[c] \in Agents
    BY Names, MadeAre DEF TreeInv, Instances
  <2>2. QED
    BY <1>0, <1>6, <2>1 DEF TreeInv, Creations
<1>11. Publishing'
  BY <1>0 DEF TreeInv, Publishing
<1>12. Swept'
  <2>1. Step("scope", Root) \notin Range(t)
    BY <1>3, <1>4, StepIs, Names
  <2>2. \A q \in Procs : Holds(q, Step("scope", Root))' => Holds(q, Step("scope", Root))
    BY <1>5, <2>1 DEF Holds, Root
  <2>3. QED
    BY <1>0, <2>2 DEF TreeInv, Swept
<1>13. Accounted'
  <2>1. \A q \in Procs : \A e : Holds(q, e) => e \in Range(work'[q])
    BY <1>5
  <2>2. \A j : InWork(j) => InWork(j)'
    BY <2>1 DEF InWork, Holds
  <2>3. \A j \in disposed : j \in done \/ \E q \in Procs : Step("done", j) \in Range(work'[q])
    BY <2>1 DEF TreeInv, Accounted
  <2>4. QED
    BY <1>0, <2>2, <2>3 DEF TreeInv, Accounted, Holds
<1>14. EndedOnce'
  <2> SUFFICES ASSUME NEW j \in Agents PROVE EndedOnce!(j)'
    BY DEF EndedOnce
  <2>1. CASE j # i
    <3>1. \A q \in Procs : Holds(q, Step("done", j))' <=> Holds(q, Step("done", j))
      BY <1>4, <1>5, <2>1, StepIs DEF Holds
    <3>2. Step("done", j) \notin Range(t)
      BY <1>4, <2>1, StepIs
    <3>3. QED
      BY <1>0, <1>5, <1>6, <2>1, <3>1, <3>2 DEF TreeInv, EndedOnce
  <2>2. CASE j = i
    <3>1. \A q \in Procs : ~Holds(q, Step("done", i))
      BY <1>0 DEF TreeInv, EndedOnce
    <3>2. \A q \in Procs : Holds(q, Step("done", i))' => q = i
      BY <1>5, <3>1 DEF Holds
    <3>3. \A q \in Procs : Before(work'[q], Step("scope", i), Step("done", i)) \/ i \in scopeClosed
      BY <1>4, <1>5 DEF TreeInv, EndedOnce
    <3>4. QED
      BY <1>0, <1>6, <2>2, <3>2, <3>3 DEF TreeInv, EndedOnce
  <2>3. QED
    BY <2>1, <2>2
<1>15. SessionScopes'
  <2> SUFFICES ASSUME ~registryClosed, NEW p \in 1 .. made, Session(id[p])
               PROVE  /\ p \in scopeClosed => p \in closed' /\ driver'[p] \in {"none", "exit", "gone"}
                      /\ \A q \in Procs : After(work'[q], Step("scope", p), Step("done", p))
    BY <1>0 DEF SessionScopes, Session
  <2>1. p \in Agents
    BY MadeAre DEF TreeInv
  <2>2. p \in scopeClosed => p \in closed' /\ driver'[p] \in {"none", "exit", "gone"}
    BY <1>0, <1>6, <2>1 DEF TreeInv, SessionScopes
  <2>3. ASSUME NEW q \in Procs PROVE After(work'[q], Step("scope", p), Step("done", p))
    <3>1. After(work[q], Step("scope", p), Step("done", p))
      BY DEF TreeInv, SessionScopes
    <3>2. CASE p # i
      BY <1>4, <1>5, <3>1, <3>2, StepIs
    <3>3. CASE p = i
      BY <1>4, <1>5, <3>1, <3>3
    <3>4. QED
      BY <3>2, <3>3
  <2>4. QED
    BY <2>2, <2>3
<1>16. Tied'
  <2> SUFFICES ASSUME NEW j \in 1 .. made, agents[id[j]] = j, parent[j] # Root, parent[j] \in scopeClosed,
                      NEW q \in Procs
               PROVE  Before(work'[q], Step("unregister", id[j]), Step("done", parent[j]))
    BY <1>0 DEF TreeInv, Tied
  <2>1. id[j] \in Ids /\ agents[id[j]] # None
    BY Names, MadeAre DEF TreeInv, Instances
  <2>2. ~registryClosed
    BY <2>1 DEF TreeInv, Swept
  <2>3. parent[j] # i
    BY <1>0, <2>2 DEF TreeInv, SessionScopes, Instances
  <2>4. QED
    BY <1>4, <1>5, <2>3, StepIs DEF TreeInv, Tied
<1>17. QED
  BY <1>7, <1>8, <1>9, <1>10, <1>11, <1>12, <1>13, <1>14, <1>15, <1>16 DEF TreeInv

\* Create: a new instance, not yet published.
LEMMA CreateKeeps ==
    ASSUME TreeShape, TreeInv, NEW c \in Creators, NEW x \in Ids, Create(c, x)
    PROVE  TreeInv'
<1> USE DEF flagVars, histVars, envVars
<1> DEFINE i == made + 1
           above == IF Session(x) THEN Root ELSE agents[ParentOf[x]]
<1>0. /\ pc[c] = "ready" /\ made < MaxAgents /\ regMu = Nobody /\ ~registryClosed /\ agents[x] = None
      /\ ~Session(x) => above # None
      /\ made' = i /\ id' = [id EXCEPT ![i] = x] /\ parent' = [parent EXCEPT ![i] = above]
      /\ NewScope(i, above) /\ regMu' = c
      /\ agentMu' \in {c, agentMu} /\ memo' \in {memo, [memo EXCEPT ![x] = None]}
      /\ new' = [new EXCEPT ![c] = i] /\ Goto(c, "publish")
      /\ UNCHANGED <<driver, flagVars, cleanups, agents, registryClosed, work, histVars, envVars>>
  BY DEF Create
<1>1. /\ made \in Nat /\ i \in Agents /\ i \in 1 .. i /\ i \notin 1 .. made /\ 1 .. i = (1 .. made) \cup {i}
      /\ 0 .. made \subseteq 0 .. i /\ i # 0 /\ 1 .. made \subseteq Agents /\ i \in Scopes /\ c \in Callers
  BY <1>0, MadeAre, Names DEF TreeInv
<1>2. /\ id \in [Agents -> Ids \cup {Nobody}] /\ parent \in [Agents -> Scopes] /\ kids \in [Scopes -> Seq(Agents)]
      /\ memo \in [Ids -> Scopes] /\ new \in [Creators -> Scopes] /\ scopeClosed \subseteq Scopes
      /\ pc \in [Callers -> {"ready", "publish", "setup", "start", "finish", "undo", "closing", "returned"}]
  BY DEF TreeInv, Typed, TypeOK
<1>3. above \in 0 .. made /\ above \in Scopes /\ above # i
      /\ (above # Root => above \in 1 .. made /\ ~Session(x) /\ Session(id[above]))
  <2>1. CASE Session(x)
    BY <2>1, <1>1, Names
  <2>2. CASE ~Session(x)
    <3>1. ParentOf[x] \in Ids /\ Session(ParentOf[x])
      BY <2>2 DEF TreeShape, Session
    <3>2. above = agents[ParentOf[x]] /\ above # None
      BY <2>2, <1>0
    <3>3. above \in 1 .. made /\ id[above] = ParentOf[x]
      BY <3>1, <3>2 DEF TreeInv, Instances
    <3>4. QED
      BY <2>2, <3>1, <3>2, <3>3, <1>1, Names
  <2>3. QED
    BY <2>1, <2>2
<1> HIDE DEF above
<1>4. /\ id' \in [Agents -> Ids \cup {Nobody}] /\ id'[i] = x /\ \A j \in Agents : j # i => id'[j] = id[j]
      /\ parent' \in [Agents -> Scopes] /\ parent'[i] = above /\ \A j \in Agents : j # i => parent'[j] = parent[j]
      /\ new' \in [Creators -> Scopes] /\ new'[c] = i /\ \A d \in Creators : d # c => new'[d] = new[d]
      /\ memo' \in [Ids -> Scopes] /\ \A y \in Ids : memo'[y] = memo[y] \/ memo'[y] = 0
  <2>1. /\ id' \in [Agents -> Ids \cup {Nobody}] /\ id'[i] = x /\ \A j \in Agents : j # i => id'[j] = id[j]
        /\ parent' \in [Agents -> Scopes] /\ parent'[i] = above /\ \A j \in Agents : j # i => parent'[j] = parent[j]
    BY <1>0, <1>1, <1>2, <1>3
  <2>2. new' \in [Creators -> Scopes] /\ new'[c] = i /\ \A d \in Creators : d # c => new'[d] = new[d]
    BY <1>0, <1>1, <1>2
  <2>3. memo' \in [Ids -> Scopes] /\ \A y \in Ids : memo'[y] = memo[y] \/ memo'[y] = 0
    <3>1. 0 \in Scopes /\ None = 0
      BY Names
    <3>2. CASE memo' = memo
      BY <3>2, <1>2
    <3>3. CASE memo' = [memo EXCEPT ![x] = None]
      BY <3>1, <3>3, <1>2
    <3>4. QED
      BY <3>2, <3>3, <1>0
  <2>4. QED
    BY <2>1, <2>2, <2>3
<1>5. /\ pc' \in [Callers -> {"ready", "publish", "setup", "start", "finish", "undo", "closing", "returned"}]
      /\ pc'[c] = "publish" /\ \A d \in Callers : d # c => pc'[d] = pc[d]
  BY <1>0, <1>1, <1>2 DEF Goto
<1>6. /\ kids' \in [Scopes -> Seq(Agents)]
      /\ \A s \in Scopes : \A k \in Range(kids'[s]) : k \in Range(kids[s]) \/ (k = i /\ s = above)
  <2>1. CASE UNCHANGED kids
    BY <2>1, <1>2
  <2>2. CASE kids' = [kids EXCEPT ![above] = Append(@, i)]
    <3>1. /\ kids' \in [Scopes -> Seq(Agents)] /\ kids'[above] = Append(kids[above], i)
          /\ \A s \in Scopes : s # above => kids'[s] = kids[s]
      BY <2>2, <1>1, <1>2, <1>3
    <3>2. Range(Append(kids[above], i)) \subseteq Range(kids[above]) \cup {i}
      <4>1. kids[above] \in Seq(Agents)
        BY <1>2, <1>3
      <4>2. QED
        BY <4>1, <1>1, AppendedRange
    <3>3. QED
      BY <3>1, <3>2
  <2>3. QED
    BY <2>1, <2>2, <1>0 DEF NewScope
<1>7. scopeClosed' \subseteq Scopes /\ scopeClosed \subseteq scopeClosed' /\ scopeClosed' \subseteq scopeClosed \cup {i}
      /\ (i \in scopeClosed' => i \in scopeClosed \/ above \in scopeClosed)
  BY <1>0, <1>1, <1>2 DEF NewScope
<1>8. \A q \in Procs : \A d : ~Holds(q, Step(d, i)) \/ d = "unregister"
  <2> SUFFICES ASSUME NEW q \in Procs, NEW d, d # "unregister", Holds(q, Step(d, i)) PROVE FALSE
    OBVIOUS
  <2>1. work[q] \in Seq(Steps)
    BY DEF TreeInv, Typed
  <2>2. Step(d, i) \in Steps
    BY <2>1, RangeOfList DEF Holds
  <2>3. Step(d, i).do = d /\ Step(d, i).on = i
    BY DEF Step
  <2>4. i \in 0 .. made
    BY <2>2, <2>3, StepKinds, <1>1
  <2>5. QED
    BY <2>4, <1>1
<1> HIDE DEF i
<1>9. Typed'
  <2>1. Steps \subseteq Steps' /\ CleanupSteps \subseteq CleanupSteps'
    BY <1>0, <1>1 DEF Steps, CleanupSteps
  <2>2. Seq(Steps) \subseteq Seq(Steps') /\ Seq(CleanupSteps) \subseteq Seq(CleanupSteps')
    BY <2>1, SeqGrows
  <2>3. work' \in [Procs -> Seq(Steps')] /\ cleanups' \in [Scopes -> Seq(CleanupSteps')]
    BY <1>0, <2>2 DEF TreeInv, Typed
  <2>4. made' \in Scopes /\ regMu' \in Creators \cup {Nobody} /\ agentMu' \in Creators \cup {Nobody}
    BY <1>0, <1>1 DEF TreeInv, Typed, TypeOK
  <2>5. TypeOK'
    BY <1>0, <1>4, <1>5, <1>6, <1>7, <2>4 DEF TreeInv, Typed, TypeOK
  <2>6. QED
    BY <2>3, <2>5 DEF Typed
<1>10. AtRest'
  BY <1>0, <1>5 DEF TreeInv, AtRest
<1>11. Instances'
  <2>1. \A j \in 1 .. i : id'[j] \in Ids
    BY <1>1, <1>4 DEF TreeInv, Instances
  <2>2. ASSUME NEW j \in 1 .. i, parent'[j] # Root
        PROVE  parent'[j] \in 1 .. i /\ ~Session(id'[j]) /\ Session(id'[parent'[j]])
    <3>1. CASE j = i
      BY <3>1, <2>2, <1>1, <1>3, <1>4
    <3>2. CASE j \in 1 .. made
      <4>1. parent[j] # Root /\ j # i
        BY <3>2, <2>2, <1>1, <1>4
      <4>2. parent[j] \in 1 .. made /\ ~Session(id[j]) /\ Session(id[parent[j]])
        BY <3>2, <4>1 DEF TreeInv, Instances
      <4>3. QED
        BY <3>2, <4>1, <4>2, <1>1, <1>4
    <3>3. QED
      BY <3>1, <3>2, <1>1, <2>2
  <2>3. ASSUME NEW j \in Agents, parent'[j] # Root PROVE j \in 1 .. i
    BY <2>3, <1>1, <1>4 DEF TreeInv, Instances
  <2>4. ASSUME NEW j \in Agents, driver[j] # "none" PROVE j \in 1 .. i
    BY <2>4, <1>1 DEF TreeInv, Instances
  <2>5. ASSUME NEW s \in Scopes, NEW k \in Range(kids'[s]) PROVE k \in 1 .. i /\ parent'[k] = s
    <3>1. CASE k = i /\ s = above
      BY <3>1, <1>1, <1>4
    <3>2. CASE k \in Range(kids[s])
      <4>1. k \in 1 .. made /\ parent[k] = s
        BY <3>2 DEF TreeInv, Instances
      <4>2. QED
        BY <4>1, <1>1, <1>4
    <3>3. QED
      BY <3>1, <3>2, <1>6
  <2>6. ASSUME NEW y \in Ids, agents[y] # None PROVE agents[y] \in 1 .. i /\ id'[agents[y]] = y
    <3>1. agents[y] \in 1 .. made /\ id[agents[y]] = y
      BY <2>6 DEF TreeInv, Instances
    <3>2. QED
      BY <3>1, <1>1, <1>4
  <2>7. \A y \in Ids : memo'[y] \in 0 .. i
    <3>1. \A y \in Ids : memo[y] \in 0 .. made
      BY DEF TreeInv, Instances
    <3>2. 0 \in 0 .. i
      BY <1>1
    <3>3. QED
      BY <3>1, <3>2, <1>1, <1>4
  <2>8. \A d \in Creators : new'[d] \in 0 .. i
    <3>1. \A d \in Creators : new[d] \in 0 .. made
      BY DEF TreeInv, Instances
    <3>2. i \in 0 .. i
      BY <1>1
    <3>3. QED
      BY <3>1, <3>2, <1>1, <1>4
  <2>9. scopeClosed' \subseteq 0 .. i
    <3>1. scopeClosed \subseteq 0 .. made
      BY DEF TreeInv, Instances
    <3>2. i \in 0 .. i
      BY <1>1
    <3>3. QED
      BY <3>1, <3>2, <1>1, <1>7
  <2>10. QED
    BY <1>0, <2>1, <2>2, <2>3, <2>4, <2>5, <2>6, <2>7, <2>8, <2>9 DEF Instances, Session
<1>12. Creations'
  <2>1. driver[i] = "none"
    BY <1>1 DEF TreeInv, Instances
  <2>2. \A d \in Creators : new[d] # i
    <3>1. \A d \in Creators : new[d] \in 0 .. made
      BY DEF TreeInv, Instances
    <3>2. i \notin 0 .. made
      BY <1>1
    <3>3. QED
      BY <3>1, <3>2
  <2>3. \A d \in Creators : d \in Callers
    BY Names
  <2>4. ASSUME NEW d \in Creators, pc'[d] \in {"publish", "setup", "start"}
        PROVE  new'[d] # None /\ driver[new'[d]] = "none"
    BY <1>1, <1>4, <1>5, <2>1, <2>3, <2>4, Names DEF TreeInv, Creations
  <2>5. ASSUME NEW d \in Creators, NEW e \in Creators, new'[d] = new'[e], new'[d] # None PROVE d = e
    BY <1>4, <2>2, <2>5 DEF TreeInv, Creations
  <2>6. QED
    BY <1>0, <2>4, <2>5 DEF Creations
<1>13. Publishing'
  <2>1. id'[i] = x /\ agents[x] = None /\ new'[c] = i
    BY <1>0, <1>4
  <2>2. \A d \in Creators : pc[d] # "publish" /\ d \in Callers /\ d # Nobody
    BY <1>0, Names DEF TreeInv, Publishing
  <2>3. QED
    BY <1>0, <1>5, <2>1, <2>2 DEF Publishing
<1>14. Swept'
  <2>1. \A d \in Sweepers : pc'[d] \in {"closing", "returned"} => pc[d] \in {"closing", "returned"}
    BY <1>5, Names
  <2>2. Root \notin scopeClosed'
    BY <1>0, <1>1, <1>7, Names DEF TreeInv, Swept
  <2>3. QED
    BY <1>0, <2>1, <2>2 DEF TreeInv, Swept, Holds
<1>15. Accounted'
  <2>1. ASSUME NEW j \in 1 .. i
        PROVE  \/ agents[id'[j]] = j \/ j \in done \/ InWork(j)'
               \/ \E d \in Creators : new'[d] = j /\ pc'[d] = "publish"
    <3>1. CASE j = i
      BY <3>1, <1>4, <1>5
    <3>2. CASE j \in 1 .. made
      <4>1. id'[j] = id[j]
        BY <3>2, <1>1, <1>4
      <4>2. \A d \in Creators : pc[d] # "publish"
        BY <1>0, Names DEF TreeInv, Publishing
      <4>3. InWork(j) => InWork(j)'
        BY <1>0 DEF InWork, Holds
      <4>4. QED
        BY <3>2, <4>1, <4>2, <4>3 DEF TreeInv, Accounted
    <3>3. QED
      BY <3>1, <3>2, <1>1
  <2>2. QED
    BY <1>0, <2>1 DEF TreeInv, Accounted, Holds
<1>16. EndedOnce'
  <2>1. \A j \in Agents : j \notin scopeClosed' => j \notin scopeClosed
    BY <1>7
  <2>2. \A j \in Agents : j \in done => j \in scopeClosed'
    BY <1>7 DEF TreeInv, EndedOnce
  <2>3. QED
    BY <1>0, <2>1, <2>2 DEF TreeInv, EndedOnce, Holds
<1>17. SessionScopes'
  <2> SUFFICES ASSUME NEW p \in 1 .. i, Session(id'[p])
               PROVE  /\ p \in scopeClosed' => p \in closed /\ driver[p] \in {"none", "exit", "gone"}
                      /\ \A q \in Procs : After(work[q], Step("scope", p), Step("done", p))
    BY <1>0 DEF SessionScopes, Session
  <2>1. CASE p = i
    <3>1. i \notin scopeClosed'
      <4>1. Session(x)
        BY <2>1, <1>4
      <4>2. above = Root
        BY <1>3, <4>1
      <4>3. i \notin scopeClosed /\ Root \notin scopeClosed
        BY <1>0, <1>1 DEF TreeInv, Instances, Swept
      <4>4. QED
        BY <4>2, <4>3, <1>7
    <3>2. ASSUME NEW q \in Procs PROVE After(work[q], Step("scope", p), Step("done", p))
      <4>1. work[q] \in Seq(Steps)
        BY DEF TreeInv, Typed
      <4>2. Step("scope", i) \notin Range(work[q])
        BY <1>8 DEF Holds
      <4>3. QED
        BY <4>1, <4>2, <2>1, NothingToOrder
    <3>3. QED
      BY <2>1, <3>1, <3>2
  <2>2. CASE p \in 1 .. made
    <3>1. p # i /\ id'[p] = id[p]
      BY <2>2, <1>1, <1>4
    <3>2. QED
      BY <2>2, <3>1, <1>0, <1>7 DEF TreeInv, SessionScopes
  <2>3. QED
    BY <2>1, <2>2, <1>1
<1>18. Tied'
  <2> SUFFICES ASSUME NEW j \in 1 .. i, agents[id'[j]] = j, parent'[j] # Root
               PROVE  /\ parent'[j] \notin done
                      /\ parent'[j] \notin scopeClosed' => Step("unregister", id'[j]) \in Range(cleanups[parent'[j]])
                      /\ parent'[j] \in scopeClosed' =>
                            \A q \in Procs : Before(work[q], Step("unregister", id'[j]), Step("done", parent'[j]))
    BY <1>0 DEF Tied
  <2>1. j # i
    BY <1>0, <1>1, <1>4, Names
  <2>2. j \in 1 .. made /\ id'[j] = id[j] /\ parent'[j] = parent[j] /\ parent[j] # Root
    BY <2>1, <1>1, <1>4
  <2>3. parent[j] \in 1 .. made
    BY <2>2 DEF TreeInv, Instances
  <2>4. parent[j] \in scopeClosed' <=> parent[j] \in scopeClosed
    BY <2>3, <1>1, <1>7
  <2>5. QED
    BY <2>2, <2>4 DEF TreeInv, Tied
<1>19. QED
  BY <1>9, <1>10, <1>11, <1>12, <1>13, <1>14, <1>15, <1>16, <1>17, <1>18 DEF TreeInv

\* A call that closes something begins: a close of an id or of a handle, or a
\* creator that rolls back; it gives up the registry's mutex if it held it.
LEMMA CallKeeps ==
    ASSUME TreeShape, TreeInv, NEW c \in Callers, NEW l, NEW e \in Steps,
           pc[c] \notin {"undo", "closing"}, l = "undo" \/ (l = "closing" /\ c \in Closers), Goto(c, l),
           e.do \in {"unregister", "close"}, Do(c, <<e>>),
           c \in Creators /\ pc[c] = "publish" => e = Step("close", new[c]) /\ regMu' = Nobody,
           ~(c \in Creators /\ pc[c] = "publish") => regMu' = regMu,
           UNCHANGED <<agentVars, flagVars, scopeVars, agents, registryClosed, memoVars, new, histVars, envVars>>
    PROVE  TreeInv'
<1> USE DEF agentVars, flagVars, scopeVars, memoVars, histVars, envVars
<1> DEFINE t == <<e>>
<1>1. Steps' = Steps /\ CleanupSteps' = CleanupSteps
  BY DEF Steps, CleanupSteps
<1>2. c \in Procs /\ work[c] = <<>> /\ t \in Seq(Steps) /\ Range(t) = {e} /\ Do(c, t)
  BY Names, ShortRanges DEF TreeInv, AtRest
<1>3. \A d \in {"scope", "done"} : \A x : Step(d, x) \notin Range(t)
  BY <1>2 DEF Step
<1> HIDE DEF t
<1>4. /\ work' \in [Procs -> Seq(Steps)] /\ work'[c] = t
      /\ \A q \in Procs : q # c => work'[q] = work[q]
      /\ \A q \in Procs : \A f : f \in Range(work'[q]) <=> Holds(q, f) \/ (q = c /\ f \in Range(t))
      /\ \A q \in Procs : \A a, b : Before(work[q], a, b) /\ b \notin Range(t) => Before(work'[q], a, b)
      /\ \A q \in Procs : \A a, b : After(work[q], a, b) /\ a \notin Range(t) => After(work'[q], a, b)
  BY <1>2, CallBegins DEF TreeInv
<1>5. /\ pc' \in [Callers -> {"ready", "publish", "setup", "start", "finish", "undo", "closing", "returned"}]
      /\ pc'[c] = l /\ \A d \in Callers : d # c => pc'[d] = pc[d]
  BY DEF TreeInv, Typed, TypeOK, Goto
<1>6. Typed'
  BY <1>1, <1>4, <1>5 DEF TreeInv, Typed, TypeOK
<1>7. AtRest'
  <2>1. \A i \in Agents : i # c /\ i \in Procs
    BY Names
  <2>2. QED
    BY <1>4, <1>5, <2>1, Names DEF TreeInv, AtRest
<1>8. Instances'
  BY DEF TreeInv, Instances, Session
<1>9. Creations'
  BY <1>5, Names DEF TreeInv, Creations
<1>10. Publishing'
  <2>1. ASSUME NEW d \in Creators PROVE pc'[d] = "publish" <=> regMu' = d
    <3>1. d \in Callers /\ d # Nobody /\ (pc[d] = "publish" <=> regMu = d)
      BY Names DEF TreeInv, Publishing
    <3>2. CASE c \in Creators /\ pc[c] = "publish"
      <4>1. regMu = c /\ regMu' = Nobody
        BY <3>2 DEF TreeInv, Publishing
      <4>2. QED
        BY <3>1, <4>1, <1>5
    <3>3. CASE ~(c \in Creators /\ pc[c] = "publish")
      BY <3>1, <3>3, <1>5
    <3>4. QED
      BY <3>2, <3>3
  <2>2. ASSUME NEW d \in Creators, pc'[d] = "publish" PROVE pc[d] = "publish"
    BY <2>2, <1>5, Names
  <2>3. QED
    BY <2>1, <2>2 DEF TreeInv, Publishing
<1>11. Swept'
  <2>1. \A d \in Sweepers : pc'[d] \in {"closing", "returned"} => pc[d] \in {"closing", "returned"}
    BY <1>5, Names
  <2>2. \A q \in Procs : Holds(q, Step("scope", Root))' => Holds(q, Step("scope", Root))
    BY <1>3, <1>4 DEF Holds, Root
  <2>3. QED
    BY <2>1, <2>2 DEF TreeInv, Swept
<1>12. Accounted'
  <2>1. \A q \in Procs : \A f : Holds(q, f) => f \in Range(work'[q])
    BY <1>4
  <2>2. \A j : InWork(j) => InWork(j)'
    BY <2>1 DEF InWork, Holds
  <2>3. \A j \in disposed : j \in done \/ \E q \in Procs : Step("done", j) \in Range(work'[q])
    BY <2>1 DEF TreeInv, Accounted
  <2>4. ASSUME NEW j, NEW d \in Creators, new[d] = j, pc[d] = "publish" PROVE pc'[d] = "publish" \/ InWork(j)'
    <3>1. CASE d = c
      <4>1. e = Step("close", j) /\ e \in Range(work'[c])
        BY <2>4, <3>1, <1>2, <1>4
      <4>2. QED
        BY <4>1, <1>2 DEF InWork, Holds
    <3>2. CASE d # c
      BY <2>4, <3>2, <1>5, Names
    <3>3. QED
      BY <3>1, <3>2
  <2>5. QED
    BY <2>2, <2>3, <2>4 DEF TreeInv, Accounted, Holds
<1>13. EndedOnce'
  <2>1. \A q \in Procs : \A j : Holds(q, Step("done", j))' <=> Holds(q, Step("done", j))
    BY <1>3, <1>4 DEF Holds
  <2>2. QED
    BY <1>3, <1>4, <2>1 DEF TreeInv, EndedOnce
<1>14. SessionScopes'
  BY <1>3, <1>4 DEF TreeInv, SessionScopes, Session
<1>15. Tied'
  BY <1>3, <1>4 DEF TreeInv, Tied
<1>16. QED
  BY <1>6, <1>7, <1>8, <1>9, <1>10, <1>11, <1>12, <1>13, <1>14, <1>15 DEF TreeInv

\* Publish: the child is registered and tied to its parent, or rolled back.
LEMMA PublishKeeps ==
    ASSUME TreeShape, TreeInv, NEW c \in Creators, Publish(c)
    PROVE  TreeInv'
<1> USE DEF agentVars, flagVars, memoVars, histVars, envVars
<1> DEFINE i == new[c]
           orphan == parent[i] # Root /\ parent[i] \in scopeClosed
<1>1. /\ pc[c] = "publish" /\ i # None /\ i \in 1 .. made /\ i \in Agents /\ c \in Callers
      /\ regMu = c /\ agents[id[i]] = None /\ ~registryClosed /\ id[i] \in Ids
  <2>1. pc[c] = "publish" /\ i # None /\ regMu = c /\ agents[id[i]] = None /\ ~registryClosed
    BY DEF Publish, TreeInv, Creations, Publishing
  <2>2. i \in 0 .. made /\ i # 0 /\ made \in Nat
    BY <2>1, Names, MadeAre DEF TreeInv, Instances
  <2>3. i \in 1 .. made
    BY <2>2
  <2>4. QED
    BY <2>1, <2>3, Names, MadeAre DEF TreeInv, Instances
<1>2. CASE orphan
  <2>1. Step("close", i) \in Steps
    BY <1>1, StepKinds
  <2>2. Step("close", i).do = "close"
    BY DEF Step
  <2>3. /\ Goto(c, "undo") /\ Do(c, <<Step("close", i)>>) /\ regMu' = Nobody
        /\ UNCHANGED <<agentVars, flagVars, scopeClosed, kids, cleanups, agents, registryClosed, memoVars, new, histVars, envVars>>
    BY <1>2 DEF Publish
  <2>4. QED
    BY <1>1, <2>1, <2>2, <2>3, CallKeeps DEF scopeVars
<1>3. CASE ~orphan
  <2> DEFINE e == Step("unregister", id[i])
  <2>0. /\ regMu' = Nobody /\ agents' = [agents EXCEPT ![id[i]] = i] /\ Goto(c, "setup") /\ UNCHANGED work
        /\ cleanups' = IF parent[i] = Root THEN cleanups ELSE [cleanups EXCEPT ![parent[i]] = Append(@, e)]
        /\ UNCHANGED <<agentVars, flagVars, scopeClosed, kids, registryClosed, memoVars, new, histVars, envVars>>
    BY <1>3 DEF Publish
  <2>1. Steps' = Steps /\ CleanupSteps' = CleanupSteps /\ e \in CleanupSteps
    BY <2>0, <1>1, StepKinds DEF Steps, CleanupSteps
  <2>2. /\ pc' \in [Callers -> {"ready", "publish", "setup", "start", "finish", "undo", "closing", "returned"}]
        /\ pc'[c] = "setup" /\ \A d \in Callers : d # c => pc'[d] = pc[d]
    BY <2>0, <1>1 DEF TreeInv, Typed, TypeOK, Goto
  <2>3. agents' \in [Ids -> Scopes] /\ agents'[id[i]] = i /\ \A x \in Ids : x # id[i] => agents'[x] = agents[x]
    BY <2>0, <1>1, Names DEF TreeInv, Typed, TypeOK
  <2>4. /\ cleanups' \in [Scopes -> Seq(CleanupSteps)]
        /\ \A s \in Scopes : Range(cleanups[s]) \subseteq Range(cleanups'[s])
        /\ parent[i] # Root => e \in Range(cleanups'[parent[i]])
    <3>1. cleanups \in [Scopes -> Seq(CleanupSteps)] /\ parent[i] \in Scopes
      BY <1>1 DEF TreeInv, Typed, TypeOK
    <3>2. CASE parent[i] = Root
      BY <3>1, <3>2, <2>0
    <3>3. CASE parent[i] # Root
      <4> DEFINE s0 == parent[i]
      <4>1. cleanups[s0] \in Seq(CleanupSteps)
        BY <3>1
      <4>2. /\ Append(cleanups[s0], e) \in Seq(CleanupSteps) /\ e \in Range(Append(cleanups[s0], e))
            /\ Range(cleanups[s0]) \subseteq Range(Append(cleanups[s0], e))
        BY <4>1, <2>1, AppendedRange
      <4>3. cleanups' = [cleanups EXCEPT ![s0] = Append(cleanups[s0], e)]
        BY <2>0, <3>3
      <4> HIDE DEF s0, e
      <4>4. /\ cleanups' \in [Scopes -> Seq(CleanupSteps)] /\ cleanups'[s0] = Append(cleanups[s0], e)
            /\ \A s \in Scopes : s # s0 => cleanups'[s] = cleanups[s]
        BY <4>2, <4>3, <3>1 DEF s0
      <4>5. QED
        BY <4>2, <4>4 DEF s0
    <3>4. QED
      BY <3>2, <3>3
  <2>5. Typed'
    BY <2>0, <2>1, <2>2, <2>3, <2>4 DEF TreeInv, Typed, TypeOK
  <2>6. AtRest'
    <3>1. work[c] = <<>>
      BY <1>1 DEF TreeInv, AtRest
    <3>2. QED
      BY <2>0, <2>2, <3>1 DEF TreeInv, AtRest
  <2>7. Instances'
    BY <2>0, <2>3, <1>1 DEF TreeInv, Instances, Session
  <2>8. Creations'
    BY <2>0, <2>2, <1>1, Names DEF TreeInv, Creations
  <2>9. Publishing'
    <3>1. \A d \in Creators : d # c => pc[d] # "publish" /\ d \in Callers
      BY <1>1, Names DEF TreeInv, Publishing
    <3>2. QED
      BY <2>0, <2>2, <3>1, Names DEF Publishing
  <2>10. Swept'
    BY <2>0, <2>2, <1>1, Names DEF TreeInv, Swept, Holds
  <2>11. Accounted'
    <3>1. ASSUME NEW j \in 1 .. made
          PROVE  \/ agents'[id[j]] = j \/ j \in done \/ InWork(j)
                 \/ \E d \in Creators : new[d] = j /\ pc'[d] = "publish"
      <4>1. CASE j = i
        BY <4>1, <2>3
      <4>2. CASE j # i
        <5>1. agents[id[j]] = j => agents'[id[j]] = j
          <6>1. id[j] \in Ids /\ j # 0
            BY MadeAre DEF TreeInv, Instances
          <6>2. agents[id[j]] = j => id[j] # id[i]
            BY <6>1, <1>1, Names
          <6>3. QED
            BY <6>1, <6>2, <2>3
        <5>2. \A d \in Creators : new[d] = j /\ pc[d] = "publish" => pc'[d] = "publish"
          BY <4>2, <2>2, Names
        <5>3. QED
          BY <5>1, <5>2 DEF TreeInv, Accounted
      <4>3. QED
        BY <4>1, <4>2
    <3>2. \A j : InWork(j) => InWork(j)'
      BY <2>0 DEF InWork, Holds
    <3>3. QED
      BY <2>0, <3>1, <3>2 DEF TreeInv, Accounted, Holds
  <2>12. EndedOnce'
    BY <2>0 DEF TreeInv, EndedOnce, Holds
  <2>13. SessionScopes'
    BY <2>0 DEF TreeInv, SessionScopes, Session
  <2>14. Tied'
    <3> SUFFICES ASSUME NEW j \in 1 .. made, agents'[id[j]] = j, parent[j] # Root
                 PROVE  /\ parent[j] \notin done
                        /\ parent[j] \notin scopeClosed => Step("unregister", id[j]) \in Range(cleanups'[parent[j]])
                        /\ parent[j] \in scopeClosed =>
                              \A q \in Procs : Before(work[q], Step("unregister", id[j]), Step("done", parent[j]))
      BY <2>0 DEF Tied
    <3>1. parent[j] \in Agents /\ parent[j] \in Scopes /\ id[j] \in Ids
      BY MadeAre, Names DEF TreeInv, Instances
    <3>2. CASE j = i
      <4>1. parent[i] \notin scopeClosed /\ parent[i] \notin done
        BY <1>3, <3>1, <3>2 DEF TreeInv, EndedOnce
      <4>2. QED
        BY <3>2, <4>1, <2>4
    <3>3. CASE j # i
      <4>1. id[j] # id[i] /\ agents[id[j]] = j
        BY <3>1, <3>3, <2>3
      <4>2. QED
        BY <3>1, <4>1, <2>4 DEF TreeInv, Tied
    <3>4. QED
      BY <3>2, <3>3
  <2>15. QED
    BY <2>5, <2>6, <2>7, <2>8, <2>9, <2>10, <2>11, <2>12, <2>13, <2>14 DEF TreeInv
<1>4. QED
  BY <1>2, <1>3

\* A creator's instance, at the places where it works on one.
LEMMA OwnInstance ==
    ASSUME TreeShape, TreeInv, NEW c \in Creators, new[c] # None
    PROVE  new[c] \in 1 .. made /\ new[c] \in Agents /\ new[c] \in Scopes /\ id[new[c]] \in Ids /\ c \in Callers
<1>1. new[c] \in 0 .. made /\ new[c] # 0 /\ made \in Nat
  BY Names, MadeAre DEF TreeInv, Instances
<1>2. new[c] \in 1 .. made
  BY <1>1
<1>3. QED
  BY <1>2, Names, MadeAre DEF TreeInv, Instances

\* Setup and Start that are refused.
LEMMA GiveUpKeeps ==
    ASSUME TreeShape, TreeInv, NEW c \in Creators, new[c] # None, pc[c] \in {"setup", "start", "finish"}, GiveUp(c),
           UNCHANGED <<agentVars, flagVars, scopeVars, regVars, memoVars, new, histVars, envVars>>
    PROVE  TreeInv'
<1> DEFINE e == Step("unregister", id[new[c]])
<1>1. e \in Steps /\ e.do = "unregister" /\ c \in Callers
  BY OwnInstance, StepKinds DEF Step
<1>2. Goto(c, "undo") /\ Do(c, <<e>>)
  BY DEF GiveUp
<1> HIDE DEF e
<1>3. QED
  BY <1>1, <1>2, CallKeeps DEF regVars

\* Setting an Agent up after its creation keeps the invariant, and so does
\* undoing the creation because the set-up failed.
LEMMA SetupKeeps ==
    ASSUME TreeShape, TreeInv, NEW c \in Creators, Setup(c)
    PROVE  TreeInv'
<1> USE DEF agentVars, flagVars, regVars, memoVars, histVars, envVars
<1> DEFINE i == new[c]
           x == id[i]
           t == (IF Session(x) THEN <<Step("forget", i)>> ELSE <<>>) \o <<Step("release", i)>>
<1>1. /\ i # None /\ pc[c] \in {"setup", "finish"}
      /\ i \in 1 .. made /\ i \in Agents /\ i \in Scopes /\ x \in Ids /\ c \in Callers
  BY OwnInstance DEF Setup
<1>2. CASE i \in scopeClosed
  <2>1. GiveUp(c) /\ UNCHANGED <<agentVars, flagVars, scopeVars, regVars, memoVars, new, histVars, envVars>>
    BY <1>2 DEF Setup, scopeVars
  <2>2. QED
    BY <1>1, <2>1, GiveUpKeeps
<1>3. CASE i \notin scopeClosed
  <2>0. /\ cleanups' = [cleanups EXCEPT ![i] = cleanups[i] \o t] /\ owned' = owned \cup {i} /\ UNCHANGED work
        /\ \E l \in {"start", "ready"} : Goto(c, l) /\ (l = "start" => pc[c] = "setup")
        /\ UNCHANGED <<agentVars, flagVars, scopeClosed, kids, regVars, memoVars, new, released, envVars>>
    <3>1. cleanups[i] \o t = cleanups[i] \o (IF Session(x) THEN <<Step("forget", i)>> ELSE <<>>) \o <<Step("release", i)>>
      <4>1. cleanups[i] \in Seq(CleanupSteps)
        BY <1>1 DEF TreeInv, Typed
      <4>2. /\ (IF Session(x) THEN <<Step("forget", i)>> ELSE <<>>) \in Seq(CleanupSteps)
            /\ <<Step("release", i)>> \in Seq(CleanupSteps)
        BY <1>1, StepKinds
      <4>3. ASSUME NEW a \in Seq(CleanupSteps), NEW b \in Seq(CleanupSteps), NEW d \in Seq(CleanupSteps)
            PROVE  a \o (b \o d) = a \o b \o d
        OBVIOUS
      <4>4. QED
        BY <4>1, <4>2, <4>3
    <3>2. cleanups' = [cleanups EXCEPT ![i] = cleanups[i] \o t]
      BY <1>3, <3>1 DEF Setup
    <3>3. Goto(c, IF Session(x) THEN "start" ELSE "ready") /\ pc[c] = (IF Session(x) THEN "setup" ELSE "finish")
      BY <1>3 DEF Setup
    <3>4. \E l \in {"start", "ready"} : Goto(c, l) /\ (l = "start" => pc[c] = "setup")
      <4>1. CASE Session(x)
        BY <3>3, <4>1
      <4>2. CASE ~Session(x)
        BY <3>3, <4>2
      <4>3. QED
        BY <4>1, <4>2
    <3>5. QED
      BY <1>3, <3>2, <3>4 DEF Setup
  <2>1. Steps' = Steps /\ CleanupSteps' = CleanupSteps
    BY <2>0 DEF Steps, CleanupSteps
  <2>2. t \in Seq(CleanupSteps)
    <3>1. Step("forget", i) \in CleanupSteps /\ Step("release", i) \in CleanupSteps
      BY <1>1, StepKinds
    <3>2. QED
      BY <3>1
  <2> HIDE DEF t
  <2>3. /\ cleanups' \in [Scopes -> Seq(CleanupSteps)]
        /\ \A s \in Scopes : Range(cleanups[s]) \subseteq Range(cleanups'[s])
    <3>1. cleanups \in [Scopes -> Seq(CleanupSteps)]
      BY DEF TreeInv, Typed
    <3>2. cleanups[i] \o t \in Seq(CleanupSteps) /\ Range(cleanups[i] \o t) = Range(cleanups[i]) \cup Range(t)
      BY <1>1, <2>2, <3>1, JoinedRange
    <3> HIDE DEF i
    <3>3. QED
      BY <1>1, <2>0, <3>1, <3>2
  <2>4. /\ pc' \in [Callers -> {"ready", "publish", "setup", "start", "finish", "undo", "closing", "returned"}]
        /\ pc'[c] \in {"start", "ready"} /\ (pc'[c] = "start" => pc[c] = "setup")
        /\ \A d \in Callers : d # c => pc'[d] = pc[d]
    BY <2>0, <1>1 DEF TreeInv, Typed, TypeOK, Goto
  <2>5. Typed'
    BY <2>0, <1>1, <2>1, <2>3, <2>4 DEF TreeInv, Typed, TypeOK
  <2>6. AtRest'
    BY <2>0, <1>1, <2>4 DEF TreeInv, AtRest
  <2>7. Instances'
    BY <2>0 DEF TreeInv, Instances, Session
  <2>8. Creations'
    BY <2>0, <2>4, <1>1, Names DEF TreeInv, Creations
  <2>9. Publishing'
    BY <2>0, <1>1, <2>4, Names DEF TreeInv, Publishing
  <2>10. Swept'
    BY <2>0, <2>4, <1>1, Names DEF TreeInv, Swept, Holds
  <2>11. Accounted'
    <3>1. \A d \in Creators : pc[d] = "publish" => pc'[d] = "publish"
      BY <1>1, <2>4, Names
    <3>2. QED
      BY <2>0, <3>1 DEF TreeInv, Accounted, InWork, Holds
  <2>12. EndedOnce'
    BY <2>0 DEF TreeInv, EndedOnce, Holds
  <2>13. SessionScopes'
    BY <2>0 DEF TreeInv, SessionScopes, Session
  <2>14. Tied'
    <3>1. \A j \in 1 .. made : parent[j] \in Scopes
      BY MadeAre DEF TreeInv, Typed, TypeOK
    <3>2. QED
      BY <2>0, <2>3, <3>1 DEF TreeInv, Tied
  <2>15. QED
    BY <2>5, <2>6, <2>7, <2>8, <2>9, <2>10, <2>11, <2>12, <2>13, <2>14 DEF TreeInv
<1>4. QED
  BY <1>2, <1>3

\* Starting the driver keeps the invariant, and so does finding that the Agent
\* was closed in the meantime.
LEMMA StartKeeps ==
    ASSUME TreeShape, TreeInv, NEW c \in Creators, Start(c)
    PROVE  TreeInv'
<1> USE DEF flagVars, scopeVars, regVars, histVars, envVars
<1> DEFINE i == new[c]
           x == id[i]
<1>1. /\ i # None /\ pc[c] \in {"setup", "start"}
      /\ i \in 1 .. made /\ i \in Agents /\ i \in Scopes /\ x \in Ids /\ c \in Callers
  BY OwnInstance DEF Start
<1>2. CASE ended \/ i \in closed
  <2>1. GiveUp(c) /\ UNCHANGED <<agentVars, flagVars, scopeVars, regVars, memoVars, new, histVars, envVars>>
    BY <1>2 DEF Start, agentVars
  <2>2. QED
    BY <1>1, <2>1, GiveUpKeeps
<1>3. CASE ~(ended \/ i \in closed)
  <2>0. /\ driver' = [driver EXCEPT ![i] = "idle"] /\ memo' \in {memo, [memo EXCEPT ![x] = i]} /\ UNCHANGED work
        /\ agentMu' \in {agentMu, Nobody} /\ \E l \in {"ready", "finish"} : Goto(c, l)
        /\ UNCHANGED <<made, id, parent, flagVars, scopeVars, regVars, new, histVars, envVars>>
    BY <1>3 DEF Start
  <2>1. Steps' = Steps /\ CleanupSteps' = CleanupSteps
    BY <2>0 DEF Steps, CleanupSteps
  <2>2. /\ pc' \in [Callers -> {"ready", "publish", "setup", "start", "finish", "undo", "closing", "returned"}]
        /\ pc'[c] \in {"ready", "finish"} /\ \A d \in Callers : d # c => pc'[d] = pc[d]
    BY <2>0, <1>1 DEF TreeInv, Typed, TypeOK, Goto
  <2>3. /\ driver' \in [Agents -> {"none", "idle", "turn", "exit", "gone"}] /\ driver[i] = "none"
        /\ driver'[i] = "idle" /\ \A j \in Agents : j # i => driver'[j] = driver[j]
    BY <2>0, <1>1 DEF TreeInv, Typed, TypeOK, Creations
  <2>4. memo' \in [Ids -> Scopes] /\ \A y \in Ids : memo'[y] \in {memo[y], i}
    BY <2>0, <1>1 DEF TreeInv, Typed, TypeOK
  <2>5. Typed'
    BY <2>0, <2>1, <2>2, <2>3, <2>4 DEF TreeInv, Typed, TypeOK
  <2>6. AtRest'
    BY <2>0, <1>1, <2>2, <2>3 DEF TreeInv, AtRest
  <2>7. Instances'
    <3>1. \A y \in Ids : memo'[y] \in 0 .. made
      <4>1. i \in 0 .. made
        BY <1>1
      <4>2. QED
        BY <4>1, <2>4 DEF TreeInv, Instances
    <3>2. QED
      BY <2>0, <1>1, <2>3, <3>1 DEF TreeInv, Instances, Session
  <2>8. Creations'
    <3>1. \A d \in Creators : d # c /\ new[d] # None => new[d] # i /\ new[d] \in Agents
      BY OwnInstance DEF TreeInv, Creations
    <3>2. QED
      BY <2>0, <2>2, <2>3, <3>1, <1>1, Names DEF TreeInv, Creations
  <2>9. Publishing'
    BY <2>0, <1>1, <2>2, Names DEF TreeInv, Publishing
  <2>10. Swept'
    BY <2>0, <2>2, <1>1, Names DEF TreeInv, Swept, Holds
  <2>11. Accounted'
    <3>1. \A d \in Creators : pc[d] = "publish" => pc'[d] = "publish"
      BY <1>1, <2>2, Names
    <3>2. QED
      BY <2>0, <3>1 DEF TreeInv, Accounted, InWork, Holds
  <2>12. EndedOnce'
    <3>1. \A q \in Procs : \A j \in Agents : Holds(q, Step("done", j)) => j # i
      BY <1>3 DEF TreeInv, EndedOnce
    <3>2. QED
      BY <2>0, <2>3, <3>1 DEF TreeInv, EndedOnce, Holds
  <2>13. SessionScopes'
    <3>1. 1 .. made \subseteq Agents
      BY MadeAre DEF TreeInv
    <3>2. QED
      BY <2>0, <2>3, <1>3, <3>1 DEF TreeInv, SessionScopes, Session
  <2>14. Tied'
    BY <2>0 DEF TreeInv, Tied
  <2>15. QED
    BY <2>5, <2>6, <2>7, <2>8, <2>9, <2>10, <2>11, <2>12, <2>13, <2>14 DEF TreeInv
<1>4. QED
  BY <1>2, <1>3

\* A call of Registry.Close or of Handle.Close begins.
LEMMA CallCloseKeeps ==
    ASSUME TreeShape, TreeInv, NEW c \in Closers, CallClose(c)
    PROVE  TreeInv'
<1>1. PICK e \in Steps : e.do \in {"unregister", "close"} /\ Do(c, <<e>>)
  <2>1. PICK x \in Ids : \/ agents[x] # None /\ Do(c, <<Step("unregister", x)>>)
                         \/ memo[x] # None /\ Do(c, <<Step("close", memo[x])>>)
    BY DEF CallClose
  <2>2. Step("unregister", x) \in Steps /\ Step("unregister", x).do = "unregister"
    BY StepKinds DEF Step
  <2>3. memo[x] # None => Step("close", memo[x]) \in Steps /\ Step("close", memo[x]).do = "close"
    <3>1. memo[x] \in 0 .. made /\ made \in Nat
      BY MadeAre DEF TreeInv, Instances
    <3>2. memo[x] # None => memo[x] \in 1 .. made
      BY <3>1, Names
    <3>3. QED
      BY <3>2, StepKinds DEF Step
  <2>4. QED
    BY <2>1, <2>2, <2>3
<1>2. /\ pc[c] = "ready" /\ Goto(c, "closing") /\ c \in Callers
      /\ UNCHANGED <<agentVars, flagVars, scopeVars, regVars, memoVars, new, histVars, envVars>>
  BY Names DEF CallClose
<1>3. QED
  BY <1>1, <1>2, CallKeeps DEF regVars

\* CloseAll empties the registry and takes the closing of every Agent on itself.
LEMMA CloseAllKeeps ==
    ASSUME TreeShape, TreeInv, NEW c \in Sweepers, CloseAll(c)
    PROVE  TreeInv'
<1> USE DEF agentVars, flagVars, scopeVars, memoVars, histVars, envVars
<1> DEFINE S == {agents[x] : x \in Ids} \ {None}
<1>0. /\ pc[c] = "ready" /\ regMu = Nobody /\ ~registryClosed /\ Goto(c, "closing")
      /\ registryClosed' = TRUE /\ agents' = [x \in Ids |-> None]
      /\ UNCHANGED <<agentVars, flagVars, scopeVars, regMu, memoVars, new, histVars, envVars>>
  BY DEF CloseAll
<1>1. c \in Callers /\ c \in Procs /\ work[c] = <<>>
  BY <1>0, Names DEF TreeInv, AtRest
<1>2. S \subseteq 1 .. made /\ IsFiniteSet(S) /\ Cardinality(S) \in Nat
  <2>1. S \subseteq 1 .. made
    BY DEF TreeInv, Instances
  <2>2. IsFiniteSet(1 .. made)
    BY MadeAre, FS_Interval DEF TreeInv
  <2>3. QED
    BY <2>1, <2>2, FS_Subset, FS_CardinalityType
<1>3. PICK order \in SetToSeqs(S) :
         Do(c, [n \in 1 .. Len(order) |-> Step("close", order[n])] \o <<Step("scope", Root)>>)
  BY DEF CloseAll
<1> DEFINE closes == [n \in 1 .. Len(order) |-> Step("close", order[n])]
           t == closes \o <<Step("scope", Root)>>
<1>4. /\ order \in Seq(S) /\ Len(order) = Cardinality(S)
      /\ \A j \in S : \E n \in 1 .. Len(order) : order[n] = j
  <2> HIDE DEF S
  <2> DEFINE D == 1 .. Cardinality(S)
  <2>1. order \in [D -> S] /\ \A i, j \in D : i # j => order[i] # order[j]
    BY DEF SetToSeqs
  <2>2. order \in Injection(D, S)
    BY <2>1 DEF Injection, IsInjective
  <2>3. IsFiniteSet(D) /\ Cardinality(D) = Cardinality(S)
    BY <1>2, FS_Interval
  <2>4. order \in Surjection(D, S)
    BY <2>2, <2>3, <1>2, FS_Injection
  <2>5. order \in Seq(S) /\ Len(order) = Cardinality(S)
    BY <2>1, <1>2
  <2>6. QED
    BY <2>4, <2>5 DEF Surjection
<1> HIDE DEF S
<1>5. closes \in Seq(Steps) /\ \A e : e \in Range(closes) <=> \E j \in S : e = Step("close", j)
  <2>1. Len(order) \in Nat /\ \A n \in 1 .. Len(order) : order[n] \in S /\ Step("close", order[n]) \in Steps
    <3>1. Len(order) \in Nat /\ \A n \in 1 .. Len(order) : order[n] \in S
      BY <1>2, <1>4
    <3>2. \A j \in S : Step("close", j) \in Steps
      BY <1>2, StepKinds
    <3>3. QED
      BY <3>1, <3>2
  <2>2. closes \in Seq(Steps) /\ Len(closes) = Len(order) /\ \A n \in 1 .. Len(order) : closes[n] = Step("close", order[n])
    BY <2>1
  <2> HIDE DEF closes
  <2>3. QED
    BY <1>4, <2>1, <2>2, RangeOfList
<1> HIDE DEF closes
<1>6. t \in Seq(Steps) /\ \A e : e \in Range(t) <=> e = Step("scope", Root) \/ \E j \in S : e = Step("close", j)
  <2>1. Step("scope", Root) \in Steps
    <3>1. 0 \in 0 .. made
      BY MadeAre DEF TreeInv
    <3>2. QED
      BY <3>1, Names DEF Steps, Step
  <2>2. <<Step("scope", Root)>> \in Seq(Steps) /\ Range(<<Step("scope", Root)>>) = {Step("scope", Root)}
    BY <2>1, ShortRanges
  <2>3. t \in Seq(Steps) /\ Range(t) = Range(closes) \cup Range(<<Step("scope", Root)>>)
    BY <1>5, <2>2, JoinedRange
  <2> HIDE DEF t
  <2>4. QED
    BY <1>5, <2>2, <2>3
<1>7. \A i \in Agents : Step("done", i) \notin Range(t)
  BY <1>6 DEF Step
<1>8. Do(c, t)
  BY <1>3 DEF closes
<1> HIDE DEF t
<1>9. Steps' = Steps /\ CleanupSteps' = CleanupSteps
  BY <1>0 DEF Steps, CleanupSteps
<1>10. /\ work' \in [Procs -> Seq(Steps)] /\ work'[c] = t
       /\ \A q \in Procs : q # c => work'[q] = work[q]
       /\ \A q \in Procs : \A f : f \in Range(work'[q]) <=> Holds(q, f) \/ (q = c /\ f \in Range(t))
       /\ \A q \in Procs : \A a, b : Before(work[q], a, b) /\ b \notin Range(t) => Before(work'[q], a, b)
       /\ \A q \in Procs : \A a, b : After(work[q], a, b) /\ a \notin Range(t) => After(work'[q], a, b)
  BY <1>1, <1>6, <1>8, CallBegins DEF TreeInv
<1>11. /\ pc' \in [Callers -> {"ready", "publish", "setup", "start", "finish", "undo", "closing", "returned"}]
       /\ pc'[c] = "closing" /\ \A d \in Callers : d # c => pc'[d] = pc[d]
  BY <1>0, <1>1 DEF TreeInv, Typed, TypeOK, Goto
<1>12. Typed'
  <2>1. agents' \in [Ids -> Scopes]
    BY <1>0, Names
  <2>2. QED
    BY <1>0, <1>9, <1>10, <1>11, <2>1 DEF TreeInv, Typed, TypeOK
<1>13. AtRest'
  <2>1. \A i \in Agents : i # c /\ i \in Procs
    BY <1>1, Names
  <2>2. QED
    BY <1>0, <1>10, <1>11, <2>1, Names DEF TreeInv, AtRest
<1>14. Instances'
  BY <1>0 DEF TreeInv, Instances, Session
<1>15. Creations'
  BY <1>0, <1>11, Names DEF TreeInv, Creations
<1>16. Publishing'
  <2>1. \A d \in Creators : d \in Callers /\ d # Nobody /\ pc[d] # "publish"
    BY <1>0, Names DEF TreeInv, Publishing
  <2>2. QED
    BY <1>0, <1>11, <2>1 DEF Publishing
<1>17. Swept'
  BY <1>0 DEF Swept
<1>18. Accounted'
  <2>1. \A q \in Procs : \A f : Holds(q, f) => f \in Range(work'[q])
    BY <1>10
  <2>2. \A j : InWork(j) => InWork(j)'
    BY <2>1 DEF InWork, Holds
  <2>3. \A j \in disposed : j \in done \/ \E q \in Procs : Step("done", j) \in Range(work'[q])
    BY <2>1 DEF TreeInv, Accounted
  <2>4. \A d \in Creators : pc[d] # "publish"
    BY <1>0, Names DEF TreeInv, Publishing
  <2>5. ASSUME NEW j \in 1 .. made, agents[id[j]] = j PROVE InWork(j)'
    <3>1. j \in S
      BY <2>5, MadeAre, Names DEF TreeInv, Instances, S
    <3>2. Step("close", j) \in Range(work'[c])
      BY <3>1, <1>1, <1>6, <1>10
    <3>3. QED
      BY <3>2, <1>1 DEF InWork, Holds
  <2>6. QED
    BY <1>0, <2>2, <2>3, <2>4, <2>5 DEF TreeInv, Accounted, Holds
<1>19. EndedOnce'
  <2>1. \A q \in Procs : \A j \in Agents : Holds(q, Step("done", j))' <=> Holds(q, Step("done", j))
    BY <1>7, <1>10 DEF Holds
  <2>2. QED
    BY <1>0, <1>7, <1>10, <2>1 DEF TreeInv, EndedOnce
<1>20. SessionScopes'
  BY <1>0 DEF SessionScopes
<1>21. Tied'
  <2>1. \A j \in 1 .. made : agents'[id[j]] # j
    BY <1>0, MadeAre, Names DEF TreeInv, Instances
  <2>2. QED
    BY <1>0, <2>1 DEF Tied
<1>22. QED
  BY <1>12, <1>13, <1>14, <1>15, <1>16, <1>17, <1>18, <1>19, <1>20, <1>21 DEF TreeInv

\* Await, Forget and Release: one step less.
LEMMA QuietStepKeeps ==
    ASSUME TreeShape, TreeInv, NEW p \in Procs, Await(p) \/ Forget(p) \/ Release(p)
    PROVE  TreeInv'
<1> USE DEF agentVars, flagVars, scopeVars, regVars, callVars, envVars
<1> DEFINE x == On(p)
<1>0. /\ UNCHANGED <<agentVars, flagVars, scopeVars, regVars, agentMu, callVars, owned, envVars>>
      /\ Replace(p, <<>>)
  BY DEF Await, Forget, Release, memoVars, histVars
<1>1. PICK d \in {"await", "forget", "release"} : Todo(p, d) /\ (d = "await" => x \in done)
  BY DEF Await, Forget, Release
<1>2. /\ work[p] \in Seq(Steps) /\ work[p] # <<>> /\ work[p][1] = Step(d, x) /\ x \in 1 .. made
      /\ p \in Callers => pc[p] \in {"undo", "closing"}
      /\ p \in Agents => driver[p] \notin {"none", "idle", "turn"}
  BY <1>1, FirstStep DEF TreeInv
<1>3. memo' \in [Ids -> Scopes] /\ \A y \in Ids : memo'[y] \in {memo[y], 0}
  <2>1. memo \in [Ids -> Scopes] /\ 0 \in Scopes
    BY Names, TreeAssumption DEF TreeInv, Typed, TypeOK
  <2>2. memo' = memo \/ memo' = [memo EXCEPT ![id[x]] = 0]
    BY Names DEF Await, Forget, Release, memoVars
  <2>3. QED
    BY <2>1, <2>2
<1>4. released' \in [Agents -> Nat]
  <2>1. released \in [Agents -> Nat] /\ x \in Agents
    BY <1>2, MadeAre DEF TreeInv, Typed, TypeOK
  <2>2. released' = released \/ released' = [released EXCEPT ![x] = released[x] + 1]
    BY DEF Await, Forget, Release, histVars
  <2>3. QED
    BY <2>1, <2>2
<1> HIDE DEF x
<1>5. Steps' = Steps /\ CleanupSteps' = CleanupSteps
  BY <1>0 DEF Steps, CleanupSteps
<1>6. <<>> \in Seq(Steps) /\ Range(<<>>) = {}
  BY ShortRanges
<1>7. /\ work' \in [Procs -> Seq(Steps)]
      /\ \A q \in Procs : q # p => work'[q] = work[q]
      /\ \A q \in Procs : \A e : e \in Range(work'[q]) => Holds(q, e)
      /\ \A q \in Procs : \A e : Holds(q, e) => e \in Range(work'[q]) \/ (q = p /\ e = work[p][1])
      /\ \A q \in Procs : \A a, b : Before(work[q], a, b) /\ work[p][1] # a => Before(work'[q], a, b)
      /\ \A q \in Procs : \A a, b : After(work[q], a, b) => After(work'[q], a, b)
  BY <1>0, <1>2, <1>6, CallGoesOn DEF TreeInv
<1>8. Typed'
  BY <1>0, <1>3, <1>4, <1>5, <1>7 DEF TreeInv, Typed, TypeOK
<1>9. AtRest'
  BY <1>0, <1>2, <1>7, Names DEF TreeInv, AtRest
<1>10. Instances'
  <2>1. \A y \in Ids : memo'[y] \in 0 .. made
    BY <1>3, MadeAre DEF TreeInv, Instances
  <2>2. QED
    BY <1>0, <2>1 DEF TreeInv, Instances, Session
<1>11. Creations'
  BY <1>0 DEF TreeInv, Creations
<1>12. Publishing'
  BY <1>0 DEF TreeInv, Publishing
<1>13. Swept'
  BY <1>0, <1>7 DEF TreeInv, Swept, Holds
<1>14. Accounted'
  <2>1. \A q \in Procs : \A j : Holds(q, Step("done", j)) => Step("done", j) \in Range(work'[q])
    BY <1>1, <1>2, <1>7 DEF Step
  <2>2. ASSUME NEW j, InWork(j) PROVE j \in done \/ InWork(j)'
    <3>1. PICK q \in Procs, f \in {"close", "await", "done"} : Holds(q, Step(f, j))
      BY <2>2 DEF InWork
    <3>2. CASE Step(f, j) = work[p][1]
      <4>1. f = d /\ j = x
        BY <3>2, <1>2, StepIs
      <4>2. QED
        BY <4>1, <3>1, <1>1 DEF x
    <3>3. CASE Step(f, j) # work[p][1]
      BY <3>1, <3>3, <1>7 DEF InWork, Holds
    <3>4. QED
      BY <3>2, <3>3
  <2>3. QED
    BY <1>0, <2>1, <2>2 DEF TreeInv, Accounted, Holds
<1>15. EndedOnce'
  <2>1. \A j : Step("scope", j) # work[p][1]
    BY <1>1, <1>2 DEF Step
  <2>2. QED
    BY <1>0, <1>7, <2>1 DEF TreeInv, EndedOnce, Holds
<1>16. SessionScopes'
  BY <1>0, <1>7 DEF TreeInv, SessionScopes, Session
<1>17. Tied'
  <2>1. \A j : Step("unregister", j) # work[p][1]
    BY <1>1, <1>2 DEF Step
  <2>2. QED
    BY <1>0, <1>7, <2>1 DEF TreeInv, Tied
<1>18. QED
  BY <1>8, <1>9, <1>10, <1>11, <1>12, <1>13, <1>14, <1>15, <1>16, <1>17 DEF TreeInv

\* The cleanup that a child left with its parent's scope takes the child out of
\* the registry and closes it.
LEMMA UnregisterKeeps ==
    ASSUME TreeShape, TreeInv, NEW p \in Procs, Unregister(p)
    PROVE  TreeInv'
<1> USE DEF agentVars, flagVars, scopeVars, memoVars, callVars, histVars, envVars
<1> DEFINE x == On(p)
           t == IF agents[x] = None THEN <<>> ELSE <<Step("close", agents[x])>>
<1>0. /\ regMu = Nobody /\ agents' = [agents EXCEPT ![x] = None] /\ Replace(p, t)
      /\ UNCHANGED <<agentVars, flagVars, scopeVars, registryClosed, regMu, memoVars, callVars, histVars, envVars>>
  BY DEF Unregister
<1>1. /\ work[p] \in Seq(Steps) /\ work[p] # <<>> /\ work[p][1] = Step("unregister", x) /\ x \in Ids
      /\ p \in Callers => pc[p] \in {"undo", "closing"}
      /\ p \in Agents => driver[p] \notin {"none", "idle", "turn"}
  BY FirstStep DEF TreeInv, Unregister
<1>2. agents \in [Ids -> Scopes] /\ (agents[x] # None => agents[x] \in 1 .. made)
  BY <1>1 DEF TreeInv, Typed, TypeOK, Instances
<1>3. t \in Seq(Steps) /\ Range(t) = IF agents[x] = None THEN {} ELSE {Step("close", agents[x])}
  <2>1. agents[x] # None => Step("close", agents[x]) \in Steps
    BY <1>2, StepKinds
  <2>2. CASE agents[x] = None
    BY <2>2, ShortRanges
  <2>3. CASE agents[x] # None
    BY <2>1, <2>3, ShortRanges
  <2>4. QED
    BY <2>2, <2>3
<1>4. agents' \in [Ids -> Scopes] /\ agents'[x] = None /\ \A y \in Ids : y # x => agents'[y] = agents[y]
  BY <1>0, <1>1, <1>2, Names
<1> HIDE DEF x, t
<1>5. Steps' = Steps /\ CleanupSteps' = CleanupSteps
  BY <1>0 DEF Steps, CleanupSteps
<1>6. \A d \in {"scope", "done"} : \A y : Step(d, y) \notin Range(t)
  BY <1>3 DEF Step
<1>7. /\ work' \in [Procs -> Seq(Steps)]
      /\ \A q \in Procs : q # p => work'[q] = work[q]
      /\ \A q \in Procs : \A e : e \in Range(work'[q]) => Holds(q, e) \/ (q = p /\ e \in Range(t))
      /\ \A q \in Procs : \A e : Holds(q, e) => e \in Range(work'[q]) \/ (q = p /\ e = work[p][1])
      /\ \A e : e \in Range(t) => e \in Range(work'[p])
      /\ \A q \in Procs : \A a, b :
            Before(work[q], a, b) /\ (work[p][1] # a \/ a \in Range(t)) /\ b \notin Range(t) => Before(work'[q], a, b)
      /\ \A q \in Procs : \A a, b : After(work[q], a, b) /\ a \notin Range(t) => After(work'[q], a, b)
  BY <1>0, <1>1, <1>3, CallGoesOn DEF TreeInv
<1>8. Typed'
  BY <1>0, <1>4, <1>5, <1>7 DEF TreeInv, Typed, TypeOK
<1>9. AtRest'
  BY <1>0, <1>1, <1>7, Names DEF TreeInv, AtRest
<1>10. Instances'
  BY <1>0, <1>4 DEF TreeInv, Instances, Session
<1>11. Creations'
  BY <1>0 DEF TreeInv, Creations
<1>12. Publishing'
  <2>1. \A d \in Creators : pc[d] # "publish"
    BY <1>0, Names DEF TreeInv, Publishing
  <2>2. QED
    BY <1>0, <2>1 DEF TreeInv, Publishing
<1>13. Swept'
  BY <1>0, <1>4, <1>6, <1>7 DEF TreeInv, Swept, Holds
<1>14. Accounted'
  <2>1. \A q \in Procs : \A d \in {"close", "await", "done"} : \A j :
           Holds(q, Step(d, j)) => Step(d, j) \in Range(work'[q])
    BY <1>1, <1>7 DEF Step
  <2>2. \A j : InWork(j) => InWork(j)'
    BY <2>1 DEF InWork, Holds
  <2>3. ASSUME NEW j \in 1 .. made, agents[id[j]] = j PROVE agents'[id[j]] = j \/ InWork(j)'
    <3>1. id[j] \in Ids /\ j # None
      BY MadeAre, Names DEF TreeInv, Instances
    <3>2. CASE id[j] = x
      <4>1. Step("close", j) \in Range(work'[p])
        BY <2>3, <3>1, <3>2, <1>3, <1>7
      <4>2. QED
        BY <4>1 DEF InWork, Holds
    <3>3. CASE id[j] # x
      BY <2>3, <3>1, <3>3, <1>4
    <3>4. QED
      BY <3>2, <3>3
  <2>4. QED
    BY <1>0, <2>1, <2>2, <2>3 DEF TreeInv, Accounted, Holds
<1>15. EndedOnce'
  <2>1. \A q \in Procs : \A j : Holds(q, Step("done", j))' => Holds(q, Step("done", j))
    BY <1>6, <1>7 DEF Holds
  <2>2. \A j : Step("scope", j) # work[p][1]
    BY <1>1 DEF Step
  <2>3. QED
    BY <1>0, <1>6, <1>7, <2>1, <2>2 DEF TreeInv, EndedOnce
<1>16. SessionScopes'
  BY <1>0, <1>6, <1>7 DEF TreeInv, SessionScopes, Session
<1>17. Tied'
  <2> SUFFICES ASSUME NEW j \in 1 .. made, agents'[id[j]] = j, parent[j] # Root
               PROVE  /\ parent[j] \notin done
                      /\ parent[j] \notin scopeClosed => Step("unregister", id[j]) \in Range(cleanups[parent[j]])
                      /\ parent[j] \in scopeClosed =>
                            \A q \in Procs : Before(work'[q], Step("unregister", id[j]), Step("done", parent[j]))
    BY <1>0 DEF Tied
  <2>1. id[j] \in Ids /\ j # None
    BY MadeAre, Names DEF TreeInv, Instances
  <2>2. id[j] # x /\ agents[id[j]] = j
    BY <2>1, <1>4
  <2>3. Step("unregister", id[j]) # work[p][1]
    BY <2>2, <1>1, StepIs
  <2>4. QED
    BY <2>2, <2>3, <1>6, <1>7 DEF TreeInv, Tied
<1>18. QED
  BY <1>8, <1>9, <1>10, <1>11, <1>12, <1>13, <1>14, <1>15, <1>16, <1>17 DEF TreeInv

\* closeDone: the Agent is disposed of. Its children have left the registry.
LEMMA FinishKeeps ==
    ASSUME TreeShape, TreeInv, NEW p \in Procs, Finish(p)
    PROVE  TreeInv'
<1> USE DEF scopeVars, regVars, memoVars, callVars, histVars, envVars
<1> DEFINE i == On(p)
<1>0. /\ Replace(p, <<>>) /\ disposed' = disposed \cup {i} /\ done' = done \cup {i}
      /\ driver' = IF p = i THEN [driver EXCEPT ![i] = "gone"] ELSE driver
      /\ UNCHANGED <<made, id, parent, closed, scopeVars, regVars, memoVars, callVars, histVars, envVars>>
  BY DEF Finish
<1>1. /\ work[p] \in Seq(Steps) /\ work[p] # <<>> /\ work[p][1] = Step("done", i) /\ i \in 1 .. made
      /\ Holds(p, Step("done", i))
      /\ p \in Callers => pc[p] \in {"undo", "closing"}
      /\ p \in Agents => driver[p] \notin {"none", "idle", "turn"}
  BY FirstStep DEF TreeInv, Finish
<1>2. i \in Agents /\ i \in Procs
  BY <1>1, MadeAre, Names DEF TreeInv
<1> HIDE DEF i
<1>3. /\ driver' \in [Agents -> {"none", "idle", "turn", "exit", "gone"}]
      /\ \A j \in Agents : driver'[j] = driver[j] \/ (j = p /\ j = i /\ driver'[j] = "gone")
  BY <1>0, <1>2 DEF TreeInv, Typed, TypeOK
<1>4. Steps' = Steps /\ CleanupSteps' = CleanupSteps
  BY <1>0 DEF Steps, CleanupSteps
<1>5. <<>> \in Seq(Steps) /\ Range(<<>>) = {}
  BY ShortRanges
<1>6. /\ work' \in [Procs -> Seq(Steps)]
      /\ \A q \in Procs : q # p => work'[q] = work[q]
      /\ \A q \in Procs : \A e : e \in Range(work'[q]) => Holds(q, e)
      /\ \A q \in Procs : \A e : Holds(q, e) => e \in Range(work'[q]) \/ (q = p /\ e = work[p][1])
      /\ \A q \in Procs : \A a, b : Before(work[q], a, b) /\ work[p][1] # a => Before(work'[q], a, b)
      /\ \A q \in Procs : \A a, b : After(work[q], a, b) => After(work'[q], a, b)
  BY <1>0, <1>1, <1>5, CallGoesOn DEF TreeInv
<1>7. i \in scopeClosed
  <2> SUFFICES ASSUME i \notin scopeClosed PROVE FALSE
    OBVIOUS
  <2>1. Before(work[p], Step("scope", i), Step("done", i))
    BY <1>2 DEF TreeInv, EndedOnce
  <2>2. QED
    BY <2>1, <1>1, FirstIsNotLater
<1>8. Typed'
  BY <1>0, <1>2, <1>3, <1>4, <1>6 DEF TreeInv, Typed, TypeOK
<1>9. AtRest'
  BY <1>0, <1>1, <1>3, <1>6, Names DEF TreeInv, AtRest
<1>10. Instances'
  BY <1>0, <1>1, <1>3 DEF TreeInv, Instances, Session
<1>11. Creations'
  <2>1. \A c \in Creators : new[c] # None => new[c] \in Agents
    BY OwnInstance
  <2>2. QED
    BY <1>0, <1>1, <1>3, <2>1 DEF TreeInv, Creations
<1>12. Publishing'
  BY <1>0 DEF TreeInv, Publishing
<1>13. Swept'
  BY <1>0, <1>6 DEF TreeInv, Swept, Holds
<1>14. Accounted'
  <2>1. \A q \in Procs : \A d, j : j # i /\ Holds(q, Step(d, j)) => Step(d, j) \in Range(work'[q])
    BY <1>1, <1>6, StepIs
  <2>2. \A j : InWork(j) => j = i \/ InWork(j)'
    BY <2>1 DEF InWork, Holds
  <2>3. QED
    BY <1>0, <2>1, <2>2 DEF TreeInv, Accounted, Holds
<1>15. EndedOnce'
  <2>1. \A j : Step("scope", j) # work[p][1]
    BY <1>1 DEF Step
  <2>2. QED
    BY <1>0, <1>3, <1>6, <1>7, <2>1 DEF TreeInv, EndedOnce, Holds
<1>16. SessionScopes'
  <2>1. 1 .. made \subseteq Agents
    BY MadeAre DEF TreeInv
  <2>2. QED
    BY <1>0, <1>3, <1>6, <2>1 DEF TreeInv, SessionScopes, Session
<1>17. Tied'
  <2>1. ASSUME NEW j \in 1 .. made, agents[id[j]] = j, parent[j] # Root PROVE parent[j] # i
    <3> SUFFICES ASSUME parent[j] = i PROVE FALSE
      OBVIOUS
    <3>1. Before(work[p], Step("unregister", id[j]), Step("done", i))
      BY <1>7, <2>1 DEF TreeInv, Tied
    <3>2. QED
      BY <3>1, <1>1, FirstIsNotLater
  <2>2. \A j : Step("unregister", j) # work[p][1]
    BY <1>1 DEF Step
  <2>3. QED
    BY <1>0, <1>6, <2>1, <2>2 DEF TreeInv, Tied
<1>18. QED
  BY <1>8, <1>9, <1>10, <1>11, <1>12, <1>13, <1>14, <1>15, <1>16, <1>17 DEF TreeInv

\* The pair of steps that ends an Agent, at the head of a call that goes on.
LEMMA PairReplaces ==
    ASSUME NEW S, NEW s \in Seq(S), s # <<>>, NEW a \in S, NEW b \in S, a # b
    PROVE  /\ Before(<<a, b>> \o Tail(s), a, b)
           /\ After(s, a, b) => After(<<a, b>> \o Tail(s), a, b)
<1>1. Tail(s) \in Seq(S) /\ <<>> \in Seq(S) /\ <<>> \o Tail(s) = Tail(s)
  OBVIOUS
<1>2. After(s, a, b) => After(<<>> \o Tail(s), a, b)
  BY <1>1, ShortRanges, AfterReplaced
<1>3. QED
  BY <1>1, <1>2, PairInOrder

\* Agent.Close: the first caller ends the Agent, or waits for its driver, or leaves
\* it to the driver; a later one waits.
LEMMA CloseAgentKeeps ==
    ASSUME TreeShape, TreeInv, NEW p \in Procs, CloseAgent(p)
    PROVE  TreeInv'
<1> USE DEF agentVars, scopeVars, regVars, memoVars, callVars, histVars, envVars
<1> DEFINE i == On(p)
           starts == i \notin closed /\ driver[i] = "none"
           pair == <<Step("scope", i), Step("done", i)>>
           t == IF i \in disposed THEN <<>> ELSE IF starts THEN pair ELSE <<Step("await", i)>>
<1>0. /\ closed' = closed \cup {i} /\ disposed' = (IF starts THEN disposed \cup {i} ELSE disposed) /\ Replace(p, t)
      /\ UNCHANGED <<agentVars, done, scopeVars, regVars, memoVars, callVars, histVars, envVars>>
  BY DEF CloseAgent
<1>1. /\ work[p] \in Seq(Steps) /\ work[p] # <<>> /\ work[p][1] = Step("close", i) /\ i \in 1 .. made
      /\ p \in Callers => pc[p] \in {"undo", "closing"}
      /\ p \in Agents => driver[p] \notin {"none", "idle", "turn"}
  BY FirstStep DEF TreeInv, CloseAgent
<1>2. i \in Agents /\ i # 0
  BY <1>1, MadeAre DEF TreeInv
<1>3. /\ t \in Seq(Steps)
      /\ i \in disposed => Range(t) = {}
      /\ i \notin disposed /\ starts => t = pair /\ Range(t) = {Step("scope", i), Step("done", i)}
      /\ i \notin disposed /\ ~starts => Range(t) = {Step("await", i)}
  <2>1. Step("await", i) \in Steps /\ pair \in Seq(Steps) /\ Range(pair) = {Step("scope", i), Step("done", i)}
    BY <1>1, StepKinds, EndingPair DEF TreeInv
  <2> HIDE DEF pair, starts, i
  <2>2. CASE i \in disposed
    BY <2>2, ShortRanges
  <2>3. CASE i \notin disposed /\ starts
    BY <2>1, <2>3
  <2>4. CASE i \notin disposed /\ ~starts
    BY <2>1, <2>4, ShortRanges
  <2>5. QED
    BY <2>2, <2>3, <2>4
<1>4. starts => i \notin closed /\ driver[i] = "none"
  OBVIOUS
<1> HIDE DEF t, i, starts
<1>5. Steps' = Steps /\ CleanupSteps' = CleanupSteps
  BY <1>0 DEF Steps, CleanupSteps
<1>6. /\ work' \in [Procs -> Seq(Steps)] /\ work'[p] = t \o Tail(work[p])
      /\ \A q \in Procs : q # p => work'[q] = work[q]
      /\ \A q \in Procs : \A e : e \in Range(work'[q]) => Holds(q, e) \/ (q = p /\ e \in Range(t))
      /\ \A q \in Procs : \A e : Holds(q, e) => e \in Range(work'[q]) \/ (q = p /\ e = work[p][1])
      /\ \A e : e \in Range(t) => e \in Range(work'[p])
      /\ \A q \in Procs : \A a, b :
            Before(work[q], a, b) /\ (work[p][1] # a \/ a \in Range(t)) /\ b \notin Range(t) => Before(work'[q], a, b)
      /\ \A q \in Procs : \A a, b : After(work[q], a, b) /\ a \notin Range(t) => After(work'[q], a, b)
  BY <1>0, <1>1, <1>3, CallGoesOn DEF TreeInv
<1>7. \A d \in {"scope", "done"} : \A j : Step(d, j) \in Range(t) => j = i /\ i \notin disposed /\ starts
  <2>1. \A d \in {"scope", "done"} : \A j : Step(d, j) # Step("await", i)
    BY DEF Step
  <2>2. \A d \in {"scope", "done"} : \A j : Step(d, j) \in {Step("scope", i), Step("done", i)} => j = i
    BY StepIs
  <2>3. QED
    BY <1>3, <2>1, <2>2
<1>8. i \notin disposed /\ starts => /\ Before(work'[p], Step("scope", i), Step("done", i))
                                     /\ After(work[p], Step("scope", i), Step("done", i))
                                           => After(work'[p], Step("scope", i), Step("done", i))
  <2>1. Step("scope", i) \in Steps /\ Step("done", i) \in Steps /\ Step("scope", i) # Step("done", i)
    BY <1>1, StepKinds, StepIs
  <2>2. i \notin disposed /\ starts => work'[p] = <<Step("scope", i), Step("done", i)>> \o Tail(work[p])
    BY <1>3, <1>6 DEF i
  <2>3. QED
    BY <1>1, <2>1, <2>2, PairReplaces
<1>9. starts => \A q \in Procs : ~Holds(q, Step("done", i))
  BY <1>2, <1>4 DEF TreeInv, EndedOnce
<1>10. Typed'
  BY <1>0, <1>2, <1>5, <1>6 DEF TreeInv, Typed, TypeOK
<1>11. AtRest'
  BY <1>0, <1>1, <1>6, Names DEF TreeInv, AtRest
<1>12. Instances'
  BY <1>0 DEF TreeInv, Instances, Session
<1>13. Creations'
  BY <1>0 DEF TreeInv, Creations
<1>14. Publishing'
  BY <1>0 DEF TreeInv, Publishing
<1>15. Swept'
  <2>1. Step("scope", Root) \notin Range(t)
    BY <1>2, <1>7, Names
  <2>2. \A q \in Procs : Holds(q, Step("scope", Root))' => Holds(q, Step("scope", Root))
    BY <1>6, <2>1 DEF Holds, Root
  <2>3. QED
    BY <1>0, <2>2 DEF TreeInv, Swept
<1>16. Accounted'
  <2>1. \A q \in Procs : \A d, j : Holds(q, Step(d, j)) => Step(d, j) \in Range(work'[q]) \/ (d = "close" /\ j = i)
    BY <1>1, <1>6, StepIs
  <2>2. ASSUME NEW j, InWork(j) PROVE j \in done \/ InWork(j)'
    <3>1. CASE j # i
      BY <2>1, <2>2, <3>1 DEF InWork, Holds
    <3>2. CASE j = i /\ i \in disposed
      <4>1. i \in done \/ \E q \in Procs : Holds(q, Step("done", i))
        BY <3>2 DEF TreeInv, Accounted
      <4>2. QED
        BY <4>1, <2>1, <3>2 DEF InWork, Holds
    <3>3. CASE j = i /\ i \notin disposed /\ starts
      BY <3>3, <1>3, <1>6 DEF InWork, Holds
    <3>4. CASE j = i /\ i \notin disposed /\ ~starts
      BY <3>4, <1>3, <1>6 DEF InWork, Holds
    <3>5. QED
      BY <3>1, <3>2, <3>3, <3>4
  <2>3. ASSUME NEW j \in disposed' PROVE j \in done \/ \E q \in Procs : Step("done", j) \in Range(work'[q])
    <3>1. CASE j \in disposed
      BY <2>1, <3>1 DEF TreeInv, Accounted
    <3>2. CASE j \notin disposed
      <4>1. j = i /\ starts
        BY <1>0, <2>3, <3>2
      <4>2. QED
        BY <3>2, <4>1, <1>3, <1>6
    <3>3. QED
      BY <3>1, <3>2
  <2>4. QED
    BY <1>0, <2>2, <2>3 DEF TreeInv, Accounted, Holds
<1>17. EndedOnce'
  <2> SUFFICES ASSUME NEW j \in Agents PROVE EndedOnce!(j)'
    BY DEF EndedOnce
  <2>1. CASE Step("done", j) \notin Range(t)
    <3>1. \A q \in Procs : Holds(q, Step("done", j))' => Holds(q, Step("done", j))
      BY <1>6, <2>1 DEF Holds
    <3>2. Step("scope", j) # work[p][1]
      BY <1>1, StepIs
    <3>3. QED
      BY <1>0, <1>6, <2>1, <3>1, <3>2 DEF TreeInv, EndedOnce
  <2>2. CASE Step("done", j) \in Range(t)
    <3>1. j = i /\ i \notin disposed /\ starts
      BY <2>2, <1>7
    <3>2. \A q \in Procs : Holds(q, Step("done", j))' => q = p
      BY <1>6, <1>9, <3>1 DEF Holds
    <3>3. \A q \in Procs : i \notin scopeClosed => Before(work'[q], Step("scope", i), Step("done", i))
      <4>1. \A q \in Procs : i \notin scopeClosed => Before(work[q], Step("scope", i), Step("done", i))
        BY <1>2 DEF TreeInv, EndedOnce
      <4>2. QED
        BY <1>6, <1>8, <3>1, <4>1
    <3>4. QED
      BY <1>0, <1>4, <3>1, <3>2, <3>3 DEF TreeInv, EndedOnce
  <2>3. QED
    BY <2>1, <2>2
<1>18. SessionScopes'
  <2> SUFFICES ASSUME ~registryClosed, NEW s \in 1 .. made, Session(id[s])
               PROVE  /\ s \in scopeClosed => s \in closed' /\ driver[s] \in {"none", "exit", "gone"}
                      /\ \A q \in Procs : After(work'[q], Step("scope", s), Step("done", s))
    BY <1>0 DEF SessionScopes, Session
  <2>1. s \in scopeClosed => s \in closed' /\ driver[s] \in {"none", "exit", "gone"}
    BY <1>0 DEF TreeInv, SessionScopes
  <2>2. ASSUME NEW q \in Procs PROVE After(work'[q], Step("scope", s), Step("done", s))
    <3>1. After(work[q], Step("scope", s), Step("done", s))
      BY DEF TreeInv, SessionScopes
    <3>2. CASE Step("scope", s) \notin Range(t) \/ q # p
      BY <1>6, <3>1, <3>2
    <3>3. CASE Step("scope", s) \in Range(t) /\ q = p
      BY <1>7, <1>8, <3>1, <3>3
    <3>4. QED
      BY <3>2, <3>3
  <2>3. QED
    BY <2>1, <2>2
<1>19. Tied'
  <2> SUFFICES ASSUME NEW j \in 1 .. made, agents[id[j]] = j, parent[j] # Root, parent[j] \in scopeClosed,
                      NEW q \in Procs
               PROVE  Before(work'[q], Step("unregister", id[j]), Step("done", parent[j]))
    BY <1>0 DEF TreeInv, Tied
  <2>1. id[j] \in Ids /\ agents[id[j]] # None
    BY Names, MadeAre DEF TreeInv, Instances
  <2>2. ~registryClosed
    BY <2>1 DEF TreeInv, Swept
  <2>3. parent[j] \in closed
    BY <2>2 DEF TreeInv, SessionScopes, Instances
  <2>4. Step("done", parent[j]) \notin Range(t)
    BY <2>3, <1>4, <1>7
  <2>5. Step("unregister", id[j]) # work[p][1]
    BY <1>1, StepIs
  <2>6. QED
    BY <1>6, <2>4, <2>5 DEF TreeInv, Tied
<1>20. QED
  BY <1>10, <1>11, <1>12, <1>13, <1>14, <1>15, <1>16, <1>17, <1>18, <1>19 DEF TreeInv

\* Scope.Close: the scope's children and cleanups take its place among the steps.
LEMMA CloseScopeKeeps ==
    ASSUME TreeShape, TreeInv, NEW p \in Procs, CloseScope(p)
    PROVE  TreeInv'
<1> USE DEF agentVars, flagVars, regVars, memoVars, callVars, histVars, envVars
<1>0. PICK s : s = On(p)
  OBVIOUS
<1> DEFINE below == [n \in DOMAIN kids[s] |-> Step("scope", kids[s][n])]
           t == IF s \in scopeClosed THEN <<>> ELSE below \o Reverse(cleanups[s])
<1>1. /\ scopeClosed' = scopeClosed \cup {s} /\ Replace(p, t)
      /\ kids' = [kids EXCEPT ![s] = <<>>] /\ cleanups' = [cleanups EXCEPT ![s] = <<>>]
      /\ UNCHANGED <<agentVars, flagVars, regVars, memoVars, callVars, histVars, envVars>>
  BY <1>0 DEF CloseScope
<1>2. /\ work[p] \in Seq(Steps) /\ work[p] # <<>> /\ work[p][1] = Step("scope", s) /\ s \in 0 .. made
      /\ Holds(p, Step("scope", s))
      /\ p \in Callers => pc[p] \in {"undo", "closing"}
      /\ p \in Agents => driver[p] \notin {"none", "idle", "turn"}
  BY <1>0, FirstStep DEF TreeInv, CloseScope
<1>3. s \in Scopes /\ (s # Root => s \in 1 .. made /\ s \in Agents)
  <2>1. made \in Nat /\ s \in Scopes
    BY <1>2, MadeAre DEF TreeInv
  <2>2. s # Root => s \in 1 .. made
    BY <1>2, <2>1, Names
  <2>3. QED
    BY <2>1, <2>2, MadeAre DEF TreeInv
<1>4. below \in Seq(Steps) /\ \A e \in Range(below) : \E k \in 1 .. made : e = Step("scope", k) /\ parent[k] = s
  <2>1. kids[s] \in Seq(Agents) /\ \A k \in Range(kids[s]) : k \in 1 .. made /\ parent[k] = s
    BY <1>3 DEF TreeInv, Typed, TypeOK, Instances
  <2>2. \A n \in 1 .. Len(kids[s]) : kids[s][n] \in 1 .. made /\ parent[kids[s][n]] = s
    BY <2>1, RangeOfList
  <2>3. \A n \in 1 .. Len(kids[s]) : Step("scope", kids[s][n]) \in Steps
    BY <2>2, StepKinds
  <2>4. below \in Seq(Steps) /\ Len(below) = Len(kids[s])
        /\ \A n \in 1 .. Len(kids[s]) : below[n] = Step("scope", kids[s][n])
    BY <2>1, <2>3
  <2> HIDE DEF below
  <2>5. QED
    BY <2>2, <2>4, RangeOfList
<1> HIDE DEF below
<1>5. /\ t \in Seq(Steps)
      /\ \A e \in Range(t) : e \in CleanupSteps \/ \E k \in 1 .. made : e = Step("scope", k) /\ parent[k] = s
      /\ s \notin scopeClosed => Range(cleanups[s]) \subseteq Range(t)
  <2>1. cleanups[s] \in Seq(CleanupSteps)
    BY <1>3 DEF TreeInv, Typed
  <2>2. Reverse(cleanups[s]) \in Seq(CleanupSteps) /\ Range(Reverse(cleanups[s])) = Range(cleanups[s])
    BY <2>1, ReversedRange
  <2>3. Reverse(cleanups[s]) \in Seq(Steps) /\ Range(cleanups[s]) \subseteq CleanupSteps
    BY <2>1, <2>2, StepKinds, SeqGrows, RangeOfList
  <2>4. below \o Reverse(cleanups[s]) \in Seq(Steps)
        /\ Range(below \o Reverse(cleanups[s])) = Range(below) \cup Range(Reverse(cleanups[s]))
    BY <1>4, <2>3, JoinedRange
  <2>5. CASE s \in scopeClosed
    BY <2>5, ShortRanges
  <2>6. CASE s \notin scopeClosed
    BY <1>4, <2>2, <2>3, <2>4, <2>6
  <2>7. QED
    BY <2>5, <2>6
<1> HIDE DEF t
<1>6. /\ \A d \in {"close", "await", "done"} : \A j : Step(d, j) \notin Range(t)
      /\ \A j : Step("scope", j) \in Range(t) => j \in 1 .. made /\ parent[j] = s
  <2>1. \A d \in {"close", "await", "done", "scope"} : \A j : Step(d, j) \notin CleanupSteps
    BY StepKinds DEF Step
  <2>2. QED
    BY <1>5, <2>1, StepIs
<1>7. /\ work' \in [Procs -> Seq(Steps)] /\ work'[p] = t \o Tail(work[p])
      /\ \A q \in Procs : q # p => work'[q] = work[q]
      /\ \A q \in Procs : \A e : e \in Range(work'[q]) => Holds(q, e) \/ (q = p /\ e \in Range(t))
      /\ \A q \in Procs : \A e : Holds(q, e) => e \in Range(work'[q]) \/ (q = p /\ e = work[p][1])
      /\ \A e : e \in Range(t) => e \in Range(work'[p])
      /\ \A q \in Procs : \A a, b :
            Before(work[q], a, b) /\ (work[p][1] # a \/ a \in Range(t)) /\ b \notin Range(t) => Before(work'[q], a, b)
      /\ \A q \in Procs : \A a, b : After(work[q], a, b) /\ a \notin Range(t) => After(work'[q], a, b)
  BY <1>1, <1>2, <1>5, CallGoesOn DEF TreeInv
<1>8. Steps' = Steps /\ CleanupSteps' = CleanupSteps
  BY <1>1 DEF Steps, CleanupSteps
<1>9. /\ kids' \in [Scopes -> Seq(Agents)] /\ \A u \in Scopes : Range(kids'[u]) \subseteq Range(kids[u])
      /\ cleanups' \in [Scopes -> Seq(CleanupSteps)] /\ \A u \in Scopes : u # s => cleanups'[u] = cleanups[u]
  <2>1. kids \in [Scopes -> Seq(Agents)] /\ cleanups \in [Scopes -> Seq(CleanupSteps)]
    BY DEF TreeInv, Typed, TypeOK
  <2>2. kids' \in [Scopes -> Seq(Agents)] /\ kids'[s] = <<>> /\ \A u \in Scopes : u # s => kids'[u] = kids[u]
    BY <1>1, <1>3, <2>1
  <2>3. cleanups' \in [Scopes -> Seq(CleanupSteps)] /\ \A u \in Scopes : u # s => cleanups'[u] = cleanups[u]
    BY <1>1, <1>3, <2>1
  <2>4. \A u \in Scopes : Range(kids'[u]) \subseteq Range(kids[u])
    BY <2>2, ShortRanges
  <2>5. QED
    BY <2>2, <2>3, <2>4
<1>10. s = Root => registryClosed
  BY <1>2 DEF TreeInv, Swept
\* Whoever closes the scope of a session before the registry is closed also ends the session.
<1>11. ~registryClosed /\ s \in 1 .. made /\ Session(id[s])
          => /\ s \in closed /\ driver[s] \in {"none", "exit", "gone"}
             /\ \A q \in Procs : Holds(q, Step("done", s)) => q = p
  <2> SUFFICES ASSUME ~registryClosed, s \in 1 .. made, Session(id[s])
               PROVE  /\ s \in closed /\ driver[s] \in {"none", "exit", "gone"}
                      /\ \A q \in Procs : Holds(q, Step("done", s)) => q = p
    OBVIOUS
  <2>1. After(work[p], Step("scope", s), Step("done", s)) /\ Step("scope", s) # Step("done", s)
    BY StepIs DEF TreeInv, SessionScopes
  <2>2. Holds(p, Step("done", s))
    BY <1>2, <2>1, <1>5, AheadHasBehind DEF Holds
  <2>3. s \in Agents
    BY MadeAre DEF TreeInv
  <2>4. QED
    BY <2>2, <2>3 DEF TreeInv, EndedOnce
<1>12. Typed'
  <2>1. scopeClosed' \subseteq Scopes
    BY <1>1, <1>3 DEF TreeInv, Typed, TypeOK
  <2>2. QED
    BY <1>1, <1>7, <1>8, <1>9, <2>1 DEF TreeInv, Typed, TypeOK
<1>13. AtRest'
  BY <1>1, <1>2, <1>7, Names DEF TreeInv, AtRest
<1>14. Instances'
  BY <1>1, <1>2, <1>9 DEF TreeInv, Instances, Session
<1>15. Creations'
  BY <1>1 DEF TreeInv, Creations
<1>16. Publishing'
  BY <1>1 DEF TreeInv, Publishing
<1>17. Swept'
  <2>1. Step("scope", Root) \notin Range(t)
    BY <1>6, Names, MadeAre DEF TreeInv
  <2>2. \A q \in Procs : Holds(q, Step("scope", Root))' => Holds(q, Step("scope", Root))
    BY <1>7, <2>1 DEF Holds, Root
  <2>3. QED
    BY <1>1, <1>10, <2>2 DEF TreeInv, Swept
<1>18. Accounted'
  <2>1. \A q \in Procs : \A d \in {"close", "await", "done"} : \A j :
           Holds(q, Step(d, j)) => Step(d, j) \in Range(work'[q])
    BY <1>2, <1>7 DEF Step
  <2>2. \A j : InWork(j) => InWork(j)'
    BY <2>1 DEF InWork, Holds
  <2>3. QED
    BY <1>1, <2>1, <2>2 DEF TreeInv, Accounted, Holds
<1>19. EndedOnce'
  <2>1. \A q \in Procs : \A j : Holds(q, Step("done", j))' => Holds(q, Step("done", j))
    BY <1>6, <1>7 DEF Holds
  <2>2. \A j : j # s => Step("scope", j) # work[p][1]
    BY <1>2, StepIs
  <2>3. \A j : Step("done", j) \notin Range(t)
    BY <1>6
  <2>4. ASSUME NEW j \in Agents, NEW q \in Procs, j \notin scopeClosed'
        PROVE  Before(work'[q], Step("scope", j), Step("done", j))
    <3>1. j # s /\ j \notin scopeClosed
      BY <1>1, <2>4
    <3>2. Before(work[q], Step("scope", j), Step("done", j))
      BY <3>1 DEF TreeInv, EndedOnce
    <3>3. QED
      BY <1>7, <2>2, <2>3, <3>1, <3>2
  <2>5. \A j \in Agents : j \in done => j \in scopeClosed'
    BY <1>1 DEF TreeInv, EndedOnce
  <2>6. QED
    BY <1>1, <2>1, <2>4, <2>5 DEF TreeInv, EndedOnce
<1>20. SessionScopes'
  <2> SUFFICES ASSUME ~registryClosed, NEW u \in 1 .. made, Session(id[u])
               PROVE  /\ u \in scopeClosed' => u \in closed /\ driver[u] \in {"none", "exit", "gone"}
                      /\ \A q \in Procs : After(work'[q], Step("scope", u), Step("done", u))
    BY <1>1 DEF SessionScopes, Session
  <2>1. u \in scopeClosed' => u \in closed /\ driver[u] \in {"none", "exit", "gone"}
    BY <1>1, <1>11 DEF TreeInv, SessionScopes
  <2>2. Step("scope", u) \notin Range(t)
    BY <1>6, <1>10 DEF TreeInv, Instances
  <2>3. \A q \in Procs : After(work'[q], Step("scope", u), Step("done", u))
    BY <1>7, <2>2 DEF TreeInv, SessionScopes
  <2>4. QED
    BY <2>1, <2>3
<1>21. Tied'
  <2> SUFFICES ASSUME NEW j \in 1 .. made, agents[id[j]] = j, parent[j] # Root
               PROVE  /\ parent[j] \notin done
                      /\ parent[j] \notin scopeClosed' => Step("unregister", id[j]) \in Range(cleanups'[parent[j]])
                      /\ parent[j] \in scopeClosed' =>
                            \A q \in Procs : Before(work'[q], Step("unregister", id[j]), Step("done", parent[j]))
    BY <1>1 DEF Tied
  <2>1. /\ id[j] \in Ids /\ agents[id[j]] # None
        /\ parent[j] \in 1 .. made /\ parent[j] \in Scopes /\ Session(id[parent[j]])
    BY Names, MadeAre DEF TreeInv, Instances
  <2>2. ~registryClosed
    BY <2>1 DEF TreeInv, Swept
  <2>3. parent[j] \notin scopeClosed' => Step("unregister", id[j]) \in Range(cleanups'[parent[j]])
    BY <1>1, <1>9, <2>1 DEF TreeInv, Tied
  <2>4. ASSUME parent[j] \in scopeClosed', NEW q \in Procs
        PROVE  Before(work'[q], Step("unregister", id[j]), Step("done", parent[j]))
    <3>1. Step("unregister", id[j]) # work[p][1] /\ Step("done", parent[j]) \notin Range(t)
      BY <1>2, <1>6, StepIs
    <3>2. CASE parent[j] \in scopeClosed
      BY <1>7, <3>1, <3>2 DEF TreeInv, Tied
    <3>3. CASE parent[j] \notin scopeClosed
      <4>1. parent[j] = s
        BY <1>1, <2>4, <3>3
      <4>2. CASE q = p
        <5>1. Step("unregister", id[j]) \in Range(t)
          BY <1>5, <3>3, <4>1 DEF TreeInv, Tied
        <5>2. Before(t \o Tail(work[p]), Step("unregister", id[j]), Step("done", parent[j]))
          BY <1>2, <1>5, <3>1, <5>1, BeforeRest
        <5>3. QED
          BY <1>7, <4>2, <5>2
      <4>3. CASE q # p
        <5>1. Step("done", s) \notin Range(work[q])
          BY <1>11, <2>1, <2>2, <4>1, <4>3 DEF Holds
        <5>2. work[q] \in Seq(Steps)
          BY DEF TreeInv, Typed
        <5>3. QED
          BY <1>7, <4>1, <4>3, <5>1, <5>2, NothingToOrder
      <4>4. QED
        BY <4>2, <4>3
    <3>4. QED
      BY <3>2, <3>3
  <2>5. parent[j] \notin done
    BY DEF TreeInv, Tied
  <2>6. QED
    BY <2>3, <2>4, <2>5
<1>22. QED
  BY <1>12, <1>13, <1>14, <1>15, <1>16, <1>17, <1>18, <1>19, <1>20, <1>21 DEF TreeInv

----------------------------------------------------------------------------
(* The theorems.                                                           *)

\* An empty tree.
LEMMA TreeInitInv ==
    ASSUME TreeShape, Init
    PROVE  TreeInv
<1> USE DEF Init
<1>1. <<>> \in Seq(Steps) /\ <<>> \in Seq(CleanupSteps) /\ <<>> \in Seq(Agents) /\ Range(<<>>) = {}
  BY ShortRanges
<1>2. 0 \in Scopes /\ 0 \notin Agents /\ MaxFaults \in Nat /\ Root = 0 /\ None = 0 /\ Nobody \notin Creators
  BY Names DEF TreeShape
<1>3. \A q \in Procs : work[q] = <<>> /\ \A e : ~Holds(q, e)
  BY <1>1 DEF Holds
<1>4. \A q \in Procs : \A a, b : Before(work[q], a, b) /\ After(work[q], a, b)
  BY <1>1, <1>3, NothingToOrder
<1>5. Typed
  <2>1. work \in [Procs -> Seq(Steps)] /\ cleanups \in [Scopes -> Seq(CleanupSteps)]
    BY <1>1
  <2>2. kids \in [Scopes -> Seq(Agents)] /\ parent \in [Agents -> Scopes] /\ made \in Scopes
    BY <1>1, <1>2
  <2>3. agents \in [Ids -> Scopes] /\ memo \in [Ids -> Scopes] /\ new \in [Creators -> Scopes]
    BY <1>2
  <2>4. faults \in 0 .. MaxFaults /\ released \in [Agents -> Nat]
    BY <1>2
  <2>5. TypeOK
    BY <2>2, <2>3, <2>4 DEF TypeOK
  <2>6. QED
    BY <2>1, <2>5 DEF Typed
<1>6. AtRest
  BY Names DEF AtRest
<1>7. Instances
  BY <1>1, <1>2 DEF Instances
<1>8. Creations
  BY Names DEF Creations
<1>9. Publishing
  BY <1>2, Names DEF Publishing
<1>10. Swept
  BY <1>2, <1>3, Names DEF Swept
<1>11. Accounted
  BY DEF Accounted
<1>12. EndedOnce
  BY <1>3, <1>4 DEF EndedOnce
<1>13. SessionScopes
  BY <1>4 DEF SessionScopes
<1>14. Tied
  BY DEF Tied
<1>15. QED
  BY <1>5, <1>6, <1>7, <1>8, <1>9, <1>10, <1>11, <1>12, <1>13, <1>14 DEF TreeInv

\* Every step keeps the invariant: one lemma per action.
LEMMA TreeStepInv ==
    ASSUME TreeShape, TreeInv, [Next]_vars
    PROVE  TreeInv'
<1>1. ASSUME NEW c \in Creators, NEW x \in Ids, Create(c, x) PROVE TreeInv'
  BY <1>1, CreateKeeps
<1>2. ASSUME NEW c \in Creators, Publish(c) PROVE TreeInv'
  BY <1>2, PublishKeeps
<1>3. ASSUME NEW c \in Creators, Setup(c) PROVE TreeInv'
  BY <1>3, SetupKeeps
<1>4. ASSUME NEW c \in Creators, Start(c) PROVE TreeInv'
  BY <1>4, StartKeeps
<1>5. ASSUME EndProcess \/ (\E c \in Creators : Undone(c)) \/ (\E c \in Closers \cup Sweepers : Return(c))
      PROVE  TreeInv'
  BY <1>5, ReturnKeeps
<1>6. ASSUME NEW c \in Closers, CallClose(c) PROVE TreeInv'
  BY <1>6, CallCloseKeeps
<1>7. ASSUME NEW c \in Sweepers, CloseAll(c) PROVE TreeInv'
  BY <1>7, CloseAllKeeps
<1>8. ASSUME NEW p \in Procs, Proceed(p) PROVE TreeInv'
  <2>1. CASE Unregister(p)
    BY <2>1, UnregisterKeeps
  <2>2. CASE CloseAgent(p)
    BY <2>2, CloseAgentKeeps
  <2>3. CASE Await(p) \/ Forget(p) \/ Release(p)
    BY <2>3, QuietStepKeeps
  <2>4. CASE CloseScope(p)
    BY <2>4, CloseScopeKeeps
  <2>5. CASE Finish(p)
    BY <2>5, FinishKeeps
  <2>6. QED
    BY <1>8, <2>1, <2>2, <2>3, <2>4, <2>5 DEF Proceed
<1>9. ASSUME NEW i \in Agents, BeginTurn(i) \/ EndTurn(i) PROVE TreeInv'
  BY <1>9, TurnKeeps
<1>10. ASSUME NEW i \in Agents, Exit(i) \/ Fail(i) PROVE TreeInv'
  BY <1>10, LeaveKeeps
<1>11. CASE UNCHANGED vars
  BY <1>11, StutterKeeps
<1>12. QED
  BY <1>1, <1>2, <1>3, <1>4, <1>5, <1>6, <1>7, <1>8, <1>9, <1>10, <1>11 DEF Next

\* The inductive invariant holds whenever Create, Publish, the closing calls and
\* the drivers interleave.
THEOREM TreeInvariant == Spec => []TreeInv
<1>1. Init => TreeInv
  BY TreeInitInv, TreeAssumption
<1>2. TreeInv /\ [Next]_vars => TreeInv'
  BY TreeStepInv, TreeAssumption
<1>3. QED
  BY <1>1, <1>2, PTL DEF Spec

\* Type correctness of the tree, its scopes and its calls.
THEOREM TypeCorrect == Spec => []TypeOK
<1>1. TreeInv => TypeOK
  BY DEF TreeInv, Typed
<1>2. QED
  BY <1>1, TreeInvariant, PTL

\* A child whose parent is done is not in the registry: closing a scope
\* unregisters every child that was created below it, one whose Create was
\* under way when the parent was closed included (Registry.Create, Scope.Close).
THEOREM NotLeftBehindHolds == Spec => []NotLeftBehind
<1>1. TreeInv => NotLeftBehind
  <2> SUFFICES ASSUME TreeInv, NEW i \in Agents, parent[i] \in done PROVE agents[id[i]] # i
    BY DEF NotLeftBehind
  <2>1. parent[i] # Root
    BY Names, TreeAssumption DEF TreeInv, Typed, TypeOK
  <2>2. i \in 1 .. made
    BY <2>1 DEF TreeInv, Instances
  <2>3. QED
    BY <2>1, <2>2 DEF TreeInv, Tied
<1>2. QED
  BY <1>1, TreeInvariant, PTL

\* When CloseAll has returned, every Agent that was ever created is done or in
\* the hands of a closing call that still runs (Registry.CloseAll).
THEOREM NobodyForgottenHolds == Spec => []NobodyForgotten
<1>1. TreeInv => NobodyForgotten
  <2> SUFFICES ASSUME TreeInv, NEW c \in Sweepers, pc[c] = "returned", NEW i \in 1 .. made, i \notin done
               PROVE  InHand(i)
    BY DEF NobodyForgotten
  <2>1. registryClosed
    BY DEF TreeInv, Swept
  <2>2. agents[id[i]] # i
    BY <2>1, MadeAre, Names, TreeAssumption DEF TreeInv, Swept, Instances
  <2>3. \A d \in Creators : pc[d] # "publish"
    BY <2>1 DEF TreeInv, Publishing
  <2>4. PICK q \in Procs, do \in {"close", "await", "done"} : Holds(q, Step(do, i))
    BY <2>2, <2>3 DEF TreeInv, Accounted, InWork
  <2>5. PICK n \in DOMAIN work[q] : work[q][n] = Step(do, i)
    BY <2>4 DEF Holds, Range
  <2>6. work[q][n].on = i /\ work[q][n].do = do
    BY <2>5 DEF Step
  <2>7. QED
    BY <2>6 DEF InHand
<1>2. QED
  BY <1>1, TreeInvariant, PTL
=============================================================================
