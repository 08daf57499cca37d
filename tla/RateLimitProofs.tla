--------------------------- MODULE RateLimitProofs ---------------------------
(***************************************************************************)
(* The safety of RateLimit for every finite set of attempts, any accounts  *)
(* and hosts, any limits and windows.                                      *)
(*                                                                         *)
(* That a counter is exact is nearly inductive.  That no stretch of time   *)
(* holds more than twice the limit is not: the counter says nothing of the *)
(* windows before the one that runs.  The invariant adds them as a set S   *)
(* of ages, one for the start of each window of a key: they lie a window   *)
(* apart, every remembered attempt falls into one, and none holds more     *)
(* than the limit.                                                         *)
(*                                                                         *)
(* L and W are the limit and the window of a key, n, l and C its counter,  *)
(* what is left of its window and what it has counted, A the ages.         *)
(***************************************************************************)
EXTENDS RateLimit, FiniteSetTheorems, TLAPS

Within(W, C, A, s) == {a \in C : s - W < A[a] /\ A[a] <= s}
Since(C, A, s) == {a \in C : A[a] <= s}

Exact(L, W, n, l, C, A) ==
  /\ n <= L
  /\ l <= W
  /\ (n = 0) <=> (l = 0)
  /\ n > 0 => n = Cardinality(Since(C, A, W - l))

Windows(L, W, n, l, C, A, S) ==
  /\ S \subseteq Nat
  /\ \A s, t \in S : s < t => s + W <= t
  /\ \A a \in C : \E s \in S : a \in Within(W, C, A, s)
  /\ \A s \in S : Cardinality(Within(W, C, A, s)) <= L
  /\ n > 0 => W - l \in S
  /\ n = 0 => \A s \in S : W <= s

Sound(L, W, n, l, C, A) ==
  Exact(L, W, n, l, C, A) /\ \E S : Windows(L, W, n, l, C, A, S)

\* An attempt is counted once: before that it is under no key.
NewUncounted == \A a \in Attempt, k \in Key : attempt[a].pc = "new" => a \notin counted[k]

KeyOK(k) == Sound(LimitOf(k), WindowOf(k), count[k], left[k], counted[k], age)

IInv ==
  /\ LimiterTypeOK
  /\ NewUncounted
  /\ \A k \in Key : KeyOK(k)

-----------------------------------------------------------------------------
LEMMA KeysTyped ==
  /\ \A k \in Key : /\ LimitOf(k) \in Nat \ {0}
                    /\ WindowOf(k) \in Nat \ {0}
                    /\ WindowOf(k) < MaxAge
  /\ MaxAge \in Nat
<1>1. ASSUME NEW k \in Key
      PROVE  <<k[1], k[2]>> \in Action \X Parts
  <2>1. PICK act \in Action, x \in Subject, y \in Origin : k \in Limits(act, x, y)
    BY <1>1 DEF Key
  <2>2. \/ k = <<act, "subject", x>>
        \/ k = <<act, "origin", y>>
        \/ k = <<act, "both", <<x, y>>>>
    BY <2>1 DEF Limits
  <2> QED BY <2>2 DEF Parts
<1>2. ASSUME NEW k \in Key
      PROVE  /\ LimitOf(k) \in Nat \ {0}
             /\ WindowOf(k) \in Nat \ {0}
             /\ WindowOf(k) < MaxAge
  BY <1>1, <1>2, RateAssumption DEF LimitOf, WindowOf
<1> QED BY <1>2, RateAssumption

LEMMA KeysOfAttempt ==
  ASSUME LimiterTypeOK, NEW a \in Attempt
  PROVE  KeysOf(a) \subseteq Key
BY DEF LimiterTypeOK, KeysOf, Key

LEMMA OneMember == \A a : Cardinality({a}) = 1
BY FS_Singleton

\* A part of a finite set is finite, and not larger.
LEMMA Parted ==
  ASSUME NEW C, IsFiniteSet(C), NEW T \in SUBSET C, NEW U \in SUBSET T
  PROVE  /\ IsFiniteSet(U)
         /\ Cardinality(T) \in Nat /\ Cardinality(U) \in Nat
         /\ Cardinality(U) <= Cardinality(T)
<1>1. IsFiniteSet(T)
  BY FS_Subset
<1>2. IsFiniteSet(U) /\ Cardinality(U) <= Cardinality(T)
  BY <1>1, FS_Subset
<1> QED BY <1>1, <1>2, FS_CardinalityType

-----------------------------------------------------------------------------
(* What may happen to one key.                                             *)

LEMMA EmptyKey ==
  ASSUME NEW L \in Nat \ {0}, NEW W \in Nat \ {0}, NEW A
  PROVE  Sound(L, W, 0, 0, {}, A)
<1>1. Windows(L, W, 0, 0, {}, A, {})
  BY DEF Windows
<1>2. Exact(L, W, 0, 0, {}, A)
  BY DEF Exact
<1> QED BY <1>1, <1>2 DEF Sound

\* The ages of other attempts do not matter.
LEMMA OthersAged ==
  ASSUME NEW L, NEW W, NEW n, NEW l, NEW C, NEW A, NEW B,
         Sound(L, W, n, l, C, A), \A a \in C : B[a] = A[a]
  PROVE  Sound(L, W, n, l, C, B)
<1>1. Since(C, B, W - l) = Since(C, A, W - l)
  BY DEF Since
<1>2. \A s : Within(W, C, B, s) = Within(W, C, A, s)
  BY DEF Within
<1>3. Exact(L, W, n, l, C, B)
  BY <1>1 DEF Sound, Exact
<1>4. PICK S : Windows(L, W, n, l, C, A, S)
  BY DEF Sound
<1>5. Windows(L, W, n, l, C, B, S)
  BY <1>2, <1>4 DEF Windows
<1> QED BY <1>3, <1>5 DEF Sound

\* The first attempt of a window.
LEMMA OpenedKey ==
  ASSUME NEW L \in Nat \ {0}, NEW W \in Nat \ {0}, NEW l, NEW C, NEW A, NEW B, NEW a,
         NEW D, D = C \union {a},
         Sound(L, W, 0, l, C, A), a \notin C, B[a] = 0,
         \A b \in C : B[b] = A[b] /\ A[b] \in Nat
  PROVE  Sound(L, W, 1, W, D, B)
<1>1. PICK S : Windows(L, W, 0, l, C, A, S)
  BY DEF Sound
<1>2. S \subseteq Nat /\ \A s \in S : W <= s
  BY <1>1 DEF Windows
<1>3. \A b \in C : A[b] > 0
  <2> SUFFICES ASSUME NEW b \in C PROVE A[b] > 0
    OBVIOUS
  <2>1. PICK s \in S : s - W < A[b]
    BY <1>1 DEF Windows, Within
  <2> QED BY <2>1, <1>2
<1>4. Since(D, B, 0) = {a} /\ Within(W, D, B, 0) = {a}
  BY <1>3 DEF Since, Within
<1>5. \A s \in S : Within(W, D, B, s) = Within(W, C, A, s)
  <2> SUFFICES ASSUME NEW s \in S
               PROVE  Within(W, D, B, s) = Within(W, C, A, s)
    OBVIOUS
  <2>1. s \in Nat /\ W <= s
    BY <1>2
  <2> QED BY <2>1 DEF Within
<1>6. W - W = 0
  OBVIOUS
<1>7. Exact(L, W, 1, W, D, B)
  <2>1. Cardinality(Since(D, B, W - W)) = 1
    BY <1>4, <1>6, OneMember, Zenon
  <2> QED BY <2>1 DEF Exact
<1>8. Windows(L, W, 1, W, D, B, S \union {0})
  <2>1. S \union {0} \subseteq Nat
    BY <1>2
  <2>2. \A s, t \in S \union {0} : s < t => s + W <= t
    BY <1>1, <1>2 DEF Windows
  <2>3. \A b \in D : \E s \in S \union {0} : b \in Within(W, D, B, s)
    BY <1>1, <1>4, <1>5 DEF Windows
  <2>4. ASSUME NEW s \in S \union {0}
        PROVE  Cardinality(Within(W, D, B, s)) <= L
    <3>1. CASE s \in S
      <4>1. Cardinality(Within(W, C, A, s)) <= L
        BY <3>1, <1>1 DEF Windows
      <4>2. Within(W, D, B, s) = Within(W, C, A, s)
        BY <3>1, <1>5
      <4> QED BY <4>1, <4>2
    <3>2. CASE s = 0
      <4>1. Cardinality({a}) = 1
        BY OneMember
      <4> QED BY <3>2, <4>1, <1>4
    <3> QED BY <3>1, <3>2
  <2> QED BY <2>1, <2>2, <2>3, <2>4, <1>6 DEF Windows
<1> QED BY <1>7, <1>8 DEF Sound

\* One more attempt in a window that runs.
LEMMA CountedKey ==
  ASSUME NEW L \in Nat \ {0}, NEW W \in Nat \ {0}, NEW n \in Nat, NEW l \in Nat,
         NEW C, IsFiniteSet(C), NEW A, NEW B, NEW a,
         NEW D, D = C \union {a},
         Sound(L, W, n, l, C, A), 0 < n, n < L, a \notin C, B[a] = 0,
         \A b \in C : B[b] = A[b] /\ A[b] \in Nat
  PROVE  Sound(L, W, n + 1, l, D, B)
<1>1. PICK S : Windows(L, W, n, l, C, A, S)
  BY DEF Sound
<1> DEFINE now == W - l
<1>2. l \in 1 .. W /\ n = Cardinality(Since(C, A, now))
  BY DEF Sound, Exact
<1>3. now \in 0 .. W - 1 /\ now \in S /\ S \subseteq Nat
  BY <1>1, <1>2 DEF Windows
<1> HIDE DEF now
<1>4. Since(D, B, now) = Since(C, A, now) \union {a}
  BY <1>3 DEF Since
<1>5. Within(W, C, A, now) = Since(C, A, now)
      /\ Within(W, D, B, now) = Since(D, B, now)
  BY <1>3 DEF Since, Within
<1>6. Cardinality(Since(D, B, now)) = n + 1
  <2>1. IsFiniteSet(Since(C, A, now)) /\ a \notin Since(C, A, now)
    BY Parted DEF Since
  <2> QED BY <2>1, <1>2, <1>4, FS_AddElement
<1>7. ASSUME NEW s \in S, s # now
      PROVE  Within(W, D, B, s) = Within(W, C, A, s)
  <2>1. s \in Nat /\ W <= s
    <3>1. s \in Nat /\ (s < now => s + W <= now) /\ (now < s => now + W <= s)
      BY <1>1, <1>3 DEF Windows
    <3> QED BY <3>1, <1>3, <1>7
  <2> QED BY <2>1 DEF Within
<1>8. Exact(L, W, n + 1, l, D, B)
  BY <1>2, <1>6 DEF Exact, now
<1>9. Windows(L, W, n + 1, l, D, B, S)
  <2>1. S \subseteq Nat /\ \A s, t \in S : s < t => s + W <= t
    BY <1>1 DEF Windows
  <2>2. ASSUME NEW b \in D
        PROVE  \E s \in S : b \in Within(W, D, B, s)
    <3>1. CASE b = a
      BY <3>1, <1>3, <1>4, <1>5
    <3>2. CASE b \in C
      <4>1. PICK s \in S : b \in Within(W, C, A, s)
        BY <3>2, <1>1 DEF Windows
      <4>2. b \in Within(W, D, B, s)
        BY <4>1, <1>4, <1>5, <1>7
      <4> QED BY <4>2
    <3> QED BY <3>1, <3>2
  <2>3. ASSUME NEW s \in S
        PROVE  Cardinality(Within(W, D, B, s)) <= L
    <3>1. CASE s = now
      BY <3>1, <1>5, <1>6
    <3>2. CASE s # now
      <4>1. Cardinality(Within(W, C, A, s)) <= L
        BY <1>1 DEF Windows
      <4>2. Within(W, D, B, s) = Within(W, C, A, s)
        BY <3>2, <1>7
      <4> QED BY <4>1, <4>2
    <3> QED BY <3>1, <3>2
  <2>4. W - l \in S
    BY <1>3 DEF now
  <2>5. n + 1 # 0
    OBVIOUS
  <2> QED BY <2>1, <2>2, <2>3, <2>4, <2>5, Zenon DEF Windows
<1> QED BY <1>8, <1>9 DEF Sound

\* A tick: what is too old is forgotten, what is left is older, and a window that
\* is over takes its counter with it.
LEMMA TickedKey ==
  ASSUME NEW L \in Nat \ {0}, NEW W \in Nat \ {0}, NEW n \in Nat, NEW l \in Nat,
         NEW max \in Nat, W < max,
         NEW C, IsFiniteSet(C), NEW A, NEW B, NEW D \in SUBSET C,
         \A a \in C : A[a] < max => a \in D,
         \A a \in C : A[a] \in Nat,
         \A a \in D : B[a] = A[a] + 1,
         Sound(L, W, n, l, C, A)
  PROVE  Sound(L, W, IF l = 1 THEN 0 ELSE n, IF l > 0 THEN l - 1 ELSE 0, D, B)
<1>1. PICK S : Windows(L, W, n, l, C, A, S)
  BY DEF Sound
<1>2. Exact(L, W, n, l, C, A)
  BY DEF Sound
<1>3. D \in SUBSET C /\ S \in SUBSET Nat
  BY <1>1 DEF Windows
<1> DEFINE T == {s + 1 : s \in S}
<1>4. /\ T \subseteq Nat
      /\ \A s, t \in T : s < t => s + W <= t
      /\ \A a \in D : \E t \in T : a \in Within(W, D, B, t)
      /\ \A t \in T : Cardinality(Within(W, D, B, t)) <= L
  <2>1. /\ \A s, t \in S : s < t => s + W <= t
        /\ \A a \in C : \E s \in S : a \in Within(W, C, A, s)
        /\ \A s \in S : Cardinality(Within(W, C, A, s)) <= L
    BY <1>1 DEF Windows
  <2>2. T \subseteq Nat /\ \A s, t \in T : s < t => s + W <= t
    BY <2>1, <1>3
  <2>3. ASSUME NEW a \in D
        PROVE  \E t \in T : a \in Within(W, D, B, t)
    <3>1. PICK s \in S : a \in Within(W, C, A, s)
      BY <2>1, <1>3
    <3>2. a \in Within(W, D, B, s + 1)
      BY <3>1, <1>3 DEF Within
    <3> QED BY <3>1, <3>2
  <2>4. ASSUME NEW t \in T
        PROVE  Cardinality(Within(W, D, B, t)) <= L
    <3>1. PICK s \in S : t = s + 1
      OBVIOUS
    <3>2. Within(W, C, A, s) \subseteq C
      BY DEF Within
    <3>3. ASSUME NEW a \in Within(W, D, B, t)
          PROVE  a \in Within(W, C, A, s)
      <4>1. a \in D /\ a \in C /\ t - W < B[a] /\ B[a] <= t
        BY <1>3 DEF Within
      <4>2. s - W < A[a] /\ A[a] <= s
        BY <4>1, <3>1, <1>3
      <4> QED BY <4>1, <4>2 DEF Within
    <3>4. /\ Cardinality(Within(W, D, B, t)) <= Cardinality(Within(W, C, A, s))
          /\ Cardinality(Within(W, D, B, t)) \in Nat
          /\ Cardinality(Within(W, C, A, s)) \in Nat
      BY <3>2, <3>3, Parted
    <3>5. Cardinality(Within(W, C, A, s)) <= L
      BY <2>1
    <3> QED BY <3>4, <3>5
  <2> QED BY <2>2, <2>3, <2>4
<1>5. CASE l > 1
  <2>1. n > 0 /\ l \in 2 .. W
    BY <1>2, <1>5 DEF Exact
  <2>2. Since(D, B, W - (l - 1)) = Since(C, A, W - l)
    BY <2>1, <1>3 DEF Since
  <2>3. Exact(L, W, n, l - 1, D, B)
    BY <2>1, <2>2, <1>2 DEF Exact
  <2>4. W - (l - 1) \in T
    <3>1. W - l \in S
      BY <2>1, <1>1 DEF Windows
    <3>2. W - (l - 1) = (W - l) + 1
      BY <2>1
    <3> QED BY <3>1, <3>2
  <2> HIDE DEF T
  <2>5. Windows(L, W, n, l - 1, D, B, T)
    BY <2>1, <2>4, <1>4 DEF Windows
  <2>6. Sound(L, W, n, l - 1, D, B)
    BY <2>3, <2>5 DEF Sound
  <2> QED BY <2>6, <1>5
<1>6. CASE l <= 1
  <2>1. (IF l = 1 THEN 0 ELSE n) = 0 /\ (IF l > 0 THEN l - 1 ELSE 0) = 0
    BY <1>2, <1>6 DEF Exact
  <2>2. Exact(L, W, 0, 0, D, B)
    BY DEF Exact
  <2>3. \A s \in S : W <= s + 1
    <3>1. CASE l = 0
      BY <3>1, <1>1, <1>2, <1>3 DEF Windows, Exact
    <3>2. CASE l = 1
      <4>1. W - 1 \in S
        BY <3>2, <1>1, <1>2 DEF Windows, Exact
      <4>2. \A s \in S : s < W - 1 => s + W <= W - 1
        BY <4>1, <1>1 DEF Windows
      <4> QED BY <4>2, <1>3
    <3> QED BY <3>1, <3>2, <1>6
  <2>4. \A t \in T : W <= t
    BY <2>3
  <2> HIDE DEF T
  <2>5. Windows(L, W, 0, 0, D, B, T)
    BY <2>4, <1>4 DEF Windows
  <2>6. Sound(L, W, 0, 0, D, B)
    BY <2>2, <2>5 DEF Sound
  <2> QED BY <2>1, <2>6
<1> QED BY <1>5, <1>6

-----------------------------------------------------------------------------
(* The actions.                                                            *)

LEMMA KeyFacts ==
  ASSUME LimiterTypeOK, NEW k \in Key
  PROVE  /\ LimitOf(k) \in Nat \ {0} /\ WindowOf(k) \in Nat \ {0} /\ WindowOf(k) < MaxAge
         /\ count[k] \in Nat /\ left[k] \in Nat
         /\ counted[k] \subseteq Attempt /\ IsFiniteSet(counted[k])
         /\ \A a \in counted[k] : age[a] \in Nat
<1>1. count[k] \in Nat /\ left[k] \in Nat /\ counted[k] \subseteq Attempt
  BY DEF LimiterTypeOK
<1>2. IsFiniteSet(counted[k])
  BY <1>1, FS_Subset, RateAssumption
<1>3. \A a \in counted[k] : age[a] \in Nat
  BY <1>1, RateAssumption DEF LimiterTypeOK
<1> QED BY <1>1, <1>2, <1>3, KeysTyped

\* The attempt moves and nothing is counted.
LEMMA MovesOn ==
  ASSUME IInv, NEW a \in Attempt, NEW from \in Decision, NEW to \in Decision,
         To(a, from, to), to # "new", UNCHANGED <<count, left, age, counted>>
  PROVE  IInv'
<1> USE DEF IInv
<1>1. LimiterTypeOK'
  BY DEF LimiterTypeOK, To
<1>2. NewUncounted'
  BY DEF NewUncounted, To, LimiterTypeOK
<1>3. \A k \in Key : KeyOK(k)'
  BY DEF KeyOK, LimitOf, WindowOf
<1> QED BY <1>1, <1>2, <1>3

\* The attempt is counted under each of its keys.
LEMMA IsCounted ==
  ASSUME IInv, NEW a \in Attempt, To(a, "new", "allowed"), ~Full(a), Count(a)
  PROVE  IInv'
<1> USE DEF IInv
<1>1. attempt[a].pc = "new"
  BY DEF To
<1>2. \A k \in Key : a \notin counted[k]
  BY <1>1 DEF NewUncounted
<1>3. KeysOf(a) \subseteq Key
  BY KeysOfAttempt
<1>4. age' = [age EXCEPT ![a] = 0] /\ age'[a] = 0
  BY DEF Count, LimiterTypeOK
<1>5. LimiterTypeOK'
  <2>1. \A k \in Key : count[k] \in Nat /\ left[k] \in Nat /\ WindowOf(k) \in Nat
                        /\ counted[k] \subseteq Attempt
    BY KeyFacts
  <2>2. count' \in [Key -> Nat] /\ left' \in [Key -> Nat]
        /\ counted' \in [Key -> SUBSET Attempt]
    BY <2>1 DEF Count
  <2>3. age' \in [Attempt -> 0 .. MaxAge]
    BY <1>4, RateAssumption DEF LimiterTypeOK
  <2>4. attempt' \in [Attempt -> [pc : Decision, act : Action, x : Subject, y : Origin]]
    BY DEF LimiterTypeOK, To, Decision
  <2> QED BY <2>2, <2>3, <2>4 DEF LimiterTypeOK
<1>6. NewUncounted'
  <2> SUFFICES ASSUME NEW b \in Attempt, NEW k \in Key, attempt'[b].pc = "new"
               PROVE  b \notin counted'[k]
    BY DEF NewUncounted
  <2>1. b # a /\ attempt[b].pc = "new"
    BY DEF To, LimiterTypeOK
  <2>2. b \notin counted[k]
    BY <2>1 DEF NewUncounted
  <2> QED BY <2>1, <2>2 DEF Count
<1>7. ASSUME NEW k \in Key
      PROVE  KeyOK(k)'
  <2>1. \A b \in counted[k] : age'[b] = age[b] /\ age[b] \in Nat
    BY <1>2, <1>4, KeyFacts
  <2>2. CASE k \notin KeysOf(a)
    <3>1. count'[k] = count[k] /\ left'[k] = left[k] /\ counted'[k] = counted[k]
      BY <2>2 DEF Count
    <3>2. Sound(LimitOf(k), WindowOf(k), count[k], left[k], counted[k], age')
      BY <2>1, OthersAged DEF KeyOK
    <3> QED BY <3>1, <3>2 DEF KeyOK, LimitOf, WindowOf
  <2>3. CASE k \in KeysOf(a)
    <3>1. /\ count'[k] = count[k] + 1
          /\ left'[k] = IF count[k] = 0 \/ left[k] = 0 THEN WindowOf(k) ELSE left[k]
          /\ counted'[k] = counted[k] \union {a}
      BY <2>3 DEF Count
    <3>2. count[k] < LimitOf(k) /\ (count[k] = 0 <=> left[k] = 0)
      BY <2>3, KeyFacts DEF Full, KeyOK, Sound, Exact
    <3>3. CASE count[k] = 0
      <4>1. Sound(LimitOf(k), WindowOf(k), 0, left[k], counted[k], age)
        BY <3>3 DEF KeyOK
      <4>2. LimitOf(k) \in Nat \ {0} /\ WindowOf(k) \in Nat \ {0}
        BY KeysTyped
      <4>3. Sound(LimitOf(k), WindowOf(k), 1, WindowOf(k), counted'[k], age')
        BY <4>1, <4>2, <3>1, <2>1, <1>2, <1>4, OpenedKey
      <4>4. count'[k] = 1 /\ left'[k] = WindowOf(k)
        BY <3>1, <3>3
      <4> QED BY <4>3, <4>4 DEF KeyOK, LimitOf, WindowOf
    <3>4. CASE count[k] # 0
      <4>1. count[k] \in Nat /\ 0 < count[k]
        BY <3>4, KeyFacts
      <4>2. Sound(LimitOf(k), WindowOf(k), count[k] + 1, left[k], counted'[k], age')
        BY <4>1, <3>1, <3>2, <2>1, <1>2, <1>4, KeyFacts, CountedKey DEF KeyOK
      <4>3. left'[k] = left[k]
        BY <3>1, <3>2, <3>4
      <4> QED BY <4>2, <4>3, <3>1 DEF KeyOK, LimitOf, WindowOf
    <3> QED BY <3>3, <3>4
  <2> QED BY <2>2, <2>3
<1> QED BY <1>5, <1>6, <1>7

\* Some keys are gone, by a clear or a restart.
LEMMA AreDropped ==
  ASSUME IInv, NEW K \in SUBSET Key, Dropped(K), UNCHANGED age,
         attempt' \in [Attempt -> [pc : Decision, act : Action, x : Subject, y : Origin]],
         \A a \in Attempt : attempt'[a].pc = "new" => attempt[a].pc = "new"
  PROVE  IInv'
<1> USE DEF IInv
<1>1. LimiterTypeOK'
  BY DEF Dropped, LimiterTypeOK
<1>2. NewUncounted'
  BY DEF Dropped, NewUncounted
<1>3. ASSUME NEW k \in Key
      PROVE  KeyOK(k)'
  <2>1. CASE k \in K
    <3>1. Sound(LimitOf(k), WindowOf(k), 0, 0, {}, age)
      BY KeysTyped, EmptyKey
    <3>2. count'[k] = 0 /\ left'[k] = 0 /\ counted'[k] = {}
      BY <2>1 DEF Dropped
    <3> QED BY <3>1, <3>2 DEF KeyOK, LimitOf, WindowOf
  <2>2. CASE k \notin K
    BY <2>2 DEF Dropped, KeyOK, LimitOf, WindowOf
  <2> QED BY <2>1, <2>2
<1> QED BY <1>1, <1>2, <1>3

LEMMA Ticks ==
  ASSUME IInv, Tick
  PROVE  IInv'
<1> USE DEF IInv
<1>1. \A k \in Key :
        /\ left'[k] = IF left[k] > 0 THEN left[k] - 1 ELSE 0
        /\ count'[k] = IF left[k] = 1 THEN 0 ELSE count[k]
        /\ counted'[k] = {a \in counted[k] : age[a] < MaxAge}
  BY DEF Tick
<1>2. ASSUME NEW k \in Key, NEW a \in counted'[k]
      PROVE  age'[a] = age[a] + 1 /\ age[a] < MaxAge
  <2>1. a \in counted[k] /\ age[a] < MaxAge /\ a \in Attempt
    BY <1>1, KeyFacts
  <2> QED BY <1>2, <2>1 DEF Tick
<1>3. LimiterTypeOK'
  <2>1. left' \in [Key -> Nat] /\ count' \in [Key -> Nat]
    BY KeyFacts DEF Tick
  <2>2. counted' \in [Key -> SUBSET Attempt]
    BY KeyFacts DEF Tick
  <2>3. age' \in [Attempt -> 0 .. MaxAge]
    <3>1. ASSUME NEW a \in Attempt
          PROVE  (IF \E k \in Key : a \in counted'[k] THEN age[a] + 1 ELSE 0) \in 0 .. MaxAge
      <4>1. age[a] \in 0 .. MaxAge /\ MaxAge \in Nat
        BY RateAssumption DEF LimiterTypeOK
      <4>2. (\E k \in Key : a \in counted'[k]) => age[a] < MaxAge
        BY <1>2
      <4> QED BY <4>1, <4>2
    <3> QED BY <3>1 DEF Tick
  <2> QED BY <2>1, <2>2, <2>3 DEF Tick, LimiterTypeOK
<1>4. NewUncounted'
  BY <1>1 DEF NewUncounted, Tick
<1>5. ASSUME NEW k \in Key
      PROVE  KeyOK(k)'
  <2>1. \A a \in counted'[k] : age'[a] = age[a] + 1
    BY <1>2
  <2>2. Sound(LimitOf(k), WindowOf(k), count'[k], left'[k], counted'[k], age')
    <3> DEFINE D == counted'[k]
    <3>1. D \in SUBSET counted[k] /\ \A a \in counted[k] : age[a] < MaxAge => a \in D
      BY <1>1
    <3>2. /\ LimitOf(k) \in Nat \ {0} /\ WindowOf(k) \in Nat \ {0}
          /\ WindowOf(k) < MaxAge /\ MaxAge \in Nat
          /\ count[k] \in Nat /\ left[k] \in Nat /\ IsFiniteSet(counted[k])
          /\ \A a \in counted[k] : age[a] \in Nat
      BY KeyFacts, KeysTyped
    <3>3. Sound(LimitOf(k), WindowOf(k), count[k], left[k], counted[k], age)
      BY DEF KeyOK
    <3>4. \A a \in D : age'[a] = age[a] + 1
      BY <2>1
    <3> HIDE DEF D
    <3>5. Sound(LimitOf(k), WindowOf(k), IF left[k] = 1 THEN 0 ELSE count[k],
                IF left[k] > 0 THEN left[k] - 1 ELSE 0, D, age')
      BY <3>1, <3>2, <3>3, <3>4, TickedKey
    <3> QED BY <3>5, <1>1 DEF D
  <2> QED BY <2>2 DEF KeyOK, LimitOf, WindowOf
<1> QED BY <1>3, <1>4, <1>5

-----------------------------------------------------------------------------
(* The specification.                                                      *)

LEMMA Initially ==
  ASSUME LimiterInit
  PROVE  IInv
<1>1. LimiterTypeOK
  BY RateAssumption DEF LimiterInit, LimiterTypeOK, Decision
<1>2. NewUncounted
  BY DEF LimiterInit, NewUncounted
<1>3. ASSUME NEW k \in Key
      PROVE  KeyOK(k)
  <2>1. Sound(LimitOf(k), WindowOf(k), 0, 0, {}, age)
    BY KeysTyped, EmptyKey
  <2>2. count[k] = 0 /\ left[k] = 0 /\ counted[k] = {}
    BY DEF LimiterInit
  <2> QED BY <2>1, <2>2 DEF KeyOK
<1> QED BY <1>1, <1>2, <1>3 DEF IInv

LEMMA Stepwise ==
  ASSUME IInv, [LimiterNext]_limiterVars
  PROVE  IInv'
<1> DEFINE Same == UNCHANGED <<count, left, age, counted>>
<1>1. ASSUME NEW a \in Attempt, Admit(a)
      PROVE  IInv'
  BY <1>1, IsCounted DEF Admit
<1>2. ASSUME NEW a \in Attempt, Refuse(a) \/ FailOpen(a)
      PROVE  IInv'
  <2>1. Same /\ (To(a, "new", "refused") \/ To(a, "new", "allowed"))
    BY <1>2 DEF Refuse, FailOpen
  <2> QED BY <2>1, MovesOn DEF Decision
<1>3. ASSUME NEW a \in Attempt, AnswerMissed(a)
      PROVE  IInv'
  <2>1. CASE Full(a)
    BY <1>3, <2>1, MovesOn DEF AnswerMissed, Decision
  <2>2. CASE ~Full(a)
    BY <1>3, <2>2, IsCounted DEF AnswerMissed
  <2> QED BY <2>1, <2>2
<1>4. ASSUME NEW a \in Attempt, Check(a)
      PROVE  IInv'
  <2>1. Same /\ (To(a, "allowed", "cleared") \/ To(a, "allowed", "done"))
    BY <1>4 DEF Check
  <2> QED BY <2>1, MovesOn DEF Decision
<1>5. ASSUME NEW a \in Attempt, Clear(a)
      PROVE  IInv'
  <2> DEFINE K == {k \in KeysOf(a) : k[2] # "origin"}
  <2>1. K \in SUBSET Key
    BY KeysOfAttempt DEF IInv
  <2>2. Dropped(K) /\ UNCHANGED age /\ To(a, "cleared", "done")
    BY <1>5 DEF Clear
  <2>3. /\ attempt' \in [Attempt -> [pc : Decision, act : Action, x : Subject, y : Origin]]
        /\ \A b \in Attempt : attempt'[b].pc = "new" => attempt[b].pc = "new"
    BY <2>2 DEF To, Decision, IInv, LimiterTypeOK
  <2> HIDE DEF K
  <2> QED BY <2>1, <2>2, <2>3, AreDropped
<1>6. ASSUME NEW a \in Attempt, ClearLost(a)
      PROVE  IInv'
  BY <1>6, MovesOn DEF ClearLost, Decision
<1>7. CASE RedisRestart
  <2>1. Dropped(Key) /\ UNCHANGED <<attempt, age>>
    BY <1>7 DEF RedisRestart
  <2> QED BY <2>1, AreDropped DEF IInv, LimiterTypeOK
<1>8. CASE Tick
  BY <1>8, Ticks
<1>9. CASE UNCHANGED limiterVars
  <2> USE <1>9 DEF limiterVars, IInv
  <2>1. LimiterTypeOK' /\ NewUncounted'
    BY DEF LimiterTypeOK, NewUncounted
  <2>2. \A k \in Key : KeyOK(k)'
    BY DEF KeyOK, LimitOf, WindowOf
  <2> QED BY <2>1, <2>2
<1> QED
  BY <1>1, <1>2, <1>3, <1>4, <1>5, <1>6, <1>7, <1>8, <1>9 DEF LimiterNext

\* The inductive invariant holds in every reachable state of the limiter, whatever
\* the attempts, restarts, lost answers and ticks do in between.
THEOREM Invariance == LimiterSpec => []IInv
<1>1. LimiterInit => IInv
  BY Initially
<1>2. IInv /\ [LimiterNext]_limiterVars => IInv'
  BY Stepwise
<1> QED BY <1>1, <1>2, PTL DEF LimiterSpec

\* Counters and what is left of their windows are natural numbers, and ages stay
\* within what is remembered.
THEOREM TypeCorrect == LimiterSpec => []LimiterTypeOK
<1>1. IInv => LimiterTypeOK
  BY DEF IInv
<1> QED BY <1>1, Invariance, PTL

\* The counters of a state of the invariant are exact.
LEMMA ExactCounts ==
  ASSUME IInv
  PROVE  CountsTheWindow
<1> SUFFICES ASSUME NEW k \in Key
             PROVE  /\ count[k] <= LimitOf(k)
                    /\ left[k] <= WindowOf(k)
                    /\ (count[k] = 0) <=> (left[k] = 0)
                    /\ count[k] > 0 =>
                         count[k] = Cardinality({a \in counted[k] :
                                                   age[a] <= WindowOf(k) - left[k]})
  BY DEF CountsTheWindow
<1>1. Exact(LimitOf(k), WindowOf(k), count[k], left[k], counted[k], age)
  BY DEF IInv, KeyOK, Sound
<1> QED BY <1>1 DEF Exact, Since

\* A counter in Redis is the number of attempts let through in the window that
\* runs, never above the limit, and gone with the window: _RESERVE_SCRIPT checks
\* every limit before it counts under any.
THEOREM CountersExact == LimiterSpec => []CountsTheWindow
  BY Invariance, ExactCounts, PTL

\* What two windows hold is at most twice what one may.
LEMMA CoveredByTwo ==
  ASSUME NEW C, IsFiniteSet(C), NEW L \in Nat,
         NEW X \in SUBSET C, NEW Y \in SUBSET C, NEW T \in SUBSET (X \union Y),
         Cardinality(X) <= L, Cardinality(Y) <= L
  PROVE  Cardinality(T) <= 2 * L
<1>1. IsFiniteSet(X) /\ IsFiniteSet(Y)
  BY FS_Subset
<1>2. IsFiniteSet(X \union Y) /\ IsFiniteSet(X \intersect Y)
  BY <1>1, FS_Union, FS_Intersection
<1>3. Cardinality(X \union Y)
        = Cardinality(X) + Cardinality(Y) - Cardinality(X \intersect Y)
  BY <1>1, FS_Union
<1>4. Cardinality(T) <= Cardinality(X \union Y)
  BY <1>2, FS_Subset
<1>5. /\ Cardinality(T) \in Nat
      /\ Cardinality(X \union Y) \in Nat /\ Cardinality(X \intersect Y) \in Nat
      /\ Cardinality(X) \in Nat /\ Cardinality(Y) \in Nat
  <2>1. IsFiniteSet(T)
    BY <1>2, FS_Subset
  <2> QED BY <1>1, <1>2, <2>1, FS_CardinalityType
<1> QED BY <1>3, <1>4, <1>5

\* A stretch as long as a window meets two windows at most: of three, the outer
\* two would be twice as far apart.
LEMMA TwoWindowsMeet ==
  ASSUME NEW L \in Nat \ {0}, NEW W \in Nat \ {0}, NEW n, NEW l,
         NEW C, IsFiniteSet(C), NEW A, \A a \in C : A[a] \in Nat,
         NEW f \in Nat, NEW S, Windows(L, W, n, l, C, A, S),
         NEW T \in SUBSET C, \A a \in T : f <= A[a] /\ A[a] < f + W
  PROVE  Cardinality(T) <= 2 * L
<1>1. /\ S \subseteq Nat
      /\ \A s, t \in S : s < t => s + W <= t
      /\ \A a \in C : \E s \in S : a \in Within(W, C, A, s)
      /\ \A s \in S : Cardinality(Within(W, C, A, s)) <= L
  BY DEF Windows
<1> DEFINE Met(s) == s \in S /\ f <= s /\ s < f + W + W - 1
<1>2. ASSUME NEW a \in T
      PROVE  \E s : Met(s) /\ a \in Within(W, C, A, s)
  <2>1. PICK s \in S : a \in Within(W, C, A, s)
    BY <1>1
  <2>2. A[a] \in Nat /\ s \in Nat /\ f <= A[a] /\ A[a] < f + W
    BY <1>1
  <2>3. s - W < A[a] /\ A[a] <= s
    BY <2>1 DEF Within
  <2>4. f <= s /\ s < f + W + W - 1
    BY <2>2, <2>3
  <2> QED BY <2>1, <2>4
<1>3. ASSUME NEW s, NEW t, Met(s), Met(t), s < t, NEW u, Met(u)
      PROVE  u = s \/ u = t
  <2>1. s \in Nat /\ t \in Nat /\ u \in Nat
    BY <1>1, <1>3
  <2>2. /\ s + W <= t
        /\ u < s => u + W <= s
        /\ s < u => s + W <= u
        /\ u < t => u + W <= t
        /\ t < u => t + W <= u
    BY <1>1, <1>3
  <2>3. f <= s /\ t < f + W + W - 1 /\ f <= u /\ u < f + W + W - 1
    BY <1>3
  <2> QED BY <2>1, <2>2, <2>3
<1>4. \A s : Within(W, C, A, s) \in SUBSET C
  BY DEF Within
<1>5. \A s : Met(s) => s \in Nat /\ Cardinality(Within(W, C, A, s)) <= L
  BY <1>1
<1> HIDE DEF Met
<1>6. CASE \E s, t : Met(s) /\ Met(t) /\ s < t
  <2>1. PICK s, t : Met(s) /\ Met(t) /\ s < t
    BY <1>6
  <2>2. T \in SUBSET (Within(W, C, A, s) \union Within(W, C, A, t))
    BY <1>2, <1>3, <2>1
  <2> QED BY <2>1, <2>2, <1>4, <1>5, CoveredByTwo
<1>7. CASE ~\E s, t : Met(s) /\ Met(t) /\ s < t
  <2>1. CASE \E s : Met(s)
    <3>1. PICK s : Met(s)
      BY <2>1
    <3>2. ASSUME NEW u, Met(u)
          PROVE  u = s
      <4>1. s \in Nat /\ u \in Nat
        BY <1>5, <3>1, <3>2
      <4>2. ~(s < u) /\ ~(u < s)
        BY <1>7, <3>1, <3>2
      <4> QED BY <4>1, <4>2
    <3>3. T \in SUBSET (Within(W, C, A, s) \union Within(W, C, A, s))
      BY <1>2, <3>2
    <3> QED BY <3>1, <3>3, <1>4, <1>5, CoveredByTwo
  <2>2. CASE ~\E s : Met(s)
    <3>1. T = {}
      BY <1>2, <2>2
    <3>2. Cardinality(T) = 0
      BY <3>1, FS_EmptySet
    <3> QED BY <3>2
  <2> QED BY <2>1, <2>2
<1> QED BY <1>6, <1>7

\* Its windows hold no stretch of more than twice the limit.
LEMMA WindowsBound ==
  ASSUME IInv
  PROVE  StretchBounded
<1> SUFFICES ASSUME NEW k \in Key, NEW from \in 0 .. MaxAge
             PROVE  Cardinality({a \in counted[k] :
                                   from <= age[a] /\ age[a] < from + WindowOf(k)})
                      <= 2 * LimitOf(k)
  BY DEF StretchBounded
<1> DEFINE T == {a \in counted[k] : from <= age[a] /\ age[a] < from + WindowOf(k)}
<1>1. PICK S : Windows(LimitOf(k), WindowOf(k), count[k], left[k], counted[k], age, S)
  BY DEF IInv, KeyOK, Sound
<1>2. /\ LimitOf(k) \in Nat \ {0} /\ WindowOf(k) \in Nat \ {0}
      /\ IsFiniteSet(counted[k]) /\ \A a \in counted[k] : age[a] \in Nat
  BY KeyFacts DEF IInv
<1>3. from \in Nat
  BY RateAssumption
<1>4. T \in SUBSET counted[k] /\ \A a \in T : from <= age[a] /\ age[a] < from + WindowOf(k)
  OBVIOUS
<1> HIDE DEF T
<1>5. Cardinality(T) <= 2 * LimitOf(k)
  BY <1>1, <1>2, <1>3, <1>4, TwoWindowsMeet
<1> QED BY <1>5 DEF T

\* No stretch of time as long as a window, wherever it starts, holds more than
\* twice the limit of attempts let through under a key that was not cleared.
THEOREM StretchesBounded == LimiterSpec => []StretchBounded
  BY Invariance, WindowsBound, PTL

=============================================================================
