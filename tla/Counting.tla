------------------------------ MODULE Counting ------------------------------
(* How a count over a finite set follows a change at one of its members, and   *)
(* a count over a queue what is put in and taken out; what counts add up to;    *)
(* least elements and remainders of naturals.                                  *)
EXTENDS Integers, Sequences, FiniteSetTheorems, WellFoundedInduction, TLAPS

Is(v, w) == IF v = w THEN 1 ELSE 0

\* How many arguments in S the function f takes to v.
Count(S, f, v) == Cardinality({t \in S : f[t] = v})

\* When a function changes at one argument, the number of arguments with a given
\* value changes by what it gains and loses there.
LEMMA Recount ==
    ASSUME NEW S, IsFiniteSet(S), NEW f, NEW g, NEW s \in S, NEW v,
           \A t \in S \ {s} : g[t] = f[t]
    PROVE  /\ Count(S, f, v) \in Nat
           /\ Count(S, g, v) = Count(S, f, v) + Is(g[s], v) - Is(f[s], v)
           /\ f[s] = v => Count(S, f, v) >= 1
<1> DEFINE F == {t \in S : f[t] = v}
           G == {t \in S : g[t] = v}
           R == {t \in S \ {s} : f[t] = v}
<1>1. IsFiniteSet(F) /\ IsFiniteSet(G) /\ IsFiniteSet(R)
  BY FS_Subset
<1>2. Cardinality(R) \in Nat
  BY <1>1, FS_CardinalityType
<1>3. Cardinality(F) = Cardinality(R) + Is(f[s], v)
  <2>1. CASE f[s] = v
    <3>1. F = R \cup {s} /\ s \notin R
      BY <2>1
    <3>2. Cardinality(F) = Cardinality(R) + 1
      BY <1>1, <3>1, FS_AddElement
    <3>3. QED
      BY <2>1, <3>2 DEF Is
  <2>2. CASE f[s] # v
    <3>1. F = R
      BY <2>2
    <3>2. QED
      BY <1>2, <2>2, <3>1 DEF Is
  <2>3. QED
    BY <2>1, <2>2
<1>4. Cardinality(G) = Cardinality(R) + Is(g[s], v)
  <2>1. CASE g[s] = v
    <3>1. G = R \cup {s} /\ s \notin R
      BY <2>1
    <3>2. Cardinality(G) = Cardinality(R) + 1
      BY <1>1, <3>1, FS_AddElement
    <3>3. QED
      BY <2>1, <3>2 DEF Is
  <2>2. CASE g[s] # v
    <3>1. G = R
      BY <2>2
    <3>2. QED
      BY <1>2, <2>2, <3>1 DEF Is
  <2>3. QED
    BY <2>1, <2>2
<1> HIDE DEF F, G, R
<1>5. Cardinality(F) \in Nat /\ (f[s] = v => Cardinality(F) >= 1)
      /\ Cardinality(G) = Cardinality(F) + Is(g[s], v) - Is(f[s], v)
  BY <1>2, <1>3, <1>4 DEF Is
<1>6. QED
  BY <1>5 DEF F, G, Count
\* Where f takes at least m arguments in S to each of n different values, S has at
\* least n * m members.
LEMMA Crowded ==
    ASSUME NEW S, IsFiniteSet(S), NEW f, NEW n \in Nat, NEW m \in Nat, NEW v,
           \A i, j \in 1 .. n : v[i] = v[j] => i = j,
           \A i \in 1 .. n : m <= Count(S, f, v[i])
    PROVE  n * m <= Cardinality(S)
<1> DEFINE F(i) == {t \in S : f[t] = v[i]}
           c(i) == Cardinality(F(i))
           b(i) == CHOOSE g : g \in Bijection(1 .. c(i), F(i))
           P == (1 .. n) \X (1 .. m)
           h == [p \in P |-> b(p[1])[p[2]]]
<1>1. ASSUME NEW i \in 1 .. n
      PROVE  c(i) \in Nat /\ m <= c(i) /\ b(i) \in Bijection(1 .. c(i), F(i))
  <2>1. IsFiniteSet(F(i))
    BY FS_Subset
  <2>2. c(i) \in Nat /\ ExistsBijection(1 .. c(i), F(i))
    BY <2>1, FS_CardinalityType
  <2>3. b(i) \in Bijection(1 .. c(i), F(i))
    BY <2>2, Zenon DEF ExistsBijection
  <2>4. m <= c(i)
    BY DEF Count
  <2>5. QED
    BY <2>2, <2>3, <2>4
<1> HIDE DEF c, b
<1>2. ASSUME NEW i \in 1 .. n, NEW k \in 1 .. m
      PROVE  k \in 1 .. c(i) /\ b(i)[k] \in F(i)
  <2> DEFINE x == c(i)
  <2>1. k \in 1 .. c(i)
    <3>1. x \in Nat /\ m <= x
      BY <1>1, Zenon
    <3> HIDE DEF x
    <3>2. k \in 1 .. x
      BY <3>1
    <3>3. QED
      BY <3>2 DEF x
  <2>2. b(i) \in [1 .. c(i) -> F(i)]
    BY <1>1, Zenon DEF Bijection, Injection
  <2>3. QED
    BY <2>1, <2>2, Zenon
<1>3. ASSUME NEW i \in 1 .. n, NEW k \in 1 .. m, NEW j \in 1 .. n, NEW l \in 1 .. m,
             b(i)[k] = b(j)[l]
      PROVE  i = j /\ k = l
  <2>1. v[i] = v[j]
    BY <1>2, <1>3
  <2>2. i = j
    BY <2>1
  <2>3. \A x, y \in 1 .. c(i) : b(i)[x] = b(i)[y] => x = y
    <3>1. b(i) \in [1 .. c(i) -> F(i)] /\ IsInjective(b(i))
      BY <1>1, Zenon DEF Bijection, Injection
    <3>2. QED
      BY <3>1, Zenon DEF IsInjective
  <2>4. QED
    BY <1>2, <1>3, <2>2, <2>3, Zenon
<1>4. h \in Injection(P, S)
  <2>1. \A p \in P : p[1] \in 1 .. n /\ p[2] \in 1 .. m
    OBVIOUS
  <2>2. ASSUME NEW p \in P PROVE h[p] \in S
    BY <1>2, <2>1
  <2>3. ASSUME NEW p \in P, NEW q \in P, h[p] = h[q] PROVE p = q
    <3>1. p[1] = q[1] /\ p[2] = q[2]
      BY <1>3, <2>1, <2>3
    <3>2. QED
      BY <3>1
  <2>4. h \in [P -> S]
    BY <2>2, Zenon
  <2> HIDE DEF h, P
  <2>5. QED
    BY <2>3, <2>4, Zenon DEF Injection, IsInjective
<1>5. Cardinality(P) = n * m
  <2>1. IsFiniteSet(1 .. n) /\ Cardinality(1 .. n) = n
    BY FS_Interval
  <2>2. IsFiniteSet(1 .. m) /\ Cardinality(1 .. m) = m
    BY FS_Interval
  <2>3. QED
    BY <2>1, <2>2, FS_Product, Zenon
<1> HIDE DEF h, P
<1>6. Cardinality(P) <= Cardinality(S)
  BY <1>4, FS_Injection
<1>7. QED
  BY <1>5, <1>6

-----------------------------------------------------------------------------
\* How often v is in the queue q.
InQueue(q, v) == Count(DOMAIN q, q, v)

\* A queue holds a natural number of each value, and none only if it is nowhere.
LEMMA InQueueType ==
    ASSUME NEW S, NEW q \in Seq(S), NEW v
    PROVE  /\ InQueue(q, v) \in Nat
           /\ InQueue(q, v) = 0 => \A i \in DOMAIN q : q[i] # v
<1> DEFINE T == {i \in DOMAIN q : q[i] = v}
<1>1. Len(q) \in Nat /\ DOMAIN q = 1 .. Len(q)
  OBVIOUS
<1>2. IsFiniteSet(T)
  <2>1. IsFiniteSet(1 .. Len(q))
    BY <1>1, FS_Interval
  <2>2. QED
    BY <1>1, <2>1, FS_Subset
<1>3. Cardinality(T) \in Nat /\ (Cardinality(T) = 0 => T = {})
  BY <1>2, FS_CardinalityType, FS_EmptySet, Zenon
<1>4. QED
  BY <1>3, Zenon DEF InQueue, Count

\* The empty queue holds nothing.
LEMMA InQueueEmpty == \A v : InQueue(<<>>, v) = 0
<1>1. \A v : {i \in DOMAIN <<>> : <<>>[i] = v} = {}
  OBVIOUS
<1>2. QED
  BY <1>1, FS_EmptySet, Zenon DEF InQueue, Count

\* What is appended is in the queue once more, the rest as often as before.
LEMMA InQueueAppend ==
    ASSUME NEW S, NEW q \in Seq(S), NEW x \in S, NEW v
    PROVE  InQueue(Append(q, x), v) = InQueue(q, v) + Is(x, v)
<1> DEFINE n == Len(q) + 1
           T == {i \in DOMAIN q : q[i] = v}
           U == {i \in DOMAIN Append(q, x) : Append(q, x)[i] = v}
<1>1. Len(q) \in Nat /\ DOMAIN q = 1 .. Len(q) /\ DOMAIN Append(q, x) = 1 .. n
      /\ Append(q, x)[n] = x /\ \A i \in DOMAIN q : Append(q, x)[i] = q[i]
  OBVIOUS
<1>2. n \notin DOMAIN q /\ n \in 1 .. n /\ 1 .. n = DOMAIN q \cup {n}
  BY <1>1
<1>3. IsFiniteSet(T) /\ Cardinality(T) \in Nat
  <2>1. IsFiniteSet(1 .. Len(q))
    BY <1>1, FS_Interval
  <2>2. IsFiniteSet(T)
    BY <1>1, <2>1, FS_Subset
  <2>3. QED
    BY <2>2, FS_CardinalityType
<1>4. n \notin T
  BY <1>2
<1>5. InQueue(q, v) = Cardinality(T) /\ InQueue(Append(q, x), v) = Cardinality(U)
  BY Zenon DEF InQueue, Count
<1> HIDE DEF n
<1>6. CASE x = v
  <2>1. U = T \cup {n}
    BY <1>1, <1>2, <1>6, Zenon
  <2>2. Cardinality(U) = Cardinality(T) + 1
    BY <1>3, <1>4, <2>1, FS_AddElement, Zenon
  <2>3. QED
    BY <1>5, <1>6, <2>2, Zenon DEF Is
<1>7. CASE x # v
  <2>1. U = T
    BY <1>1, <1>2, <1>7, Zenon
  <2>2. Is(x, v) = 0
    BY <1>7 DEF Is
  <2> HIDE DEF T, U
  <2>3. QED
    BY <1>5, <1>3, <2>1, <2>2
<1>8. QED
  BY <1>6, <1>7

\* Taking the head of a queue takes one occurrence of it.
LEMMA InQueueTail ==
    ASSUME NEW S, NEW q \in Seq(S), q # <<>>, NEW v
    PROVE  /\ Tail(q) \in Seq(S) /\ Head(q) \in S
           /\ InQueue(q, v) = InQueue(Tail(q), v) + Is(Head(q), v)
<1> DEFINE T == {i \in DOMAIN q : q[i] = v}
           U == {i \in DOMAIN Tail(q) : Tail(q)[i] = v}
           V == {i \in 2 .. Len(q) : q[i] = v}
           f == [i \in U |-> i + 1]
<1>1. Len(q) \in Nat /\ Len(q) > 0 /\ DOMAIN q = 1 .. Len(q) /\ Head(q) = q[1]
      /\ DOMAIN Tail(q) = 1 .. Len(q) - 1
      /\ (\A i \in 1 .. Len(q) - 1 : Tail(q)[i] = q[i + 1])
      /\ Tail(q) \in Seq(S) /\ Head(q) \in S
  OBVIOUS
<1>2. IsFiniteSet(T) /\ IsFiniteSet(U) /\ IsFiniteSet(V)
  <2>1. IsFiniteSet(1 .. Len(q))
    BY <1>1, FS_Interval
  <2>2. T \subseteq 1 .. Len(q) /\ U \subseteq 1 .. Len(q) /\ V \subseteq 1 .. Len(q)
    BY <1>1
  <2>3. QED
    BY <2>1, <2>2, FS_Subset
<1>3. Cardinality(V) = Cardinality(U)
  <2>1. f \in [U -> V]
    BY <1>1
  <2>2. \A a, b \in U : f[a] = f[b] => a = b
    BY <1>1
  <2>3. \A j \in V : \E i \in U : f[i] = j
    <3> SUFFICES ASSUME NEW j \in V PROVE \E i \in U : f[i] = j
      OBVIOUS
    <3>1. j - 1 \in U /\ f[j - 1] = j
      BY <1>1
    <3>2. QED
      BY <3>1, Zenon
  <2>4. f \in Bijection(U, V)
    BY <2>1, <2>2, <2>3 DEF Bijection, Injection, Surjection, IsInjective
  <2>5. QED
    BY <1>2, <2>4, FS_Bijection, ZenonT(30) DEF ExistsBijection
<1>4. Cardinality(U) \in Nat
  BY <1>2, FS_CardinalityType, Zenon
<1>5. InQueue(q, v) = Cardinality(T) /\ InQueue(Tail(q), v) = Cardinality(U)
  BY Zenon DEF InQueue, Count
<1>6. CASE q[1] = v
  <2>1. T = V \cup {1} /\ 1 \notin V
    BY <1>1, <1>6
  <2>2. Cardinality(T) = Cardinality(V) + 1
    BY <1>2, <2>1, FS_AddElement, Zenon
  <2>3. Is(Head(q), v) = 1
    BY <1>1, <1>6 DEF Is
  <2> HIDE DEF T, U, V
  <2>4. QED
    BY <1>5, <1>1, <1>3, <2>2, <2>3
<1>7. CASE q[1] # v
  <2>1. T = V
    BY <1>1, <1>7
  <2>2. Is(Head(q), v) = 0
    BY <1>1, <1>7 DEF Is
  <2> HIDE DEF T, U, V
  <2>3. QED
    BY <1>5, <1>1, <1>3, <1>4, <2>1, <2>2
<1>8. QED
  BY <1>6, <1>7

-----------------------------------------------------------------------------
(* Naturals *)

\* A set of naturals that is not empty has a least element.
LEMMA Least ==
    ASSUME NEW T, T \subseteq Nat, T # {}
    PROVE  \E x \in T : \A y \in T : x <= y
<1> DEFINE R == {ss \in Nat \X Nat : ss[1] < ss[2]}
<1>1. IsWellFoundedOn(R, Nat)
  BY NatLessThanWellFounded DEF OpToRel
<1>2. \A x \in Nat, y \in Nat : <<y, x>> \in R <=> y < x
  OBVIOUS
<1> HIDE DEF R
<1>3. PICK x \in T : \A y \in T : ~ (<<y, x>> \in R)
  BY <1>1, WFMin, Zenon
<1>4. ASSUME NEW y \in T PROVE x <= y
  <2>1. x \in Nat /\ y \in Nat /\ ~(y < x)
    BY <1>2, <1>3, Zenon
  <2>2. QED
    BY <2>1
<1>5. QED
  BY <1>4

\* What remains when a multiple of n is taken away.
LEMMA Remainder ==
    ASSUME NEW n \in Nat \ {0}, NEW q \in Nat, NEW k \in 0 .. n - 1
    PROVE  (n * q + k) % n = k
  OBVIOUS

\* The remainder counts up by one, and starts again at 0.
LEMMA NextRemainder ==
    ASSUME NEW n \in Nat \ {0}, NEW x \in Nat
    PROVE  (x + 1) % n = IF (x % n) + 1 = n THEN 0 ELSE (x % n) + 1
<1> DEFINE k == x % n
           q == x \div n
<1>1. k \in 0 .. n - 1 /\ q \in Nat
  OBVIOUS
<1>2. x = n * q + k
  OBVIOUS
<1> HIDE DEF k, q
<1>3. CASE k + 1 = n
  <2>1. x + 1 = n * (q + 1) + 0
    BY <1>1, <1>2, <1>3
  <2>2. (n * (q + 1) + 0) % n = 0
    BY <1>1, Remainder
  <2>3. QED
    BY <1>3, <2>1, <2>2 DEF k
<1>4. CASE k + 1 # n
  <2>1. x + 1 = n * q + (k + 1)
    BY <1>1, <1>2
  <2>2. k + 1 \in 0 .. n - 1
    BY <1>1, <1>4
  <2>3. (n * q + (k + 1)) % n = k + 1
    BY <1>1, <2>2, Remainder
  <2>4. QED
    BY <1>4, <2>1, <2>3 DEF k
<1>5. QED
  BY <1>3, <1>4
=============================================================================
