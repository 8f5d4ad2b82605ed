--------------------------- MODULE PoliciesProofs ---------------------------
(***************************************************************************)
(* Proofs about Policies, for any number of replicas, reads and query      *)
(* shapes and any durations: the counts are exact, and the moving average  *)
(* stays within the durations it averages.  The invariant adds to          *)
(* CountsExact that a read on a replica is open, and that round-robin      *)
(* counts nothing.                                                         *)
(*                                                                         *)
(* The shares rest on the candidates being all of Order when all replicas  *)
(* are eligible.  The cheapest is then below average before it is chosen,  *)
(* and the turns of round-robin follow the counter's remainder.            *)
(***************************************************************************)
EXTENDS Policies, Counting

Ats == [r \in Reads |-> read[r].at]

\* Where a read that is not open is, and what each policy counts.
Inv ==
    /\ TypeOK
    /\ \A r \in Reads : ~read[r].open => read[r].at = "none"
    /\ \A a \in Replicas :
         inFlight[a] = IF policy = "round-robin" THEN 0 ELSE Count(Reads, Ats, a)

\* The longest duration is one, and none is longer.
LEMMA LongestBounds ==
    Longest \in Nat /\ \A d \in Durations : d \in Nat /\ d <= Longest
<1>1. Longest \in Durations /\ \A e \in Durations : e <= Longest
  BY PoliciesAssumption, Zenon DEF Longest
<1>2. QED
  BY <1>1, PoliciesAssumption

\* The moving average of two durations is no longer than the longest.
LEMMA Averages ==
    ASSUME NEW x \in 0 .. Longest, NEW y \in 0 .. Longest
    PROVE  (Alpha[1] * x + (Alpha[2] - Alpha[1]) * y) \div Alpha[2] \in 0 .. Longest
<1> DEFINE n == Alpha[1]
           k == Alpha[2] - Alpha[1]
           d == Alpha[2]
           L == Longest
<1>1. n \in Nat /\ n > 0 /\ k \in Nat /\ d = n + k /\ L \in Nat
  BY PoliciesAssumption, LongestBounds
<1>2. x \in Nat /\ y \in Nat /\ x <= L /\ y <= L
  BY <1>1
<1> HIDE DEF n, k, d, L
<1>3. ASSUME NEW c \in Nat, NEW u \in Nat, NEW w \in Nat, u <= w
      PROVE  c * u \in Nat /\ c * w \in Nat /\ c * u <= c * w
  BY <1>3
<1>4. n * x \in Nat /\ n * L \in Nat /\ n * x <= n * L
  BY <1>1, <1>2, <1>3
<1>5. k * y \in Nat /\ k * L \in Nat /\ k * y <= k * L
  BY <1>1, <1>2, <1>3
<1>6. d * L = n * L + k * L
  BY <1>1
<1> DEFINE m == n * x + k * y
<1>7. m \in Nat /\ m <= d * L
  BY <1>4, <1>5, <1>6
<1> HIDE DEF m
<1>8. d \in Nat /\ d > 0
  BY <1>1
<1>9. m \div d \in 0 .. L
  BY <1>1, <1>7, <1>8
<1>10. QED
  BY <1>9 DEF m, n, k, d, L

\* The invariant holds before any read.
LEMMA InvInit == Init => Inv
<1> SUFFICES ASSUME Init PROVE Inv
  OBVIOUS
<1>1. \A r \in Reads : read[r].at = "none"
  BY Zenon DEF Init
<1>2. Cardinality(Reads) \in Nat
  BY FS_CardinalityType, PoliciesAssumption
<1>3. read \in [Reads -> [at : Replicas \cup {"none"}, shape : Shapes,
                         exclude : SUBSET Replicas, open : BOOLEAN]]
  BY Zenon DEF Init
<1>4. DefaultService \in 0 .. Longest
  <2>1. DefaultService \in Durations
    BY DEF Durations
  <2>2. QED
    BY <2>1, LongestBounds
<1>5. TypeOK
  BY <1>2, <1>3, <1>4, PoliciesAssumption DEF Init, TypeOK
<1>6. ASSUME NEW a \in Replicas PROVE Count(Reads, Ats, a) = 0
  <2>1. {r \in Reads : Ats[r] = a} = {}
    BY <1>1, PoliciesAssumption DEF Ats
  <2>2. QED
    BY <2>1, FS_EmptySet DEF Count
<1>7. QED
  BY <1>1, <1>5, <1>6 DEF Init, Inv

\* When read r moves, the counts change by where it goes and where it was.
LEMMA Moved ==
    ASSUME Inv, NEW r \in Reads, NEW c, NEW a,
           read' = [read EXCEPT ![r] = c]
    PROVE  /\ Count(Reads, Ats, a) \in Nat
           /\ Count(Reads, Ats, a)' = Count(Reads, Ats, a) + Is(c.at, a) - Is(read[r].at, a)
           /\ read[r].at = a => Count(Reads, Ats, a) >= 1
<1> DEFINE f == Ats
           g == Ats'
<1>0. DOMAIN read = Reads
  BY DEF Inv, TypeOK
<1>1. g[r] = c.at /\ f[r] = read[r].at
  BY <1>0 DEF Ats
<1>7. \A t \in Reads \ {r} : g[t] = f[t]
  BY <1>0 DEF Ats
<1>2. IsFiniteSet(Reads)
  BY PoliciesAssumption
<1> HIDE DEF f, g
<1>3. /\ Count(Reads, f, a) \in Nat
      /\ Count(Reads, g, a) = Count(Reads, f, a) + Is(g[r], a) - Is(f[r], a)
      /\ f[r] = a => Count(Reads, f, a) >= 1
  BY <1>2, <1>7, Recount
<1>4. Count(Reads, g, a) = Count(Reads, Ats, a)'
  BY Zenon DEF g, Count
<1>5. Count(Reads, f, a) = Count(Reads, Ats, a)
  BY Zenon DEF f
<1>6. QED
  BY <1>1, <1>3, <1>4, <1>5

\* A count is at most the number of reads.
LEMMA CountBounded ==
    ASSUME NEW f, NEW a
    PROVE  Count(Reads, f, a) \in 0 .. Cardinality(Reads)
<1>1. /\ IsFiniteSet({t \in Reads : f[t] = a})
      /\ Cardinality({t \in Reads : f[t] = a}) <= Cardinality(Reads)
  BY FS_Subset, PoliciesAssumption
<1>2. QED
  BY <1>1, FS_CardinalityType, PoliciesAssumption DEF Count

\* A step that moves read r to c, keeps the counts in line with it and the other
\* variables in their types keeps the invariant.
LEMMA Keeps ==
    ASSUME Inv, NEW r \in Reads, NEW c,
           c \in [at : Replicas \cup {"none"}, shape : Shapes, exclude : SUBSET Replicas, open : BOOLEAN],
           read' = [read EXCEPT ![r] = c], ~c.open => c.at = "none",
           UNCHANGED policy, UNCHANGED steady, next' \in 0 .. Wrap - 1,
           picks' \in [Replicas -> Nat], latency' \in [Replicas -> [Shapes -> 0 .. Longest]],
           inFlight' \in [Replicas -> Int],
           policy = "round-robin" => inFlight' = inFlight,
           policy # "round-robin" => \A a \in Replicas :
             inFlight'[a] = inFlight[a] + Is(c.at, a) - Is(read[r].at, a)
    PROVE  Inv'
<1>1. \A a \in Replicas :
        inFlight'[a] = IF policy = "round-robin" THEN 0 ELSE Count(Reads, Ats, a)'
  <2>1. CASE policy = "round-robin"
    BY <2>1 DEF Inv
  <2>2. CASE policy # "round-robin"
    <3> SUFFICES ASSUME NEW a \in Replicas PROVE inFlight'[a] = Count(Reads, Ats, a)'
      BY <2>2
    <3>1. inFlight[a] = Count(Reads, Ats, a)
      BY <2>2 DEF Inv
    <3>2. Count(Reads, Ats, a)' = Count(Reads, Ats, a) + Is(c.at, a) - Is(read[r].at, a)
      BY Moved, ZenonT(60)
    <3>3. QED
      BY <2>2, <3>1, <3>2
  <2>3. QED
    BY <2>1, <2>2
<1>2. Cardinality(Reads) \in Nat
  BY FS_CardinalityType, PoliciesAssumption
<1>3. \A a \in Replicas : Count(Reads, Ats, a)' \in 0 .. Cardinality(Reads)
  <2>1. \A f, a : Count(Reads, f, a) \in 0 .. Cardinality(Reads)
    BY CountBounded
  <2> DEFINE g == Ats'
  <2>2. ASSUME NEW a \in Replicas PROVE Count(Reads, g, a) \in 0 .. Cardinality(Reads)
    <3> HIDE DEF g
    <3>1. QED
      BY <2>1
  <2>3. QED
    BY <2>2, Zenon DEF g, Count
<1>4. inFlight' \in [Replicas -> 0 .. Cardinality(Reads)]
  BY <1>1, <1>2, <1>3
<1>5. read \in [Reads -> [at : Replicas \cup {"none"}, shape : Shapes,
                         exclude : SUBSET Replicas, open : BOOLEAN]]
  BY DEF Inv, TypeOK
<1>6. read' \in [Reads -> [at : Replicas \cup {"none"}, shape : Shapes,
                          exclude : SUBSET Replicas, open : BOOLEAN]]
  BY <1>5
<1>7. TypeOK'
  BY <1>4, <1>6 DEF Inv, TypeOK
<1>8. \A t \in Reads : ~read'[t].open => read'[t].at = "none"
  BY <1>5 DEF Inv
<1>9. QED
  BY <1>1, <1>7, <1>8 DEF Inv

\* A read that begins, or that goes to the primary, counts nowhere.
LEMMA IdleKeeps ==
    ASSUME Inv, NEW r \in Reads, NEW c,
           c \in [at : {"none"}, shape : Shapes, exclude : SUBSET Replicas, open : BOOLEAN],
           read' = [read EXCEPT ![r] = c], read[r].at = "none",
           UNCHANGED <<next, inFlight, latency, picks, setup>>
    PROVE  Inv'
<1>1. c.at = "none" /\ c \in [at : Replicas \cup {"none"}, shape : Shapes,
                               exclude : SUBSET Replicas, open : BOOLEAN]
  OBVIOUS
<1>2. /\ UNCHANGED policy /\ UNCHANGED steady /\ next' \in 0 .. Wrap - 1 /\ picks' \in [Replicas -> Nat]
      /\ latency' \in [Replicas -> [Shapes -> 0 .. Longest]]
      /\ inFlight' = inFlight /\ inFlight \in [Replicas -> 0 .. Cardinality(Reads)]
  BY DEF Inv, TypeOK, setup
<1>3. inFlight' \in [Replicas -> Int]
  BY <1>2, FS_CardinalityType, PoliciesAssumption
<1>4. \A a \in Replicas : inFlight'[a] = inFlight[a] + Is(c.at, a) - Is(read[r].at, a)
  BY <1>1, <1>2, <1>3 DEF Is
<1>5. QED
  BY <1>1, <1>2, <1>3, <1>4, Keeps, Zenon

\* Choose takes a slot on the replica it returns; round-robin only advances.
LEMMA ChooseKeeps ==
    ASSUME Inv, NEW r \in Reads, NEW candidates, NEW f, NEW lag, NEW a \in Replicas,
           Choose(candidates, f, lag, a), read' = [read EXCEPT ![r].at = a],
           read[r].open, read[r].at = "none", UNCHANGED setup
    PROVE  Inv'
<1> DEFINE c == [read[r] EXCEPT !.at = a]
<1>1. read[r] \in [at : Replicas \cup {"none"}, shape : Shapes, exclude : SUBSET Replicas, open : BOOLEAN]
      /\ DOMAIN read = Reads
  BY DEF Inv, TypeOK
<1>2. c \in [at : Replicas \cup {"none"}, shape : Shapes, exclude : SUBSET Replicas, open : BOOLEAN]
      /\ c.at = a /\ c.open = read[r].open
  BY <1>1, Zenon
<1>3. read' = [read EXCEPT ![r] = c]
  BY <1>1
<1> HIDE DEF c
<1>4. Cardinality(Reads) \in Nat
  BY FS_CardinalityType, PoliciesAssumption
<1>5. /\ inFlight \in [Replicas -> Int] /\ next \in 0 .. Wrap - 1 /\ picks \in [Replicas -> Nat]
      /\ latency \in [Replicas -> [Shapes -> 0 .. Longest]]
  BY <1>4 DEF Inv, TypeOK
<1>6. /\ UNCHANGED policy /\ UNCHANGED steady /\ latency' \in [Replicas -> [Shapes -> 0 .. Longest]]
  BY <1>5 DEF setup, Choose
<1>7. next' \in 0 .. Wrap - 1
  <2>1. Advance \in 0 .. Wrap - 1
    <3>1. ASSUME NEW n \in Nat, NEW w \in Nat \ {0} PROVE n % w \in 0 .. w - 1
      BY <3>1
    <3>2. next + 1 \in Nat /\ Wrap \in Nat \ {0}
      BY <1>5, PoliciesAssumption, SMTT(30)
    <3>3. QED
      BY <3>1, <3>2 DEF Advance
  <2>2. QED
    BY <1>5, <2>1 DEF Choose
<1>8. picks' \in [Replicas -> Nat]
  <2> DEFINE p == [picks EXCEPT ![a] = @ + 1]
  <2>1. p \in [Replicas -> Nat]
    BY <1>5
  <2>2. Turn(a) = IF \A b \in Replicas : p[b] > 0 THEN [b \in Replicas |-> p[b] - 1] ELSE p
    BY DEF Turn
  <2> HIDE DEF p
  <2>3. Turn(a) \in [Replicas -> Nat]
    BY <2>1, <2>2
  <2>4. QED
    BY <1>5, <2>3 DEF Choose
<1>9. /\ policy = "round-robin" => inFlight' = inFlight
      /\ policy # "round-robin" => inFlight' = [inFlight EXCEPT ![a] = @ + 1]
  BY DEF Choose
<1>10. /\ inFlight' \in [Replicas -> Int]
       /\ policy # "round-robin" => \A b \in Replicas :
            inFlight'[b] = inFlight[b] + Is(c.at, b) - Is(read[r].at, b)
  <2>1. CASE policy = "round-robin"
    BY <1>5, <1>9, <2>1
  <2>2. CASE policy # "round-robin"
    <3>1. inFlight' = [inFlight EXCEPT ![a] = inFlight[a] + 1]
      BY <1>5, <1>9, <2>2
    <3>2. "none" \notin Replicas
      BY PoliciesAssumption
    <3>3. ASSUME NEW b \in Replicas
          PROVE  inFlight'[b] = inFlight[b] + Is(c.at, b) - Is(read[r].at, b)
      <4>1. Is(read[r].at, b) = 0 /\ Is(c.at, b) = IF b = a THEN 1 ELSE 0
        BY <1>2, <3>2 DEF Is
      <4>2. QED
        BY <1>5, <3>1, <4>1
    <3>4. QED
      BY <1>5, <3>1, <3>3
  <2>3. QED
    BY <2>1, <2>2
<1>11. ~c.open => c.at = "none"
  BY <1>2, Zenon
<1>12. c \in [at : Replicas \cup {"none"}, shape : Shapes, exclude : SUBSET Replicas, open : BOOLEAN]
  BY <1>2
<1>13. /\ policy = "round-robin" => inFlight' = inFlight
       /\ UNCHANGED policy /\ UNCHANGED steady
  BY <1>6, <1>9
<1>14. QED
  BY <1>3, <1>6, <1>7, <1>8, <1>10, <1>11, <1>12, <1>13, Keeps, Zenon

\* Release gives back the slot the read holds and averages the time it took in.
LEMMA ReleaseKeeps ==
    ASSUME Inv, NEW r \in Reads, NEW ms \in 0 .. Longest, NEW c,
           c \in [at : {"none"}, shape : Shapes, exclude : SUBSET Replicas, open : BOOLEAN],
           read[r].at \in Replicas, Release(read[r].at, read[r].shape, ms),
           read' = [read EXCEPT ![r] = c], UNCHANGED setup
    PROVE  Inv'
<1> DEFINE a == read[r].at
           f == read[r].shape
<1>1. a \in Replicas /\ f \in Shapes
  BY DEF Inv, TypeOK
<1>2. c.at = "none" /\ c \in [at : Replicas \cup {"none"}, shape : Shapes,
                               exclude : SUBSET Replicas, open : BOOLEAN]
  OBVIOUS
<1>3. Cardinality(Reads) \in Nat
  BY FS_CardinalityType, PoliciesAssumption
<1>4. /\ inFlight \in [Replicas -> Nat] /\ next \in 0 .. Wrap - 1 /\ picks \in [Replicas -> Nat]
      /\ latency \in [Replicas -> [Shapes -> 0 .. Longest]]
  BY <1>3 DEF Inv, TypeOK
<1>5. /\ UNCHANGED policy /\ UNCHANGED steady /\ next' \in 0 .. Wrap - 1 /\ picks' \in [Replicas -> Nat]
      /\ inFlight' = (IF policy = "round-robin" THEN inFlight ELSE Drop(a))
      /\ latency' = (IF policy = "scored" THEN Fold(a, f, ms) ELSE latency)
  BY <1>4 DEF setup, Release
<1>6. policy # "round-robin" => inFlight[a] >= 1
  <2>1. Count(Reads, Ats, a) >= 1
    <3> HIDE DEF a
    <3>1. read[r].at = a => Count(Reads, Ats, a) >= 1
      BY Moved, Zenon
    <3>2. QED
      BY <3>1 DEF a
  <2>2. QED
    BY <1>1, <2>1 DEF Inv
<1> HIDE DEF a, f
<1>7. Fold(a, f, ms) \in [Replicas -> [Shapes -> 0 .. Longest]]
  <2> DEFINE v == (Alpha[1] * ms + (Alpha[2] - Alpha[1]) * latency[a][f]) \div Alpha[2]
  <2>1. v \in 0 .. Longest
    <3>1. latency[a][f] \in 0 .. Longest
      BY <1>1, <1>4
    <3>2. QED
      BY <3>1, Averages, Zenon
  <2>2. Fold(a, f, ms) = [latency EXCEPT ![a][f] = v]
    BY <1>1, <1>4 DEF Fold
  <2> HIDE DEF v
  <2>3. QED
    BY <1>1, <1>4, <2>1, <2>2
<1>8. latency' \in [Replicas -> [Shapes -> 0 .. Longest]]
  BY <1>4, <1>5, <1>7
<1>9. /\ inFlight' \in [Replicas -> Int]
      /\ policy # "round-robin" => \A b \in Replicas :
           inFlight'[b] = inFlight[b] + Is(c.at, b) - Is(a, b)
  <2>1. CASE policy = "round-robin"
    BY <1>4, <1>5, <2>1
  <2>2. CASE policy # "round-robin"
    <3>1. inFlight' = [inFlight EXCEPT ![a] = inFlight[a] - 1]
      <4>1. inFlight' = [inFlight EXCEPT ![a] = IF inFlight[a] <= 1 THEN 0 ELSE inFlight[a] - 1]
        BY <1>1, <1>4, <1>5, <2>2 DEF Drop
      <4>2. inFlight[a] \in Nat /\ inFlight[a] >= 1
        BY <1>1, <1>4, <1>6, <2>2
      <4>3. (IF inFlight[a] <= 1 THEN 0 ELSE inFlight[a] - 1) = inFlight[a] - 1
        BY <4>2
      <4>4. QED
        BY <4>1, <4>3, Zenon
    <3>2. "none" \notin Replicas
      BY PoliciesAssumption
    <3>3. ASSUME NEW b \in Replicas
          PROVE  inFlight'[b] = inFlight[b] + Is(c.at, b) - Is(a, b)
      <4>1. Is(c.at, b) = 0 /\ Is(a, b) = IF b = a THEN 1 ELSE 0
        BY <1>2, <3>2 DEF Is
      <4>2. QED
        BY <1>1, <1>4, <3>1, <4>1
    <3>4. QED
      BY <1>1, <1>4, <3>1, <3>3
  <2>3. QED
    BY <2>1, <2>2
<1>10. policy = "round-robin" => inFlight' = inFlight
  BY <1>5
<1>11. policy # "round-robin" => \A b \in Replicas :
         inFlight'[b] = inFlight[b] + Is(c.at, b) - Is(read[r].at, b)
  BY <1>9 DEF a
<1>12. QED
  BY <1>2, <1>5, <1>8, <1>9, <1>10, <1>11, Keeps, Zenon

\* The invariant holds in every reachable state.
LEMMA PoliciesInvariant == Spec => []Inv
<1>1. Inv /\ [Next]_vars => Inv'
  <2> SUFFICES ASSUME Inv, [Next]_vars PROVE Inv'
    OBVIOUS
  <2>0. ASSUME NEW r \in Reads
        PROVE  /\ read[r] \in [at : Replicas \cup {"none"}, shape : Shapes, exclude : SUBSET Replicas,
                              open : BOOLEAN]
               /\ ~read[r].open => read[r].at = "none"
               /\ DOMAIN read = Reads
    BY DEF Inv, TypeOK
  <2>1. ASSUME NEW r \in Reads, Begin(r), UNCHANGED setup PROVE Inv'
    <3>1. PICK f \in Shapes :
            read' = [read EXCEPT ![r] = [at |-> "none", shape |-> f, exclude |-> {}, open |-> TRUE]]
      BY <2>1, Zenon DEF Begin
    <3>2. UNCHANGED <<next, inFlight, latency, picks, setup>> /\ read[r].at = "none"
      BY <2>0, <2>1 DEF Begin
    <3> DEFINE c == [at |-> "none", shape |-> f, exclude |-> {}, open |-> TRUE]
    <3>3. c \in [at : {"none"}, shape : Shapes, exclude : SUBSET Replicas, open : BOOLEAN]
          /\ read' = [read EXCEPT ![r] = c]
      BY <3>1
    <3> HIDE DEF c
    <3>4. QED
      BY <3>2, <3>3, IdleKeeps, Zenon
  <2>2. ASSUME NEW r \in Reads, Dispatch(r), UNCHANGED setup PROVE Inv'
    <3>1. PICK eligible :
            LET candidates == Candidates(eligible \ read[r].exclude)
            IN \/ /\ candidates = <<>>
                  /\ read' = [read EXCEPT ![r].open = FALSE, ![r].exclude = {}]
                  /\ UNCHANGED <<next, inFlight, latency, picks>>
               \/ /\ candidates # <<>>
                  /\ \E lag \in [Replicas -> IF steady THEN {0} ELSE 0 .. MaxLag],
                        a \in Replicas :
                        /\ Choose(candidates, read[r].shape, lag, a)
                        /\ read' = [read EXCEPT ![r].at = a]
      BY <2>2, Zenon DEF Dispatch
    <3> DEFINE candidates == Candidates(eligible \ read[r].exclude)
    <3>2. read[r].open /\ read[r].at = "none"
      BY <2>2, Zenon DEF Dispatch
    <3>3. \/ /\ read' = [read EXCEPT ![r].open = FALSE, ![r].exclude = {}]
             /\ UNCHANGED <<next, inFlight, latency, picks>>
          \/ \E lag \in [Replicas -> IF steady THEN {0} ELSE 0 .. MaxLag], a \in Replicas :
                 /\ Choose(candidates, read[r].shape, lag, a)
                 /\ read' = [read EXCEPT ![r].at = a]
      BY <3>1, Zenon
    <3> HIDE DEF candidates
    <3>4. ASSUME read' = [read EXCEPT ![r].open = FALSE, ![r].exclude = {}],
                 UNCHANGED <<next, inFlight, latency, picks>>
          PROVE  Inv'
      <4> DEFINE c == [read[r] EXCEPT !.open = FALSE, !.exclude = {}]
      <4>1. c \in [at : {"none"}, shape : Shapes, exclude : SUBSET Replicas, open : BOOLEAN]
        BY <2>0, <3>2, Zenon
      <4>2. read' = [read EXCEPT ![r] = c]
        BY <2>0, <3>4, Zenon
      <4> HIDE DEF c
      <4>3. QED
        BY <2>2, <3>2, <3>4, <4>1, <4>2, IdleKeeps, Zenon
    <3>5. ASSUME NEW lag, NEW a \in Replicas, Choose(candidates, read[r].shape, lag, a),
                 read' = [read EXCEPT ![r].at = a]
          PROVE  Inv'
      BY <2>2, <3>2, <3>5, ChooseKeeps, Zenon
    <3>6. QED
      BY <3>3, <3>4, <3>5, Zenon
  <2>3. ASSUME NEW r \in Reads, Failover(r), UNCHANGED setup, read[r].at \in Replicas PROVE Inv'
    <3> DEFINE c == [read[r] EXCEPT !.at = "none", !.exclude = @ \cup {read[r].at}]
    <3>1. c \in [at : {"none"}, shape : Shapes, exclude : SUBSET Replicas, open : BOOLEAN]
      BY <2>0, <2>3, Zenon
    <3>2. read' = [read EXCEPT ![r] = c]
      BY <2>0, <2>3, Zenon DEF Failover
    <3> HIDE DEF c
    <3>3. 0 \in 0 .. Longest /\ Release(read[r].at, read[r].shape, 0)
      BY <2>3, LongestBounds DEF Failover
    <3>4. QED
      BY <2>3, <3>1, <3>2, <3>3, ReleaseKeeps, Zenon
  <2>4. ASSUME NEW r \in Reads, Finish(r), UNCHANGED setup PROVE Inv'
    <3> DEFINE c == [read[r] EXCEPT !.at = "none", !.exclude = {}, !.open = FALSE]
    <3>1. c \in [at : {"none"}, shape : Shapes, exclude : SUBSET Replicas, open : BOOLEAN]
      BY <2>0, Zenon
    <3>2. read' = [read EXCEPT ![r] = c]
      BY <2>0, <2>4 DEF Finish
    <3> HIDE DEF c
    <3>3. read[r].at \in Replicas
      BY <2>0, <2>4 DEF Finish
    <3>4. PICK ms \in Latency[read[r].at] : Release(read[r].at, read[r].shape, ms)
      BY <2>4 DEF Finish
    <3>5. ms \in 0 .. Longest
      BY <3>3, LongestBounds DEF Durations
    <3>6. QED
      BY <2>4, <3>1, <3>2, <3>3, <3>4, <3>5, ReleaseKeeps, Zenon
  <2>5. ASSUME UNCHANGED vars PROVE Inv'
    BY <2>5, Zenon DEF vars, setup, Inv, TypeOK, Ats, Count
  <2>6. QED
    <3>1. ASSUME NEW r \in Reads, Failover(r), UNCHANGED setup PROVE Inv'
      <4>1. read[r].at \in Replicas
        BY <2>0, <3>1, PoliciesAssumption DEF Failover
      <4>2. QED
        BY <2>3, <3>1, <4>1
    <3>2. QED
      BY <2>1, <2>2, <3>1, <2>4, <2>5 DEF Next
<1>2. QED
  BY <1>1, InvInit, PTL DEF Spec

\* For any replicas, reads and durations every variable keeps its type: no count
\* passes the number of reads, and the moving average of Fold never leaves the
\* range of the durations it averages, latency 0 of a failover included.
THEOREM PoliciesTyped == Spec => []TypeOK
<1>1. Inv => TypeOK
  BY DEF Inv
<1>2. QED
  BY <1>1, PoliciesInvariant, PTL

\* The in-flight counts are exact for any number of replicas and reads, however
\* their releases and failovers interleave (Choose, Release).
THEOREM PoliciesCountsExact == Spec => []CountsExact
<1>1. Inv => CountsExact
  <2> SUFFICES ASSUME Inv, policy # "round-robin", NEW a \in Replicas
               PROVE  inFlight[a] = Cardinality(At(a))
    BY DEF CountsExact
  <2>1. {r \in Reads : Ats[r] = a} = At(a)
    BY DEF Ats, At
  <2>2. QED
    BY <2>1 DEF Inv, Count
<1>2. QED
  BY <1>1, PoliciesInvariant, PTL
-----------------------------------------------------------------------------
(* Shares *)

\* No replica is listed twice.
Distinct == \A i, j \in 1 .. Len(Order) : Order[i] = Order[j] => i = j

\* While all replicas stay eligible no read excludes one, and no replica has more
\* than its share of the reads.
Shares ==
    /\ steady => \A r \in Reads : read[r].exclude = {}
    /\ policy = "least-in-flight" /\ steady =>
         \A a \in Replicas : Len(Order) * (inFlight[a] - 1) < Cardinality(Reads)

\* Of the turns in round-robin's rotation, those before the counter's are taken.
Turns ==
    \A i \in 1 .. Len(Order) :
        picks[Order[i]] = IF policy = "round-robin" /\ steady /\ i <= next % Len(Order) THEN 1 ELSE 0

\* With every replica eligible the loop of selectReadTarget appends them all.
LEMMA AllCandidates == Candidates(Replicas) = Order
<1> DEFINE n == Len(Order)
           Up(f) == [i \in 0 .. n |->
                       IF i = 0 THEN <<>>
                       ELSE IF Order[i] \in Replicas THEN Append(f[i - 1], Order[i])
                       ELSE f[i - 1]]
           u == CHOOSE f : f = Up(f)
           w == [i \in 0 .. n |-> SubSeq(Order, 1, i)]
<1>1. n \in Nat /\ Order \in Seq(Replicas) /\ \A i \in 1 .. n : Order[i] \in Replicas
  BY PoliciesAssumption
<1>2. \A i \in 1 .. n : Append(SubSeq(Order, 1, i - 1), Order[i]) = SubSeq(Order, 1, i)
  BY <1>1
<1>3. w = Up(w)
  <2>1. SubSeq(Order, 1, 0) = <<>>
    BY <1>1
  <2>2. ASSUME NEW i \in 0 .. n PROVE w[i] = Up(w)[i]
    BY <1>1, <1>2, <2>1, SMTT(30)
  <2>3. QED
    BY <2>2, Zenon
<1>4. u = Up(u)
  BY <1>3, Zenon
<1>5. Candidates(Replicas) = u[n]
  BY DEF Candidates
<1> HIDE DEF u
<1>6. \A i \in 0 .. n : u[i] = SubSeq(Order, 1, i)
  <2> DEFINE T == {i \in 0 .. n : u[i] # SubSeq(Order, 1, i)}
  <2>1. ASSUME T # {} PROVE FALSE
    <3>1. T \subseteq Nat
      BY <1>1
    <3>2. PICK x \in T : \A y \in T : x <= y
      BY <2>1, <3>1, Least, Zenon
    <3>3. CASE x = 0
      BY <1>1, <1>4, <3>3
    <3>4. CASE x # 0
      <4>1. x - 1 \in 0 .. n /\ x \in 1 .. n /\ x - 1 \notin T
        BY <1>1, <3>2, <3>4
      <4>2. u[x - 1] = SubSeq(Order, 1, x - 1)
        BY <4>1
      <4>3. u[x] = Append(u[x - 1], Order[x])
        <5>1. x \in 0 .. n /\ Order[x] \in Replicas
          BY <1>1, <4>1
        <5>2. u[x] = Up(u)[x]
          BY <1>4, Zenon
        <5>3. QED
          BY <3>4, <5>1, <5>2
      <4>4. u[x] = SubSeq(Order, 1, x)
        BY <1>2, <4>1, <4>2, <4>3
      <4>5. QED
        BY <4>4
    <3>5. QED
      BY <3>3, <3>4
  <2>2. QED
    BY <2>1
<1>7. SubSeq(Order, 1, n) = Order
  BY <1>1
<1>8. QED
  BY <1>1, <1>5, <1>6, <1>7

\* Cheapest finds a replica whose cost no other undercuts.
LEMMA CheapestFound ==
    ASSUME NEW cost \in [Replicas -> Nat]
    PROVE  /\ Cheapest(Order, cost) \in Replicas
           /\ \A b \in Replicas : cost[Cheapest(Order, cost)] <= cost[b]
<1> DEFINE n == Len(Order)
           x(i) == cost[Order[i]]
           Best(i) == \A j \in 1 .. n : x(i) <= x(j) /\ (j < i => x(i) < x(j))
<1>1. n \in Nat /\ n > 0
  BY PoliciesAssumption
<1>2. \A i \in 1 .. n : Order[i] \in Replicas /\ x(i) \in Nat
  BY DEF Replicas
<1>3. \A b \in Replicas : \E i \in 1 .. n : Order[i] = b
  BY DEF Replicas
<1>4. PICK v \in Nat : /\ \E i \in 1 .. n : x(i) = v
                       /\ \A i \in 1 .. n : v <= x(i)
  <2> DEFINE T == {x(i) : i \in 1 .. n}
  <2>1. T \subseteq Nat /\ x(1) \in T
    BY <1>1, <1>2
  <2>2. PICK v \in T : \A y \in T : v <= y
    <3> HIDE DEF T
    <3>1. QED
      BY <2>1, Least, Zenon
  <2>3. QED
    BY <2>1, <2>2, Zenon
<1>5. PICK i \in 1 .. n : x(i) = v /\ \A j \in 1 .. n : x(j) = v => i <= j
  <2> DEFINE T == {i \in 1 .. n : x(i) = v}
  <2>1. T \subseteq Nat /\ T # {}
    BY <1>1, <1>4
  <2>2. PICK k \in T : \A y \in T : k <= y
    <3> HIDE DEF T
    <3>1. QED
      BY <2>1, Least, Zenon
  <2>3. QED
    BY <2>2
<1>6. Best(i)
  <2> SUFFICES ASSUME NEW j \in 1 .. n PROVE x(i) <= x(j) /\ (j < i => x(i) < x(j))
    OBVIOUS
  <2> DEFINE y == x(j)
  <2>1. y \in Nat /\ v \in Nat /\ v <= y /\ (y = v => i <= j) /\ x(i) = v
    BY <1>2, <1>4, <1>5
  <2>2. i \in Nat /\ j \in Nat
    BY <1>1
  <2> HIDE DEF x, y
  <2>3. v <= y /\ (j < i => v < y)
    BY <2>1, <2>2
  <2>4. QED
    BY <2>1, <2>3 DEF y
<1> DEFINE k == CHOOSE i_1 \in 1 .. n : Best(i_1)
<1>7. k \in 1 .. n /\ Best(k)
  BY <1>6, Zenon
<1>8. Cheapest(Order, cost) = Order[k]
  BY Zenon DEF Cheapest
<1> HIDE DEF k
<1>9. QED
  BY <1>2, <1>3, <1>7, <1>8

\* A dispatch while all replicas stay eligible lets the policy choose among them all.
LEMMA SteadyDispatch ==
    ASSUME Inv, Shares, steady, NEW r \in Reads, Dispatch(r)
    PROVE  /\ read[r].at = "none"
           /\ \E f, lag, a : /\ a \in Replicas /\ Choose(Order, f, lag, a)
                             /\ read' = [read EXCEPT ![r].at = a]
<1>1. read[r].exclude = {}
  BY DEF Shares
<1>2. Candidates(Replicas \ read[r].exclude) = Order
  <2>1. Replicas \ read[r].exclude = Replicas
    BY <1>1
  <2>2. QED
    BY <2>1, AllCandidates, Zenon
<1>3. Order # <<>>
  BY PoliciesAssumption
<1>4. LET candidates == Candidates(Replicas \ read[r].exclude)
      IN \/ candidates = <<>>
         \/ \E lag, a : /\ a \in Replicas /\ Choose(candidates, read[r].shape, lag, a)
                        /\ read' = [read EXCEPT ![r].at = a]
  BY Zenon DEF Dispatch
<1>5. PICK lag, a : /\ a \in Replicas /\ Choose(Order, read[r].shape, lag, a)
                    /\ read' = [read EXCEPT ![r].at = a]
  BY <1>2, <1>3, <1>4, Zenon
<1>6. read[r].at = "none"
  BY DEF Dispatch
<1>7. QED
  BY <1>5, <1>6, Zenon

\* While all replicas stay eligible no read comes to exclude one.
LEMMA NoneExcluded ==
    ASSUME Inv, Shares, [Next]_vars
    PROVE  steady' => \A r \in Reads : read'[r].exclude = {}
<1> SUFFICES ASSUME steady', NEW t \in Reads PROVE read'[t].exclude = {}
  OBVIOUS
<1>1. steady
  BY Zenon DEF Next, vars, setup
<1>2. read[t].exclude = {} /\ DOMAIN read = Reads
  BY <1>1 DEF Shares, Inv, TypeOK
<1>3. \A r \in Reads : DOMAIN read[r] = {"at", "shape", "exclude", "open"}
  BY DEF Inv, TypeOK
<1>4. ASSUME NEW r \in Reads, Begin(r) PROVE read'[t].exclude = {}
  BY <1>2, <1>4 DEF Begin
<1>5. ASSUME NEW r \in Reads, Dispatch(r) PROVE read'[t].exclude = {}
  <2>1. PICK a : read' = [read EXCEPT ![r].at = a]
    BY <1>1, <1>5, SteadyDispatch, Zenon
  <2>2. QED
    BY <1>2, <1>3, <2>1
<1>6. ASSUME NEW r \in Reads, Failover(r) PROVE FALSE
  BY <1>1, <1>6 DEF Failover
<1>7. ASSUME NEW r \in Reads, Finish(r) PROVE read'[t].exclude = {}
  BY <1>2, <1>3, <1>7 DEF Finish
<1>8. ASSUME UNCHANGED vars PROVE read'[t].exclude = {}
  BY <1>2, <1>8 DEF vars
<1>9. QED
  BY <1>4, <1>5, <1>6, <1>7, <1>8, Zenon DEF Next

\* The replica with the fewest reads has, before one more is sent to it, less than
\* its share: the reads on all replicas are at most all but the one to send.
LEMMA LeastLoaded ==
    ASSUME Inv, Distinct, policy = "least-in-flight", NEW r \in Reads, read[r].at = "none",
           NEW a \in Replicas, \A b \in Replicas : inFlight[a] <= inFlight[b]
    PROVE  Len(Order) * inFlight[a] < Cardinality(Reads)
<1> DEFINE S == Reads \ {r}
           n == Len(Order)
           m == inFlight[a]
           N == Cardinality(S)
           R == Cardinality(Reads)
<1>1. IsFiniteSet(Reads) /\ R \in Nat
  BY FS_CardinalityType, PoliciesAssumption
<1>2. IsFiniteSet(S) /\ N = R - 1
  BY <1>1, FS_RemoveElement, Zenon
<1>3. n \in Nat /\ m \in Nat
  BY <1>1, PoliciesAssumption DEF Inv, TypeOK
<1>4. ASSUME NEW b \in Replicas PROVE m <= Count(S, Ats, b)
  <2>1. Ats[r] # b
    BY PoliciesAssumption DEF Ats
  <2>2. {t \in S : Ats[t] = b} = {t \in Reads : Ats[t] = b}
    BY <2>1, Zenon
  <2>3. Count(S, Ats, b) = Count(Reads, Ats, b)
    BY <2>2, Zenon DEF Count
  <2>4. Count(Reads, Ats, b) = inFlight[b]
    BY DEF Inv
  <2>5. QED
    BY <2>3, <2>4
<1>5. \A i \in 1 .. n : Order[i] \in Replicas
  BY DEF Replicas
<1>6. \A i \in 1 .. n : m <= Count(S, Ats, Order[i])
  BY <1>4, <1>5, Zenon
<1>7. \A i, j \in 1 .. n : Order[i] = Order[j] => i = j
  BY DEF Distinct
<1> HIDE DEF S, n, m
<1>8. n * m <= N
  BY <1>2, <1>3, <1>6, <1>7, Crowded, Zenon
<1> HIDE DEF N, R
<1>9. n * m < R
  <2> DEFINE p == n * m
  <2>1. p \in Nat
    BY <1>3
  <2> HIDE DEF p
  <2>2. p < R
    BY <1>1, <1>2, <1>8, <2>1 DEF p
  <2>3. QED
    BY <2>2 DEF p
<1>10. QED
  BY <1>9 DEF n, m, R

\* A replica that has fewer reads than one within its share is within its share.
LEMMA FewerShare ==
    ASSUME NEW n \in Nat, NEW x \in Nat, NEW y \in Nat, NEW R \in Nat, y <= x, n * (x - 1) < R
    PROVE  n * (y - 1) < R
<1>1. ASSUME NEW d \in Nat PROVE n * d \in Nat
  OBVIOUS
<1>2. n * (x - y) \in Nat /\ n * (y - 1) \in Int
  BY <1>1
<1>3. n * (x - 1) = n * (y - 1) + n * (x - y)
  OBVIOUS
<1>4. QED
  BY <1>2, <1>3

\* Every step keeps the shares: only a dispatch adds a read, to the replica that
\* has the fewest.
LEMMA SharesStep ==
    ASSUME Inv, Shares, Distinct, [Next]_vars
    PROVE  Shares'
<1> DEFINE n == Len(Order)
           R == Cardinality(Reads)
<1>1. n \in Nat /\ n > 0 /\ R \in Nat
  BY FS_CardinalityType, PoliciesAssumption
<1>2. inFlight \in [Replicas -> Nat]
  BY <1>1 DEF Inv, TypeOK
<1>3. ASSUME policy' = "least-in-flight", steady', NEW b \in Replicas
      PROVE  n * (inFlight'[b] - 1) < R
  <2>1. policy = "least-in-flight" /\ steady
    BY <1>3, Zenon DEF Next, vars, setup
  <2>2. n * (inFlight[b] - 1) < R
    BY <2>1 DEF Shares
  <2> HIDE DEF n, R
  <2>3. ASSUME inFlight' = inFlight PROVE n * (inFlight'[b] - 1) < R
    BY <2>2, <2>3, Zenon
  <2>4. ASSUME NEW r \in Reads, Dispatch(r) PROVE n * (inFlight'[b] - 1) < R
    <3>1. read[r].at = "none"
      BY <2>1, <2>4, SteadyDispatch, Zenon
    <3>2. PICK f, lag, a : a \in Replicas /\ Choose(Order, f, lag, a)
      BY <2>1, <2>4, SteadyDispatch, Zenon
    <3>3. a = Cheapest(Order, inFlight) /\ inFlight' = [inFlight EXCEPT ![a] = @ + 1]
      BY <2>1, <3>2 DEF Choose
    <3>4. \A c \in Replicas : inFlight[a] <= inFlight[c]
      BY <1>2, <3>3, CheapestFound
    <3>5. n * inFlight[a] < R
      BY <2>1, <3>1, <3>2, <3>4, LeastLoaded, Zenon DEF n, R
    <3>6. CASE b = a
      <4>1. inFlight'[b] - 1 = inFlight[a]
        BY <1>2, <3>2, <3>3, <3>6
      <4>2. QED
        BY <3>5, <4>1, Zenon
    <3>7. CASE b # a
      <4>1. inFlight'[b] = inFlight[b]
        BY <1>2, <3>3, <3>7
      <4>2. QED
        BY <2>2, <4>1, Zenon
    <3>8. QED
      BY <3>6, <3>7
  <2>5. ASSUME NEW r \in Reads, Finish(r) PROVE n * (inFlight'[b] - 1) < R
    <3> DEFINE a == read[r].at
               x == inFlight[b]
               y == inFlight'[b]
    <3>1. inFlight' = Drop(a)
      BY <2>1, <2>5 DEF Finish, Release
    <3>2. x \in Nat /\ y \in Nat /\ y <= x
      BY <1>2, <3>1 DEF Drop
    <3>3. n * (x - 1) < R
      BY <2>2
    <3> HIDE DEF x, y
    <3>4. n * (y - 1) < R
      BY <1>1, <3>2, <3>3, FewerShare
    <3>5. QED
      BY <3>4 DEF y
  <2>6. ASSUME NEW r \in Reads, Failover(r) PROVE FALSE
    BY <2>1, <2>6 DEF Failover
  <2>7. ASSUME NEW r \in Reads, Begin(r) PROVE inFlight' = inFlight
    BY <2>7 DEF Begin
  <2>8. UNCHANGED vars => inFlight' = inFlight
    BY DEF vars
  <2>9. QED
    BY <2>3, <2>4, <2>5, <2>6, <2>7, <2>8, Zenon DEF Next
<1>4. steady' => \A r \in Reads : read'[r].exclude = {}
  BY NoneExcluded, Zenon
<1>5. QED
  BY <1>3, <1>4, Zenon DEF Shares

\* The shares hold in every reachable state.
LEMMA SharesInvariant == ASSUME Distinct PROVE Spec => []Shares
<1>1. Init => Shares
  <2> SUFFICES ASSUME Init PROVE Shares
    OBVIOUS
  <2> DEFINE n == Len(Order)
             R == Cardinality(Reads)
  <2>1. n \in Nat /\ n > 0 /\ R \in Nat
    BY FS_CardinalityType, PoliciesAssumption
  <2>2. \A a \in Replicas : inFlight[a] = 0
    BY DEF Init
  <2>3. \A r \in Reads : read[r].exclude = {}
    BY Zenon DEF Init
  <2>4. n * (0 - 1) < R
    <3> HIDE DEF n, R
    <3>1. QED
      BY <2>1
  <2>5. QED
    BY <2>2, <2>3, <2>4 DEF Shares
<1>2. QED
  BY <1>1, SharesStep, PoliciesInvariant, PTL DEF Spec

\* For any number of reads and of replicas that are listed once, and whatever the
\* order in which reads end, LeastInFlight.Choose gives no replica more than its
\* share of the reads, rounded up, while all replicas stay eligible.
THEOREM PoliciesLoadShare == ASSUME Distinct PROVE Spec => []LoadShare
<1>1. Inv /\ Shares => LoadShare
  <2> SUFFICES ASSUME Inv, Shares, policy = "least-in-flight", steady, NEW a \in Replicas
               PROVE  Len(Order) * (Cardinality(At(a)) - 1) < Cardinality(Reads)
    BY DEF LoadShare
  <2>1. {r \in Reads : Ats[r] = a} = At(a)
    BY DEF Ats, At
  <2>2. inFlight[a] = Cardinality(At(a))
    BY <2>1 DEF Inv, Count
  <2>3. QED
    BY <2>2, Zenon DEF Shares
<1>2. QED
  BY <1>1, PoliciesInvariant, SharesInvariant, PTL

\* The counter's place in the rotation moves on by one, also where it wraps.
LEMMA NextPlace ==
    ASSUME NEW n \in Nat \ {0}, NEW w \in Nat \ {0}, w % n = 0, NEW x \in 0 .. w - 1
    PROVE  ((x + 1) % w) % n = IF (x % n) + 1 = n THEN 0 ELSE (x % n) + 1
<1>1. (x + 1) % n = IF (x % n) + 1 = n THEN 0 ELSE (x % n) + 1
  <2>1. x \in Nat
    OBVIOUS
  <2>2. QED
    BY <2>1, NextRemainder, Zenon
<1>2. CASE x + 1 = w
  <2>1. (x + 1) % w = 0 /\ 0 % n = 0
    BY <1>2
  <2>2. (x + 1) % n = 0
    BY <1>2
  <2>3. QED
    BY <1>1, <2>1, <2>2
<1>3. CASE x + 1 < w
  <2>1. (x + 1) % w = x + 1
    BY <1>3
  <2>2. QED
    BY <1>1, <2>1
<1>4. QED
  BY <1>2, <1>3

\* A turn of the replica whose turn it is.
LEMMA TurnTaken ==
    ASSUME Inv, Turns, Distinct, policy = "round-robin", steady,
           NEW k \in 0 .. Len(Order) - 1, k = next % Len(Order)
    PROVE  \A i \in 1 .. Len(Order) :
             Turn(Order[k + 1])[Order[i]] =
               IF i <= (IF k + 1 = Len(Order) THEN 0 ELSE k + 1) THEN 1 ELSE 0
<1> DEFINE n == Len(Order)
           a == Order[k + 1]
           p == [picks EXCEPT ![a] = @ + 1]
<1>1. n \in Nat /\ n > 0 /\ k \in 0 .. n - 1 /\ k + 1 \in 1 .. n
  BY PoliciesAssumption
<1>2. \A i \in 1 .. n : Order[i] \in Replicas
  BY DEF Replicas
<1>3. picks \in [Replicas -> Nat]
  BY DEF Inv, TypeOK
<1>4. \A i \in 1 .. n : picks[Order[i]] = IF i <= k THEN 1 ELSE 0
  BY DEF Turns
<1>5. \A i, j \in 1 .. n : Order[i] = Order[j] => i = j
  BY DEF Distinct
<1>6. \A b \in Replicas : \E i \in 1 .. n : Order[i] = b
  BY DEF Replicas
<1>7. Turn(a) = IF \A b \in Replicas : p[b] > 0 THEN [b \in Replicas |-> p[b] - 1] ELSE p
  BY DEF Turn
<1> HIDE DEF n
<1>8. ASSUME NEW i \in 1 .. n PROVE p[Order[i]] = IF i <= k + 1 THEN 1 ELSE 0
  <2>1. CASE i = k + 1
    <3>1. picks[a] = 0
      BY <1>1, <1>4
    <3>2. p[a] = 1
      BY <1>1, <1>2, <1>3, <3>1
    <3>3. QED
      BY <1>1, <2>1, <3>2
  <2>2. CASE i # k + 1
    <3>1. Order[i] # a
      BY <1>1, <1>5, <2>2
    <3>2. p[Order[i]] = picks[Order[i]]
      BY <1>2, <1>3, <3>1
    <3>3. QED
      BY <1>1, <1>4, <2>2, <3>2
  <2>3. QED
    BY <2>1, <2>2
<1>9. p \in [Replicas -> Nat]
  BY <1>1, <1>2, <1>3
<1> HIDE DEF p, a
<1>10. CASE k + 1 = n
  <2>1. \A i \in 1 .. n : p[Order[i]] = 1
    BY <1>1, <1>8, <1>10
  <2>2. \A b \in Replicas : p[b] = 1
    BY <1>6, <2>1
  <2>3. Turn(a) = [b \in Replicas |-> p[b] - 1]
    BY <1>7, <2>2
  <2>4. \A i \in 1 .. n : Turn(a)[Order[i]] = 0
    BY <1>2, <2>2, <2>3
  <2>5. QED
    BY <1>10, <2>4 DEF n, a
<1>11. CASE k + 1 # n
  <2>1. n \in 1 .. n /\ p[Order[n]] = 0 /\ Order[n] \in Replicas
    BY <1>1, <1>2, <1>8, <1>11
  <2>2. Turn(a) = p
    BY <1>7, <2>1
  <2>3. QED
    BY <1>8, <1>11, <2>2 DEF n, a
<1>12. QED
  BY <1>10, <1>11, Zenon

\* Every step keeps the turns.
LEMMA TurnsStep ==
    ASSUME Inv, Shares, Turns, Distinct, Wrap % Len(Order) = 0, [Next]_vars
    PROVE  Turns'
<1> DEFINE n == Len(Order)
           k == next % n
<1>1. n \in Nat \ {0} /\ Wrap \in Nat \ {0} /\ next \in 0 .. Wrap - 1
  BY PoliciesAssumption DEF Inv, TypeOK
<1>2. k \in 0 .. n - 1
  BY <1>1
<1>3. policy' = policy /\ steady' = steady
  BY DEF Next, vars, setup
<1>4. ASSUME UNCHANGED <<next, picks>> PROVE Turns'
  BY <1>3, <1>4, Zenon DEF Turns
<1>5. ASSUME NEW r \in Reads, Dispatch(r), policy = "round-robin", steady PROVE Turns'
  <2>1. PICK f, lag, a : a \in Replicas /\ Choose(Order, f, lag, a)
    BY <1>5, SteadyDispatch, Zenon
  <2>2. a = Order[k + 1] /\ next' = (next + 1) % Wrap /\ picks' = Turn(a)
    BY <1>5, <2>1 DEF Choose, Rotation, Advance
  <2>3. next' % n = IF k + 1 = n THEN 0 ELSE k + 1
    <3>1. Wrap % n = 0
      OBVIOUS
    <3>2. ((next + 1) % Wrap) % n = IF (next % n) + 1 = n THEN 0 ELSE (next % n) + 1
      BY <1>1, <3>1, NextPlace, Zenon
    <3>3. QED
      BY <2>2, <3>2, Zenon
  <2>4. \A i \in 1 .. n : picks'[Order[i]] = IF i <= (IF k + 1 = n THEN 0 ELSE k + 1) THEN 1 ELSE 0
    BY <1>2, <1>5, <2>2, TurnTaken, Zenon
  <2>5. \A i \in 1 .. n : picks'[Order[i]] = IF i <= next' % n THEN 1 ELSE 0
    BY <2>3, <2>4, Zenon
  <2>6. QED
    BY <1>3, <1>5, <2>5 DEF Turns
<1>6. ASSUME NEW r \in Reads, Dispatch(r), policy = "round-robin", ~steady PROVE Turns'
  <2>1. picks' = picks
    BY <1>6 DEF Dispatch, Choose
  <2>2. QED
    BY <1>3, <1>6, <2>1 DEF Turns
<1>7. ASSUME NEW r \in Reads, Dispatch(r), policy # "round-robin" PROVE UNCHANGED <<next, picks>>
  BY <1>7 DEF Dispatch, Choose
<1>8. ASSUME NEW r \in Reads, Begin(r) \/ Failover(r) \/ Finish(r) PROVE UNCHANGED <<next, picks>>
  BY <1>8 DEF Begin, Failover, Finish, Release
<1>9. UNCHANGED vars => UNCHANGED <<next, picks>>
  BY DEF vars
<1>10. QED
  BY <1>4, <1>5, <1>6, <1>7, <1>8, <1>9, Zenon DEF Next

\* For any number of reads, and of replicas that are listed once and that divide
\* the range of RoundRobin's counter, no replica is more than a turn ahead of
\* another over a stable candidate set, however the sessions interleave.
THEOREM PoliciesEqualShare ==
    ASSUME Distinct, Wrap % Len(Order) = 0 PROVE Spec => []EqualShare
<1>1. Init => Turns
  <2> SUFFICES ASSUME Init, NEW i \in 1 .. Len(Order)
               PROVE  picks[Order[i]] = IF policy = "round-robin" /\ steady /\ i <= next % Len(Order)
                                        THEN 1 ELSE 0
    BY DEF Turns
  <2>1. Order[i] \in Replicas /\ next = 0 /\ picks = [a \in Replicas |-> 0]
    BY DEF Replicas, Init
  <2>2. Len(Order) \in Nat \ {0}
    BY PoliciesAssumption
  <2>3. next % Len(Order) = 0
    BY <2>1, <2>2
  <2>4. QED
    BY <2>1, <2>3
<1>2. Turns => EqualShare
  <2> SUFFICES ASSUME Turns, NEW a \in Replicas, NEW b \in Replicas
               PROVE  picks[a] - picks[b] \in -1 .. 1
    BY DEF EqualShare
  <2>1. PICK i \in 1 .. Len(Order) : a = Order[i]
    BY DEF Replicas
  <2>2. PICK j \in 1 .. Len(Order) : b = Order[j]
    BY DEF Replicas
  <2>3. picks[a] \in {0, 1} /\ picks[b] \in {0, 1}
    BY <2>1, <2>2, Zenon DEF Turns
  <2>4. QED
    BY <2>3
<1>3. QED
  BY <1>1, <1>2, TurnsStep, SharesInvariant, PoliciesInvariant, PTL DEF Spec
=============================================================================
