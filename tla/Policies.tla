------------------------------ MODULE Policies ------------------------------
(***************************************************************************)
(* The routing policies of internal/router: round-robin, least-in-flight   *)
(* and scored, shared by concurrent reads that call Choose and Release     *)
(* under the policy's lock the way dispatchRead and serveRouting of        *)
(* session.go pair them, with the failover release of latency 0.           *)
(*                                                                         *)
(* Durations are integers in units of 1/Unit ms; the moving average rounds *)
(* down to a unit.                                                         *)
(***************************************************************************)
EXTENDS Integers, Sequences, FiniteSets

CONSTANTS Names,       \* router.policy: "round-robin", "least-in-flight", "scored"
          Order,       \* the replicas in the order of a registry snapshot
          Reads,       \* sessions that read
          Shapes,      \* query fingerprints
          Latency,     \* Latency[a]: the durations of a read on replica a
          Failing,     \* replicas that may refuse a read before it starts
          MaxLag,      \* seconds a replica may be reported behind
          Wrap,        \* where the rotation's counter wraps, 2^64 in the code
          Alpha,       \* <<n, d>>: the smoothing factor n/d
          Unit, DefaultService, LagPenalty

Replicas == {Order[i] : i \in 1 .. Len(Order)}

\* The longest duration that is measured or assumed.
Durations == (UNION {Latency[a] : a \in Replicas}) \cup {DefaultService}
Longest == CHOOSE d \in Durations : \A e \in Durations : e <= d

ASSUME PoliciesAssumption ==
    /\ Names \subseteq {"round-robin", "least-in-flight", "scored"}
    /\ Order \in Seq(Replicas) /\ Len(Order) > 0
    /\ "none" \notin Replicas /\ IsFiniteSet(Reads)
    /\ Failing \subseteq Replicas
    /\ Durations \subseteq Nat /\ \E d \in Durations : \A e \in Durations : e <= d
    /\ MaxLag \in Nat /\ Wrap \in Nat \ {0} /\ DefaultService \in Nat /\ LagPenalty \in Nat
    /\ Unit \in Nat \ {0} /\ Alpha[1] \in Nat \ {0} /\ Alpha[2] \in Nat /\ Alpha[1] <= Alpha[2]

VARIABLES policy,    \* the policy the process was started with
          steady,    \* every replica stays eligible, none lags and none fails
          next,      \* RoundRobin.next
          inFlight,  \* inFlight[a], 0 where the map has no entry
          latency,   \* latency[a][f], the default where the map has no entry
          read,      \* read[r]: what read r is doing, where, and what it excludes
          picks      \* history: how far a is ahead in turns, while steady

setup == <<policy, steady>>
vars == <<setup, next, inFlight, latency, read, picks>>

TypeOK ==
    /\ policy \in Names /\ steady \in BOOLEAN
    /\ next \in 0 .. Wrap - 1
    /\ inFlight \in [Replicas -> 0 .. Cardinality(Reads)]
    /\ latency \in [Replicas -> [Shapes -> 0 .. Longest]]
    /\ read \in [Reads -> [at : Replicas \cup {"none"}, shape : Shapes,
                           exclude : SUBSET Replicas, open : BOOLEAN]]
    /\ picks \in [Replicas -> Nat]

Init ==
    /\ policy \in Names /\ steady \in BOOLEAN
    /\ next = 0
    /\ inFlight = [a \in Replicas |-> 0]
    /\ latency = [a \in Replicas |-> [f \in Shapes |-> DefaultService]]
    /\ read \in [Reads -> [at : {"none"}, shape : Shapes, exclude : {{}}, open : {FALSE}]]
    /\ picks = [a \in Replicas |-> 0]
-----------------------------------------------------------------------------
(* Choose *)

\* Mutant: the comparison is the wrong way round.
CheapestFlipped(candidates, cost) ==
    LET i == CHOOSE i \in 1 .. Len(candidates) :
                \A j \in 1 .. Len(candidates) :
                    cost[candidates[i]] >= cost[candidates[j]]
    IN candidates[i]

\* The earliest of the candidates whose cost no other candidate undercuts.
Cheapest(candidates, cost) ==
    LET i == CHOOSE i \in 1 .. Len(candidates) :
                \A j \in 1 .. Len(candidates) :
                    /\ cost[candidates[i]] <= cost[candidates[j]]
                    /\ j < i => cost[candidates[i]] < cost[candidates[j]]
    IN candidates[i]

\* Mutant: the counter is read and not added to.
AdvanceLost == next

Advance == (next + 1) % Wrap

Rotation(candidates) == candidates[(next % Len(candidates)) + 1]

\* A turn of a is counted; a turn that all have had is forgotten.
Turn(a) ==
    LET p == [picks EXCEPT ![a] = @ + 1]
    IN  IF \A b \in Replicas : p[b] > 0 THEN [b \in Replicas |-> p[b] - 1] ELSE p

\* lag[a] is the replica's lag in seconds.
score(f, lag) ==
    [a \in Replicas |-> (inFlight[a] + 1) * latency[a][f] + LagPenalty * Unit * lag[a]]

\* What Choose returns, and the slot it takes.
Choose(candidates, f, lag, a) ==
    /\ \/ /\ policy = "round-robin" /\ a = Rotation(candidates)
          /\ next' = Advance /\ picks' = (IF steady THEN Turn(a) ELSE picks)
          /\ UNCHANGED inFlight
       \/ /\ policy = "least-in-flight" /\ a = Cheapest(candidates, inFlight)
          /\ inFlight' = [inFlight EXCEPT ![a] = @ + 1] /\ UNCHANGED <<next, picks>>
       \/ /\ policy = "scored" /\ a = Cheapest(candidates, score(f, lag))
          /\ inFlight' = [inFlight EXCEPT ![a] = @ + 1] /\ UNCHANGED <<next, picks>>
    /\ UNCHANGED latency
-----------------------------------------------------------------------------
(* Release *)

Drop(a) == [inFlight EXCEPT ![a] = IF @ <= 1 THEN 0 ELSE @ - 1]

\* Mutant: the estimate is kept per query shape, for all replicas together.
FoldShared(a, f, ms) ==
    [b \in Replicas |->
        [latency[b] EXCEPT ![f] = (Alpha[1] * ms + (Alpha[2] - Alpha[1]) * @) \div Alpha[2]]]

Fold(a, f, ms) ==
    [latency EXCEPT ![a][f] = (Alpha[1] * ms + (Alpha[2] - Alpha[1]) * @) \div Alpha[2]]

Release(a, f, ms) ==
    /\ inFlight' = IF policy = "round-robin" THEN inFlight ELSE Drop(a)
    /\ latency' = IF policy = "scored" THEN Fold(a, f, ms) ELSE latency
    /\ UNCHANGED <<next, picks>>
-----------------------------------------------------------------------------
(* The reads *)

\* A session has a read to dispatch.
Begin(r) ==
    /\ ~read[r].open
    /\ \E f \in Shapes :
        read' = [read EXCEPT ![r] = [at |-> "none", shape |-> f, exclude |-> {}, open |-> TRUE]]
    /\ UNCHANGED <<next, inFlight, latency, picks>>

\* The eligible replicas in the snapshot's order, one appended after the other.
Candidates(eligible) ==
    LET upTo[i \in 0 .. Len(Order)] ==
            IF i = 0 THEN <<>>
            ELSE IF Order[i] \in eligible THEN Append(upTo[i - 1], Order[i])
            ELSE upTo[i - 1]
    IN upTo[Len(Order)]

\* selectReadTarget among the replicas that are eligible now and not excluded;
\* with none left the read goes to the primary, which owes no Release.
Dispatch(r) ==
    /\ read[r].open /\ read[r].at = "none"
    /\ \E eligible \in IF steady THEN {Replicas} ELSE SUBSET Replicas :
        LET candidates == Candidates(eligible \ read[r].exclude)
        IN \/ /\ candidates = <<>>
              /\ read' = [read EXCEPT ![r].open = FALSE, ![r].exclude = {}]
              /\ UNCHANGED <<next, inFlight, latency, picks>>
           \/ /\ candidates # <<>>
              /\ \E lag \in [Replicas -> IF steady THEN {0} ELSE 0 .. MaxLag],
                    a \in Replicas :
                    /\ Choose(candidates, read[r].shape, lag, a)
                    /\ read' = [read EXCEPT ![r].at = a]

\* Mutant: the failover forgets the policy's slot.
FailoverKeeps(r) ==
    /\ ~steady /\ read[r].at \in Failing
    /\ read' = [read EXCEPT ![r].at = "none", ![r].exclude = @ \cup {read[r].at}]
    /\ UNCHANGED <<next, inFlight, latency, picks>>

\* The replica cannot be acquired or written to: dispatchRead gives the slot back
\* with latency 0, and tries another.
Failover(r) ==
    /\ ~steady /\ read[r].at \in Failing
    /\ Release(read[r].at, read[r].shape, 0)
    /\ read' = [read EXCEPT ![r].at = "none", ![r].exclude = @ \cup {read[r].at}]

\* The read has run, or has broken off: released with the time it took.
Finish(r) ==
    /\ read[r].at # "none"
    /\ \E ms \in Latency[read[r].at] : Release(read[r].at, read[r].shape, ms)
    /\ read' = [read EXCEPT ![r].at = "none", ![r].exclude = {}, ![r].open = FALSE]

Next ==
    /\ \E r \in Reads : Begin(r) \/ Dispatch(r) \/ Failover(r) \/ Finish(r)
    /\ UNCHANGED setup

Spec == Init /\ [][Next]_vars

\* Sessions keep reading, and every read ends.
FairSpec ==
    Spec /\ \A r \in Reads : WF_vars((Begin(r) \/ Dispatch(r) \/ Finish(r)) /\ UNCHANGED setup)
-----------------------------------------------------------------------------
(* Properties *)

At(a) == {r \in Reads : read[r].at = a}

\* The counts of least-in-flight and scored are the reads that are really on each
\* replica, whatever the order of their releases and failovers: the deletion of
\* an entry at 1 never loses or keeps a read.
CountsExact ==
    policy # "round-robin" => \A a \in Replicas : inFlight[a] = Cardinality(At(a))

\* Least-in-flight spreads reads "by observed occupancy": while all replicas are
\* eligible, and however slowly one of them answers, no replica carries more than
\* its share, the number of concurrent reads over that of replicas, rounded up.
LoadShare ==
    policy = "least-in-flight" /\ steady =>
        \A a \in Replicas : Len(Order) * (Cardinality(At(a)) - 1) < Cardinality(Reads)

\* Round-robin: "over a stable candidate set every replica receives an equal share
\* of reads", also when sessions interleave and when the counter wraps (at a power
\* of two, so for a power of two of replicas).
EqualShare == \A a, b \in Replicas : picks[a] - picks[b] \in -1 .. 1

\* Scored: "a slower replica accrues higher EWMAs and wins fewer reads". While no
\* replica fails, the estimates of each shape end up in the order of the replicas'
\* speeds.
SlowerRanksLower ==
    policy = "scored" /\ steady =>
        \A a, b \in Replicas, f \in Shapes :
            (\A x \in Latency[a], y \in Latency[b] : x > y)
                => <>[](latency[a][f] > latency[b][f])
=============================================================================
