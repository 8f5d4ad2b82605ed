----------------------------- MODULE PoolProofs -----------------------------
(***************************************************************************)
(* Proofs about Pool, for any number of goroutines and connections and any *)
(* MaxSize.  The inductive invariant is built in four layers, each proved  *)
(* from the ones before it:                                                *)
(*   Typed     types, and a goroutine has a connection in hand exactly     *)
(*             where the code says it does;                                *)
(*   Queued    the waiter queue, the channels and Close;                   *)
(*   Owned     who has which connection;                                   *)
(*   Counted   p.open against the slots in use.                            *)
(***************************************************************************)
EXTENDS Pool, SequenceTheorems, FiniteSetTheorems, TLAPS

\* The places in the code where a goroutine has a connection in hand.
Busy == {"ping", "hold", "evict", "discard"}

Typed ==
    /\ pc \in [Acquirers -> PCs]
    /\ conn \in [Acquirers -> Conns \cup {None}]
    /\ idle \in Seq(Conns)
    /\ stale \in 0 .. Len(idle)
    /\ open \in Int /\ open <= MaxSize
    /\ waiters \in Seq(Acquirers)
    /\ chan \in [Acquirers -> Conns \cup {None, Nil}]
    /\ closer \in {"none", "stop", "wake"}
    /\ toWake \in Seq(Acquirers)
    /\ drained \in SUBSET Conns
    /\ reaped \in SUBSET Conns
    /\ live \in SUBSET Conns
    /\ \A a \in Acquirers : pc[a] \in Busy <=> conn[a] # None
-----------------------------------------------------------------------------
(* Sequences *)

\* What the front of a non-empty sequence is.
LEMMA FrontFacts ==
    ASSUME NEW S, NEW s \in Seq(S), s # <<>>
    PROVE  LET f == SubSeq(s, 1, Len(s) - 1)
           IN  /\ f \in Seq(S) /\ Len(f) = Len(s) - 1 /\ Len(s) \in Nat \ {0}
               /\ \A i \in 1 .. Len(f) : f[i] = s[i]
               /\ s[Len(s)] \in S
<1>1. Len(s) \in Nat \ {0}
  BY EmptySeq
<1>2. \A i \in 1 .. Len(s) - 1 : s[i] \in S
  BY <1>1, ElementOfSeq
<1>3. SubSeq(s, 1, Len(s) - 1) \in Seq(S)
  BY <1>1, <1>2
<1>4. Len(SubSeq(s, 1, Len(s) - 1)) = Len(s) - 1
  <2>1. CASE Len(s) = 1
    <3>1. SubSeq(s, 1, 0) = <<>>
      BY SubSeqEmpty
    <3>2. QED
      BY <2>1, <3>1
  <2>2. CASE Len(s) > 1
    BY <1>1, <2>2
  <2>3. QED
    BY <1>1, <2>1, <2>2
<1>5. \A i \in 1 .. Len(s) - 1 : SubSeq(s, 1, Len(s) - 1)[i] = s[i]
  BY <1>1, <1>2
<1>6. s[Len(s)] \in S
  BY <1>1, ElementOfSeq
<1>7. QED
  BY <1>1, <1>3, <1>4, <1>5, <1>6

\* What is left of a sequence when its first k elements are dropped.
LEMMA DropFacts ==
    ASSUME NEW S, NEW s \in Seq(S), NEW k \in 0 .. Len(s)
    PROVE  LET f == SubSeq(s, k + 1, Len(s))
           IN  /\ f \in Seq(S) /\ Len(f) = Len(s) - k
               /\ \A i \in 1 .. Len(f) : f[i] = s[k + i]
<1>1. Len(s) \in Nat
  BY LenProperties
<1>2. \A i \in k + 1 .. Len(s) : s[i] \in S
  BY <1>1, ElementOfSeq
<1>3. QED
  BY <1>1, <1>2

\* Without removes one element and keeps the order of the others.
LEMMA WithoutFacts ==
    ASSUME NEW S, NEW s \in Seq(S), NEW k \in 1 .. Len(s)
    PROVE  /\ Without(s, k) \in Seq(S)
           /\ Len(Without(s, k)) = Len(s) - 1
           /\ \A i \in 1 .. Len(s) - 1 :
                Without(s, k)[i] = IF i < k THEN s[i] ELSE s[i + 1]
<1>1. Len(s) \in Nat
  BY LenProperties
<1> DEFINE f == SubSeq(s, 1, k - 1)
           g == SubSeq(s, k + 1, Len(s))
<1>2. f \in Seq(S) /\ Len(f) = k - 1 /\ \A i \in 1 .. k - 1 : f[i] = s[i]
  <2>1. \A i \in 1 .. k - 1 : s[i] \in S
    BY <1>1, ElementOfSeq
  <2>2. QED
    BY <1>1, <2>1
<1>3. g \in Seq(S) /\ Len(g) = Len(s) - k /\ \A i \in 1 .. Len(s) - k : g[i] = s[k + i]
  <2>1. k \in 0 .. Len(s)
    BY <1>1
  <2>2. QED
    BY <1>1, <2>1, DropFacts
<1> HIDE DEF f, g
<1>4. /\ f \o g \in Seq(S) /\ Len(f \o g) = Len(s) - 1
      /\ \A i \in 1 .. Len(s) - 1 : (f \o g)[i] = IF i < k THEN f[i] ELSE g[i - (k - 1)]
  <2>1. /\ f \o g \in Seq(S) /\ Len(f \o g) = Len(f) + Len(g)
        /\ \A i \in 1 .. Len(f) + Len(g) :
             (f \o g)[i] = IF i <= Len(f) THEN f[i] ELSE g[i - Len(f)]
    BY <1>2, <1>3, ConcatProperties, Zenon
  <2>2. QED
    BY <1>1, <1>2, <1>3, <2>1
<1>5. Without(s, k) = f \o g
  BY DEF Without, f, g
<1>6. \A i \in 1 .. Len(s) - 1 : i >= k => g[i - (k - 1)] = s[i + 1]
  BY <1>1, <1>3
<1>7. QED
  BY <1>1, <1>2, <1>4, <1>5, <1>6
-----------------------------------------------------------------------------
(* Types *)

\* A new pool has the types it keeps.
LEMMA TypedInit == Init => Typed
  BY PoolAssumption, EmptySeq DEF Init, Typed, PCs, Busy

\* Every step keeps the types, and conn[a] is None exactly outside Busy.
LEMMA TypedStep == Typed /\ [Next]_vars => Typed'
<1> SUFFICES ASSUME Typed, [Next]_vars PROVE Typed'
  OBVIOUS
<1> USE PoolAssumption
<1>1. ASSUME NEW a \in Acquirers, NEW c \in Conns, GiveBack(a, c),
             UNCHANGED <<stale, closeVars, live>>
      PROVE  Typed'
  <2>1. CASE closed
    BY <1>1, <2>1 DEF GiveBack, Typed, PCs, Busy, closeVars
  <2>2. CASE ~closed /\ waiters # <<>>
    <3>1. Head(waiters) \in Acquirers /\ Tail(waiters) \in Seq(Acquirers)
      BY <2>2, HeadTailProperties DEF Typed
    <3>2. /\ chan' = [chan EXCEPT ![a] = None, ![Head(waiters)] = c]
          /\ waiters' = Tail(waiters)
          /\ pc' = [pc EXCEPT ![a] = "out"] /\ conn' = [conn EXCEPT ![a] = None]
          /\ idle' = idle /\ open' = open /\ stale' = stale /\ live' = live
          /\ UNCHANGED closeVars
      BY <1>1, <2>2 DEF GiveBack
    <3>3. chan' \in [Acquirers -> Conns \cup {None, Nil}]
      BY <3>1, <3>2, Zenon DEF Typed
    <3>4. QED
      BY <3>1, <3>2, <3>3, Zenon DEF Typed, PCs, Busy, closeVars
  <2>3. CASE ~closed /\ waiters = <<>>
    <3>1. Append(idle, c) \in Seq(Conns) /\ Len(Append(idle, c)) = Len(idle) + 1
      BY <1>1, AppendProperties DEF Typed
    <3>2. Len(idle) \in Nat
      BY LenProperties DEF Typed
    <3>3. /\ chan' = [chan EXCEPT ![a] = None] /\ waiters' = waiters
          /\ pc' = [pc EXCEPT ![a] = "out"] /\ conn' = [conn EXCEPT ![a] = None]
          /\ idle' = Append(idle, c) /\ open' = open /\ stale' = stale
          /\ live' = live /\ UNCHANGED closeVars
      BY <1>1, <2>3 DEF GiveBack
    <3>4. idle' \in Seq(Conns) /\ Len(idle') = Len(idle) + 1
      BY <3>1, <3>3
    <3>5. stale' \in 0 .. Len(idle')
      BY <3>2, <3>3, <3>4 DEF Typed
    <3>6. QED
      BY <3>3, <3>4, <3>5 DEF Typed, PCs, Busy, closeVars
  <2>4. QED
    BY <2>1, <2>2, <2>3
<1>2. ASSUME NEW a \in Acquirers, Acquire(a) PROVE Typed'
  BY <1>2 DEF Acquire, Go, Typed, PCs, Busy, closeVars
<1>3. ASSUME NEW a \in Acquirers, AcquireClosed(a) PROVE Typed'
  BY <1>3 DEF AcquireClosed, Go, Typed, PCs, Busy, closeVars
<1>4. ASSUME NEW a \in Acquirers, PopExpired(a) PROVE Typed'
  <2>1. idle # <<>>
    BY <1>4 DEF PopExpired
  <2>2. /\ idle' \in Seq(Conns) /\ Len(idle') = Len(idle) - 1
        /\ Len(idle) \in Nat \ {0} /\ idle[Len(idle)] \in Conns
    BY <1>4, <2>1, FrontFacts DEF PopExpired, Typed
  <2>3. QED
    BY <1>4, <2>2 DEF PopExpired, Go, Typed, PCs, Busy, closeVars
<1>5. ASSUME NEW a \in Acquirers, PopIdle(a) PROVE Typed'
  <2>1. idle # <<>>
    BY <1>5 DEF PopIdle
  <2>2. /\ idle' \in Seq(Conns) /\ Len(idle') = Len(idle) - 1
        /\ Len(idle) \in Nat \ {0} /\ idle[Len(idle)] \in Conns
    BY <1>5, <2>1, FrontFacts DEF PopIdle, Typed
  <2>3. QED
    BY <1>5, <2>2 DEF PopIdle, Go, Typed, PCs, Busy, closeVars
<1>6. ASSUME NEW a \in Acquirers, PingOK(a) PROVE Typed'
  BY <1>6 DEF PingOK, Go, Typed, PCs, Busy, closeVars
<1>7. ASSUME NEW a \in Acquirers, PingFail(a) PROVE Typed'
  BY <1>7 DEF PingFail, Go, Typed, PCs, Busy, closeVars
<1>8. ASSUME NEW a \in Acquirers, Evict(a) PROVE Typed'
  BY <1>8 DEF Evict, Go, Typed, PCs, Busy, closeVars
<1>9. ASSUME NEW a \in Acquirers, Reserve(a) PROVE Typed'
  BY <1>9 DEF Reserve, Go, Typed, PCs, Busy, closeVars
<1>10. ASSUME NEW a \in Acquirers, DialOK(a) PROVE Typed'
  BY <1>10 DEF DialOK, Go, Typed, PCs, Busy, closeVars
<1>11. ASSUME NEW a \in Acquirers, DialFail(a) PROVE Typed'
  BY <1>11 DEF DialFail, Go, Typed, PCs, Busy, closeVars
<1>12. ASSUME NEW a \in Acquirers, Exhausted(a) PROVE Typed'
  BY <1>12 DEF Exhausted, Go, Typed, PCs, Busy, closeVars
<1>13. ASSUME NEW a \in Acquirers, Enqueue(a) PROVE Typed'
  <2>1. waiters' \in Seq(Acquirers)
    BY <1>13, AppendProperties DEF Enqueue, Typed
  <2>2. QED
    BY <1>13, <2>1 DEF Enqueue, Go, Typed, PCs, Busy, closeVars
<1>14. ASSUME NEW a \in Acquirers, Receive(a) PROVE Typed'
  BY <1>14, Zenon DEF Receive, Go, Typed, PCs, Busy, closeVars
<1>15. ASSUME NEW a \in Acquirers, Abandon(a) PROVE Typed'
  <2>1. waiters' \in Seq(Acquirers)
    BY <1>15, WithoutFacts DEF Abandon, Typed
  <2>2. QED
    BY <1>15, <2>1 DEF Abandon, Go, Typed, PCs, Busy, closeVars
<1>16. ASSUME NEW a \in Acquirers, Release(a) PROVE Typed'
  <2>1. conn[a] \in Conns
    BY <1>16 DEF Release, Typed, Busy
  <2>2. QED
    BY <1>1, <1>16, <2>1 DEF Release
<1>17. ASSUME NEW a \in Acquirers, Drain(a) PROVE Typed'
  <2>1. CASE chan[a] = Nil /\ Go(a, "drain", "out", None)
    BY <1>17, <2>1, Zenon DEF Drain, GiveBack, Go, Typed, PCs, Busy, closeVars
  <2>2. CASE chan[a] # Nil /\ GiveBack(a, chan[a])
    <3>1. chan[a] \in Conns
      BY <1>17, <2>2 DEF Drain, Typed
    <3>2. QED
      BY <1>1, <1>17, <2>2, <3>1 DEF Drain
  <2>3. QED
    BY <1>17, <2>1, <2>2 DEF Drain
<1>18. ASSUME NEW a \in Acquirers, Discard(a) PROVE Typed'
  BY <1>18 DEF Discard, Go, Typed, PCs, Busy, closeVars
<1>19. ASSUME NEW a \in Acquirers, Discarded(a) PROVE Typed'
  BY <1>19 DEF Discarded, Go, Typed, PCs, Busy, closeVars
<1>20. ASSUME Age PROVE Typed'
  BY <1>20 DEF Age, Typed, PCs, Busy, closeVars
<1>21. ASSUME ReapOnce PROVE Typed'
  <2>1. PICK k \in 1 .. stale : /\ reaped' = {idle[i] : i \in 1 .. k}
                                /\ idle' = SubSeq(idle, k + 1, Len(idle))
                                /\ stale' = stale - k
                                /\ open' = open - k
    BY <1>21 DEF ReapOnce
  <2>2. Len(idle) \in Nat /\ k \in 0 .. Len(idle)
    BY LenProperties DEF Typed
  <2>3. idle' \in Seq(Conns) /\ Len(idle') = Len(idle) - k
    BY <2>1, <2>2, DropFacts DEF Typed
  <2>4. reaped' \in SUBSET Conns
    BY <2>1, <2>2, ElementOfSeq DEF Typed
  <2>5. QED
    BY <1>21, <2>1, <2>2, <2>3, <2>4 DEF ReapOnce, Typed, PCs, Busy
<1>22. ASSUME CloseReaped PROVE Typed'
  BY <1>22 DEF CloseReaped, Typed, PCs, Busy, closeVars
<1>23. ASSUME CloseBegin PROVE Typed'
  <2>1. Elems(idle) \in SUBSET Conns
    BY ElementOfSeq DEF Elems, Typed
  <2>2. QED
    BY <1>23, <2>1, EmptySeq DEF CloseBegin, Typed, PCs, Busy
<1>24. ASSUME ReaperStopped PROVE Typed'
  BY <1>24 DEF ReaperStopped, Typed, PCs, Busy, closeVars
<1>25. ASSUME CloseWake PROVE Typed'
  <2>1. Head(toWake) \in Acquirers /\ Tail(toWake) \in Seq(Acquirers)
    BY <1>25, HeadTailProperties DEF CloseWake, Typed
  <2>2. QED
    BY <1>25, <2>1 DEF CloseWake, Typed, PCs, Busy
<1>26. ASSUME CloseIdle PROVE Typed'
  BY <1>26 DEF CloseIdle, Typed, PCs, Busy, closeVars
<1>27. CASE UNCHANGED vars
  BY <1>27 DEF vars, Typed, Busy
<1>28. QED
  BY <1>2, <1>3, <1>4, <1>5, <1>6, <1>7, <1>8, <1>9, <1>10, <1>11, <1>12, <1>13, <1>14, <1>15, <1>16, <1>17, <1>18, <1>19, <1>20, <1>21, <1>22, <1>23, <1>24, <1>25, <1>26, <1>27
     DEF Next, Step, Return, Background
-----------------------------------------------------------------------------
(* The queue of waiters *)

Queued ==
    /\ \A i, j \in 1 .. Len(waiters) : waiters[i] = waiters[j] => i = j
    /\ \A i \in 1 .. Len(waiters) :
         pc[waiters[i]] = "wait" /\ chan[waiters[i]] = None
    /\ \A i, j \in 1 .. Len(toWake) : toWake[i] = toWake[j] => i = j
    /\ \A i \in 1 .. Len(toWake) :
         pc[toWake[i]] \in {"wait", "drain"} /\ chan[toWake[i]] = None
    /\ \A a \in Acquirers : chan[a] # None => pc[a] \in {"wait", "drain"}
    /\ closed => waiters = <<>> /\ idle = <<>>
    /\ ~closed => toWake = <<>> /\ drained = {}
    /\ waiters # <<>> => idle = <<>>

\* A new pool has no waiters, so its queue is in order.
LEMMA QueuedInit == Init => Queued
  BY DEF Init, Queued, closed

\* A step of a goroutine that is not waiting leaves the queue as it was.
LEMMA QueuedKept ==
    ASSUME Typed, Queued, NEW a \in Acquirers, NEW to,
           pc[a] \notin {"wait", "drain"}, pc' = [pc EXCEPT ![a] = to],
           UNCHANGED <<waiters, chan, toWake, closer, drained>>,
           idle = <<>> => idle' = <<>>
    PROVE  Queued'
<1>1. \A i \in 1 .. Len(waiters) : waiters[i] \in Acquirers /\ waiters[i] # a
  BY ElementOfSeq DEF Typed, Queued
<1>2. \A i \in 1 .. Len(toWake) : toWake[i] \in Acquirers /\ toWake[i] # a
  BY ElementOfSeq DEF Typed, Queued
<1>3. QED
  BY <1>1, <1>2 DEF Typed, Queued, closed

\* Release keeps the queue: it serves its head.
LEMMA QueuedGiveBack ==
    ASSUME Typed, Queued, NEW a \in Acquirers, NEW c \in Conns, GiveBack(a, c),
           pc[a] \in {"hold", "drain"}, pc[a] = "drain" => chan[a] # None,
           UNCHANGED <<stale, closeVars, live>>
    PROVE  Queued'
<1>1. \A i \in 1 .. Len(waiters) : waiters[i] \in Acquirers /\ waiters[i] # a
  BY ElementOfSeq DEF Typed, Queued
<1>2. \A i \in 1 .. Len(toWake) : toWake[i] \in Acquirers /\ toWake[i] # a
  BY ElementOfSeq DEF Typed, Queued
<1>3. UNCHANGED <<closer, toWake, drained>>
  BY DEF closeVars
<1>4. CASE closed
  <2>1. /\ pc' = [pc EXCEPT ![a] = "discard"] /\ chan' = [chan EXCEPT ![a] = None]
        /\ idle' = idle /\ waiters' = waiters
    BY <1>4 DEF GiveBack
  <2>2. QED
    BY <1>1, <1>2, <1>3, <2>1 DEF Typed, Queued, closed
<1>5. CASE ~closed /\ waiters = <<>>
  <2>1. /\ pc' = [pc EXCEPT ![a] = "out"] /\ chan' = [chan EXCEPT ![a] = None]
        /\ waiters' = waiters
    BY <1>5 DEF GiveBack
  <2>2. QED
    BY <1>2, <1>3, <1>5, <2>1 DEF Typed, Queued, closed
<1>6. CASE ~closed /\ waiters # <<>>
  <2>1. /\ pc' = [pc EXCEPT ![a] = "out"] /\ idle' = idle
        /\ chan' = [chan EXCEPT ![a] = None, ![Head(waiters)] = c]
        /\ waiters' = Tail(waiters)
    BY <1>6 DEF GiveBack
  <2>2. /\ Len(waiters) \in Nat \ {0} /\ Head(waiters) = waiters[1]
        /\ Len(waiters') = Len(waiters) - 1
        /\ \A i \in 1 .. Len(waiters') : waiters'[i] = waiters[i + 1]
    BY <1>6, <2>1, HeadTailProperties, EmptySeq DEF Typed
  <2>3. /\ Head(waiters) \in Acquirers /\ Head(waiters) # a
        /\ pc[Head(waiters)] = "wait"
    BY <1>1, <2>2 DEF Queued
  <2>4. \A b \in Acquirers : chan'[b] = IF b = Head(waiters) THEN c
                                        ELSE IF b = a THEN None ELSE chan[b]
    BY <2>1, <2>3 DEF Typed
  <2>5. \A b \in Acquirers : pc'[b] = IF b = a THEN "out" ELSE pc[b]
    BY <2>1 DEF Typed
  <2>6. \A i \in 1 .. Len(waiters') :
          /\ waiters'[i] \in Acquirers /\ waiters'[i] # a /\ waiters'[i] # Head(waiters)
          /\ pc[waiters'[i]] = "wait" /\ chan[waiters'[i]] = None
    BY <1>1, <2>2 DEF Queued
  <2>7. \A i, j \in 1 .. Len(waiters') : waiters'[i] = waiters'[j] => i = j
    BY <2>2 DEF Queued
  <2>8. \A b \in Acquirers : chan'[b] # None => pc'[b] \in {"wait", "drain"}
    BY <2>3, <2>4, <2>5 DEF Queued
  <2>9. toWake = <<>> /\ idle = <<>> /\ drained = {}
    BY <1>6 DEF Queued
  <2>10. \A i \in 1 .. Len(waiters') :
          pc'[waiters'[i]] = "wait" /\ chan'[waiters'[i]] = None
    BY <2>4, <2>5, <2>6
  <2>11. ~closed' /\ toWake' = <<>> /\ idle' = <<>> /\ drained' = {}
    BY <1>3, <1>6, <2>1, <2>9 DEF closed
  <2>12. QED
    BY <2>7, <2>8, <2>10, <2>11 DEF Queued
<1>7. QED
  BY <1>4, <1>5, <1>6

\* Every step keeps the queue in order.
LEMMA QueuedStep == Typed /\ Queued /\ [Next]_vars => Queued'
<1> SUFFICES ASSUME Typed, Queued, [Next]_vars PROVE Queued'
  OBVIOUS
<1> USE PoolAssumption
<1>1. ASSUME NEW a \in Acquirers, Acquire(a) PROVE Queued'
  BY <1>1, QueuedKept, Zenon DEF Acquire, Go, closeVars
<1>2. ASSUME NEW a \in Acquirers, AcquireClosed(a) PROVE Queued'
  BY <1>2, QueuedKept, Zenon DEF AcquireClosed, Go, closeVars
<1>3. ASSUME NEW a \in Acquirers, PingOK(a) PROVE Queued'
  BY <1>3, QueuedKept, Zenon DEF PingOK, Go, closeVars
<1>4. ASSUME NEW a \in Acquirers, PingFail(a) PROVE Queued'
  BY <1>4, QueuedKept, Zenon DEF PingFail, Go, closeVars
<1>5. ASSUME NEW a \in Acquirers, Evict(a) PROVE Queued'
  BY <1>5, QueuedKept, Zenon DEF Evict, Go, closeVars
<1>6. ASSUME NEW a \in Acquirers, Reserve(a) PROVE Queued'
  BY <1>6, QueuedKept, Zenon DEF Reserve, Go, closeVars
<1>7. ASSUME NEW a \in Acquirers, DialOK(a) PROVE Queued'
  BY <1>7, QueuedKept, Zenon DEF DialOK, Go, closeVars
<1>8. ASSUME NEW a \in Acquirers, DialFail(a) PROVE Queued'
  BY <1>8, QueuedKept, Zenon DEF DialFail, Go, closeVars
<1>9. ASSUME NEW a \in Acquirers, Exhausted(a) PROVE Queued'
  BY <1>9, QueuedKept, Zenon DEF Exhausted, Go, closeVars
<1>10. ASSUME NEW a \in Acquirers, Discard(a) PROVE Queued'
  BY <1>10, QueuedKept, Zenon DEF Discard, Go, closeVars
<1>11. ASSUME NEW a \in Acquirers, Discarded(a) PROVE Queued'
  BY <1>11, QueuedKept, Zenon DEF Discarded, Go, closeVars
<1>12. ASSUME NEW a \in Acquirers, PopExpired(a) PROVE Queued'
  BY <1>12, QueuedKept, Zenon DEF PopExpired, Go, closeVars
<1>13. ASSUME NEW a \in Acquirers, PopIdle(a) PROVE Queued'
  BY <1>13, QueuedKept, Zenon DEF PopIdle, Go, closeVars
<1>14. ASSUME NEW a \in Acquirers, Enqueue(a) PROVE Queued'
  <2>1. /\ pc[a] = "top" /\ pc' = [pc EXCEPT ![a] = "wait"] /\ ~closed /\ idle = <<>>
        /\ UNCHANGED <<chan, idle, closer, toWake, drained>>
        /\ waiters' = Append(waiters, a)
    BY <1>14 DEF Enqueue, Go, closeVars
  <2>2. \A i \in 1 .. Len(waiters) : waiters[i] \in Acquirers /\ waiters[i] # a
    BY <2>1, ElementOfSeq DEF Typed, Queued
  <2>3. /\ Len(waiters) \in Nat /\ Len(waiters') = Len(waiters) + 1
        /\ \A i \in 1 .. Len(waiters) : waiters'[i] = waiters[i]
        /\ waiters'[Len(waiters) + 1] = a
    BY <2>1, AppendProperties, LenProperties DEF Typed
  <2>4. \A i \in 1 .. Len(waiters') : i \in 1 .. Len(waiters) \/ i = Len(waiters) + 1
    BY <2>3
  <2>5. \A i, j \in 1 .. Len(waiters') : waiters'[i] = waiters'[j] => i = j
    BY <2>2, <2>3, <2>4 DEF Queued
  <2>6. \A b \in Acquirers : pc'[b] = IF b = a THEN "wait" ELSE pc[b]
    BY <2>1 DEF Typed
  <2>7. chan[a] = None
    BY <2>1 DEF Queued
  <2>8. \A i \in 1 .. Len(waiters') : pc'[waiters'[i]] = "wait" /\ chan'[waiters'[i]] = None
    BY <2>1, <2>2, <2>3, <2>4, <2>6, <2>7 DEF Queued
  <2>9. QED
    BY <2>1, <2>5, <2>6, <2>8 DEF Queued, closed
<1>15. ASSUME NEW a \in Acquirers, Receive(a) PROVE Queued'
  <2>1. /\ pc[a] = "wait" /\ chan[a] # None
        /\ \E to : pc' = [pc EXCEPT ![a] = to]
        /\ chan' = [chan EXCEPT ![a] = None]
        /\ UNCHANGED <<waiters, idle, closer, toWake, drained>>
    BY <1>15 DEF Receive, Go, closeVars
  <2>2. \A i \in 1 .. Len(waiters) : waiters[i] \in Acquirers /\ waiters[i] # a
    BY <2>1, ElementOfSeq DEF Typed, Queued
  <2>3. \A i \in 1 .. Len(toWake) : toWake[i] \in Acquirers /\ toWake[i] # a
    BY <2>1, ElementOfSeq DEF Typed, Queued
  <2>4. QED
    BY <2>1, <2>2, <2>3 DEF Typed, Queued, closed
<1>16. ASSUME NEW a \in Acquirers, Abandon(a) PROVE Queued'
  <2>1. CASE \E i \in 1 .. Len(waiters) :
               waiters[i] = a /\ Go(a, "wait", "out", None) /\ waiters' = Without(waiters, i)
    <3>1. PICK k \in 1 .. Len(waiters) :
            waiters[k] = a /\ Go(a, "wait", "out", None) /\ waiters' = Without(waiters, k)
      BY <2>1
    <3>2. /\ Len(waiters) \in Nat /\ Len(waiters') = Len(waiters) - 1
          /\ \A i \in 1 .. Len(waiters) - 1 :
               waiters'[i] = IF i < k THEN waiters[i] ELSE waiters[i + 1]
      <4>1. waiters \in Seq(Acquirers) /\ waiters' = Without(waiters, k)
        BY <3>1 DEF Typed
      <4>2. QED
        BY <4>1, WithoutFacts, LenProperties, Zenon
    <3>3. UNCHANGED <<idle, chan, closer, toWake, drained>>
      BY <1>16 DEF Abandon, closeVars
    <3>4. waiters # <<>> /\ toWake = <<>> /\ drained = {} /\ ~closed /\ idle = <<>>
      BY <3>2 DEF Queued
    <3>5. \A b \in Acquirers : pc'[b] = IF b = a THEN "out" ELSE pc[b]
      BY <3>1 DEF Go, Typed
    <3>6. \A i \in 1 .. Len(waiters') :
            /\ waiters'[i] \in Acquirers /\ waiters'[i] # a
            /\ pc[waiters'[i]] = "wait" /\ chan[waiters'[i]] = None
      <4> SUFFICES ASSUME NEW i \in 1 .. Len(waiters')
                   PROVE  /\ waiters'[i] \in Acquirers /\ waiters'[i] # a
                          /\ pc[waiters'[i]] = "wait" /\ chan[waiters'[i]] = None
        OBVIOUS
      <4>1. PICK j \in 1 .. Len(waiters) : j # k /\ waiters'[i] = waiters[j]
        <5>1. CASE i < k
          BY <3>2, <5>1
        <5>2. CASE i >= k
          BY <3>2, <5>2
        <5>3. QED
          BY <3>2, <5>1, <5>2
      <4>2. QED
        BY <3>1, <4>1, ElementOfSeq DEF Typed, Queued
    <3>7. \A i, j \in 1 .. Len(waiters') : waiters'[i] = waiters'[j] => i = j
      BY <3>2 DEF Queued
    <3>8. chan[a] = None
      BY <3>1 DEF Queued
    <3>9. QED
      BY <3>3, <3>4, <3>5, <3>6, <3>7, <3>8 DEF Queued, closed
  <2>2. CASE a \notin Elems(waiters) /\ Go(a, "wait", "drain", None) /\ UNCHANGED waiters
    <3>1. /\ pc' = [pc EXCEPT ![a] = "drain"]
          /\ UNCHANGED <<waiters, idle, chan, closer, toWake, drained>>
      BY <1>16, <2>2, Zenon DEF Abandon, Go, closeVars
    <3>2. \A i \in 1 .. Len(waiters) : waiters[i] \in Acquirers /\ waiters[i] # a
      BY <2>2, ElementOfSeq DEF Typed, Elems
    <3>3. \A i \in 1 .. Len(toWake) : toWake[i] \in Acquirers
      BY ElementOfSeq DEF Typed
    <3>4. QED
      BY <3>1, <3>2, <3>3 DEF Typed, Queued, closed
  <2>3. QED
    BY <1>16, <2>1, <2>2 DEF Abandon
<1>17. ASSUME NEW a \in Acquirers, Release(a) PROVE Queued'
  <2>1. conn[a] \in Conns
    BY <1>17 DEF Release, Typed, Busy
  <2>2. QED
    BY <1>17, <2>1, QueuedGiveBack DEF Release
<1>18. ASSUME NEW a \in Acquirers, Drain(a) PROVE Queued'
  <2>1. CASE /\ chan[a] = Nil /\ Go(a, "drain", "out", None)
             /\ chan' = [chan EXCEPT ![a] = None] /\ UNCHANGED <<idle, open, waiters>>
    <3>1. \A i \in 1 .. Len(waiters) : waiters[i] \in Acquirers /\ waiters[i] # a
      BY <2>1, ElementOfSeq DEF Typed, Queued, Go
    <3>2. \A i \in 1 .. Len(toWake) : toWake[i] \in Acquirers /\ toWake[i] # a
      BY <2>1, ElementOfSeq DEF Typed, Queued
    <3>3. QED
      BY <1>18, <2>1, <3>1, <3>2 DEF Drain, Go, Typed, Queued, closed, closeVars
  <2>2. CASE chan[a] # Nil /\ GiveBack(a, chan[a])
    <3>1. chan[a] \in Conns
      BY <1>18, <2>2 DEF Drain, Typed
    <3>2. QED
      BY <1>18, <2>2, <3>1, QueuedGiveBack DEF Drain
  <2>3. QED
    BY <1>18, <2>1, <2>2 DEF Drain
<1>19. ASSUME Age PROVE Queued'
  BY <1>19 DEF Age, Queued, closed, closeVars
<1>20. ASSUME CloseReaped PROVE Queued'
  BY <1>20 DEF CloseReaped, Queued, closed, closeVars
<1>21. ASSUME ReaperStopped PROVE Queued'
  BY <1>21 DEF ReaperStopped, Queued, closed, closeVars
<1>22. ASSUME CloseIdle PROVE Queued'
  BY <1>22 DEF CloseIdle, Queued, closed, closeVars
<1>23. ASSUME ReapOnce PROVE Queued'
  <2>1. /\ UNCHANGED <<pc, waiters, chan, closer, toWake, drained>> /\ stale # 0
    BY <1>23 DEF ReapOnce, Typed
  <2>2. idle # <<>>
    BY <2>1 DEF Typed
  <2>3. QED
    BY <2>1, <2>2 DEF Queued, closed
<1>24. ASSUME CloseBegin PROVE Queued'
  BY <1>24 DEF CloseBegin, Queued, closed
<1>25. ASSUME CloseWake PROVE Queued'
  <2>1. /\ toWake # <<>> /\ chan' = [chan EXCEPT ![Head(toWake)] = Nil]
        /\ toWake' = Tail(toWake)
        /\ UNCHANGED <<pc, idle, waiters, closer, drained>>
    BY <1>25 DEF CloseWake
  <2>2. /\ Len(toWake) \in Nat \ {0} /\ Head(toWake) = toWake[1]
        /\ Head(toWake) \in Acquirers
        /\ Len(toWake') = Len(toWake) - 1
        /\ \A i \in 1 .. Len(toWake') : toWake'[i] = toWake[i + 1]
    BY <2>1, HeadTailProperties, EmptySeq DEF Typed
  <2>3. closed /\ waiters = <<>> /\ idle = <<>>
    BY <2>1 DEF Queued
  <2>4. \A i \in 1 .. Len(toWake') :
          /\ toWake'[i] \in Acquirers /\ toWake'[i] # Head(toWake)
          /\ pc[toWake'[i]] \in {"wait", "drain"} /\ chan[toWake'[i]] = None
    <3>1. \A i \in 1 .. Len(toWake') :
            i + 1 \in 1 .. Len(toWake) /\ i + 1 # 1 /\ toWake'[i] = toWake[i + 1]
      BY <2>2
    <3>2. \A i \in 1 .. Len(toWake) : toWake[i] \in Acquirers
      BY ElementOfSeq DEF Typed
    <3>3. 1 \in 1 .. Len(toWake) /\ Head(toWake) = toWake[1]
      BY <2>2
    <3>4. QED
      BY <3>1, <3>2, <3>3 DEF Queued
  <2>5. \A i, j \in 1 .. Len(toWake') : toWake'[i] = toWake'[j] => i = j
    BY <2>2 DEF Queued
  <2>6. \A b \in Acquirers : chan'[b] = IF b = Head(toWake) THEN Nil ELSE chan[b]
    BY <2>1, <2>2 DEF Typed
  <2>7. pc[Head(toWake)] \in {"wait", "drain"}
    BY <2>2 DEF Queued
  <2>8. QED
    BY <2>1, <2>2, <2>3, <2>4, <2>5, <2>6, <2>7 DEF Queued, closed
<1>26. CASE UNCHANGED vars
  BY <1>26 DEF vars, Queued, closed
<1>27. QED
  BY <1>1, <1>2, <1>3, <1>4, <1>5, <1>6, <1>7, <1>8, <1>9, <1>10, <1>11, <1>12, <1>13, <1>14, <1>15, <1>16, <1>17, <1>18, <1>19, <1>20, <1>21, <1>22, <1>23, <1>24, <1>25, <1>26, Zenon
     DEF Next, Step, Return, Background
-----------------------------------------------------------------------------
(* Who has which connection *)

\* The sequence s holds no value twice.
Distinct(s) == \A i, j \in 1 .. Len(s) : s[i] = s[j] => i = j

\* The connections among the values of f, and that each of them occurs once.
Held(f) == {f[a] : a \in Acquirers} \cap Conns
HeldOnce(f) == \A a, b \in Acquirers : f[a] = f[b] /\ f[a] \in Conns => a = b

\* L is the disjoint union of I, H, K, R and D.
Partition(L, I, H, K, R, D) ==
    \A c \in Conns :
        /\ c \in L <=> (c \in I \/ c \in H \/ c \in K \/ c \in R \/ c \in D)
        /\ c \in I => c \notin H /\ c \notin K /\ c \notin R /\ c \notin D
        /\ c \in H => c \notin K /\ c \notin R /\ c \notin D
        /\ c \in K => c \notin R /\ c \notin D
        /\ c \in R => c \notin D

\* The five places a connection can be in are disjoint, hold it once, and hold
\* all the open connections.
Owned ==
    /\ Distinct(idle) /\ HeldOnce(conn) /\ HeldOnce(chan)
    /\ Partition(live, Elems(idle), Held(conn), Held(chan), reaped, drained)

Values == Conns \cup {None, Nil}

\* Putting a new connection where there was none.
LEMMA PutFacts ==
    ASSUME NEW f \in [Acquirers -> Values], NEW a \in Acquirers, NEW c \in Conns,
           f[a] \notin Conns, c \notin Held(f), HeldOnce(f)
    PROVE  LET g == [f EXCEPT ![a] = c]
           IN  g \in [Acquirers -> Values] /\ Held(g) = Held(f) \cup {c} /\ HeldOnce(g)
<1> DEFINE g == [f EXCEPT ![a] = c]
<1>1. g \in [Acquirers -> Values]
  BY DEF Values
<1>2. \A b \in Acquirers : g[b] = IF b = a THEN c ELSE f[b]
  OBVIOUS
<1>3. Held(g) = Held(f) \cup {c}
  BY <1>2 DEF Held
<1>4. HeldOnce(g)
  BY <1>2 DEF Held, HeldOnce
<1>5. QED
  BY <1>1, <1>3, <1>4, Zenon

\* Replacing what is in one place by something that is not a connection.
LEMMA TakeFacts ==
    ASSUME NEW f \in [Acquirers -> Values], NEW a \in Acquirers, HeldOnce(f),
           NEW x \in {None, Nil}
    PROVE  LET g == [f EXCEPT ![a] = x]
           IN  g \in [Acquirers -> Values] /\ Held(g) = Held(f) \ {f[a]} /\ HeldOnce(g)
<1> USE PoolAssumption
<1> DEFINE g == [f EXCEPT ![a] = x]
<1>1. g \in [Acquirers -> Values] /\ x \notin Conns
  BY DEF Values
<1>2. \A b \in Acquirers : g[b] = IF b = a THEN x ELSE f[b]
  OBVIOUS
<1>3. Held(g) = Held(f) \ {f[a]}
  BY <1>1, <1>2 DEF Held, HeldOnce
<1>4. HeldOnce(g)
  BY <1>1, <1>2 DEF HeldOnce
<1>5. QED
  BY <1>1, <1>3, <1>4, Zenon

\* What is on a list after Release has appended to it.
LEMMA AppendElems ==
    ASSUME NEW s \in Seq(Conns), NEW c \in Conns, c \notin Elems(s), Distinct(s)
    PROVE  Elems(Append(s, c)) = Elems(s) \cup {c} /\ Distinct(Append(s, c))
<1> DEFINE t == Append(s, c)
<1>1. /\ Len(s) \in Nat /\ Len(t) = Len(s) + 1
      /\ \A i \in 1 .. Len(s) : t[i] = s[i]
  BY AppendProperties, LenProperties
<1>2. t[Len(s) + 1] = c
  BY AppendProperties
<1>3. \A i \in 1 .. Len(t) : i \in 1 .. Len(s) \/ i = Len(s) + 1
  BY <1>1
<1>4. 1 .. Len(t) = 1 .. Len(s) \cup {Len(s) + 1}
  BY <1>1
<1> HIDE DEF t
<1>5. Elems(t) = Elems(s) \cup {c}
  BY <1>1, <1>2, <1>4 DEF Elems
<1>6. Distinct(t)
  BY <1>1, <1>2, <1>3 DEF Distinct, Elems
<1>7. QED
  BY <1>5, <1>6 DEF t

\* What is left of the idle list when Acquire takes its last connection.
LEMMA FrontElems ==
    ASSUME NEW s \in Seq(Conns), s # <<>>, Distinct(s)
    PROVE  LET f == SubSeq(s, 1, Len(s) - 1)
           IN  /\ Elems(f) = Elems(s) \ {s[Len(s)]} /\ Distinct(f)
               /\ s[Len(s)] \in Elems(s) /\ s[Len(s)] \in Conns
<1> DEFINE f == SubSeq(s, 1, Len(s) - 1)
<1>1. /\ Len(s) \in Nat \ {0} /\ Len(f) = Len(s) - 1 /\ s[Len(s)] \in Conns
      /\ \A i \in 1 .. Len(f) : f[i] = s[i]
  BY FrontFacts
<1>2. 1 .. Len(s) = 1 .. Len(f) \cup {Len(s)} /\ Len(s) \notin 1 .. Len(f)
  BY <1>1
<1> HIDE DEF f
<1>3. Elems(f) = Elems(s) \ {s[Len(s)]}
  BY <1>1, <1>2 DEF Elems, Distinct
<1>4. Distinct(f)
  BY <1>1, <1>2 DEF Distinct
<1>5. s[Len(s)] \in Elems(s)
  BY <1>2 DEF Elems
<1>6. QED
  BY <1>1, <1>3, <1>4, <1>5 DEF f

\* What is left of a list when its first k elements are dropped, as the reaper does.
LEMMA DropElems ==
    ASSUME NEW s \in Seq(Conns), NEW k \in 0 .. Len(s), Distinct(s)
    PROVE  LET f == SubSeq(s, k + 1, Len(s))
               P == {s[i] : i \in 1 .. k}
           IN  Elems(f) = Elems(s) \ P /\ Distinct(f) /\ P \subseteq Elems(s)
<1> DEFINE f == SubSeq(s, k + 1, Len(s))
           P == {s[i] : i \in 1 .. k}
<1>1. /\ Len(s) \in Nat /\ Len(f) = Len(s) - k
      /\ \A i \in 1 .. Len(f) : f[i] = s[k + i]
  BY DropFacts, LenProperties
<1> HIDE DEF f
<1>2. \A i \in 1 .. Len(f) : k + i \in 1 .. Len(s) /\ k + i \notin 1 .. k
  BY <1>1
<1>3. \A j \in 1 .. Len(s) : j \notin 1 .. k => j - k \in 1 .. Len(f) /\ k + (j - k) = j
  BY <1>1
<1>4. \A j \in 1 .. k : j \in 1 .. Len(s)
  BY <1>1
<1>5. Elems(f) \subseteq Elems(s) \ P
  BY <1>1, <1>2, <1>4 DEF Elems, Distinct
<1>6. Elems(s) \ P \subseteq Elems(f)
  <2> SUFFICES ASSUME NEW c \in Elems(s), c \notin P PROVE c \in Elems(f)
    OBVIOUS
  <2>1. PICK j \in 1 .. Len(s) : c = s[j]
    BY DEF Elems
  <2>2. j \notin 1 .. k
    BY <2>1
  <2>3. f[j - k] = s[j] /\ j - k \in 1 .. Len(f)
    BY <1>1, <1>3, <2>2
  <2>4. QED
    BY <2>1, <2>3 DEF Elems
<1>7. Distinct(f)
  BY <1>1, <1>2 DEF Distinct
<1>8. P \subseteq Elems(s)
  BY <1>4 DEF Elems
<1>9. QED
  BY <1>5, <1>6, <1>7, <1>8 DEF f

\* A new pool has no connections, so none has two owners.
LEMMA OwnedInit == Init => Owned
<1> SUFFICES ASSUME Init PROVE Owned
  OBVIOUS
<1> USE PoolAssumption
<1>1. Held(conn) = {} /\ Held(chan) = {} /\ HeldOnce(conn) /\ HeldOnce(chan)
  BY Zenon DEF Init, Held, HeldOnce
<1>2. Elems(idle) = {} /\ Distinct(idle)
  BY DEF Init, Elems, Distinct
<1>3. QED
  BY <1>1, <1>2 DEF Init, Owned, Partition

\* The connections stay where they are.
LEMMA OwnedKept ==
    ASSUME Owned, UNCHANGED <<idle, conn, chan, reaped, drained, live>>
    PROVE  Owned'
  BY DEF Owned, Partition

\* A step of Go that does not change what is in hand.
LEMMA HandKept ==
    ASSUME Typed, NEW a \in Acquirers, NEW from, NEW to, NEW c, Go(a, from, to, c),
           c = conn[a] \/ (c = None /\ from \notin Busy)
    PROVE  conn' = conn
<1>1. conn' = [conn EXCEPT ![a] = c] /\ conn \in [Acquirers -> Conns \cup {None}]
  BY DEF Go, Typed
<1>2. c = conn[a]
  BY DEF Go, Typed
<1>3. QED
  BY <1>1, <1>2

\* A connection taken from the idle list, into a hand.
LEMMA OwnedPop ==
    ASSUME Typed, Owned, NEW a \in Acquirers, conn[a] = None, idle # <<>>,
           conn' = [conn EXCEPT ![a] = idle[Len(idle)]],
           idle' = SubSeq(idle, 1, Len(idle) - 1),
           UNCHANGED <<chan, reaped, drained, live>>
    PROVE  Owned'
<1> USE PoolAssumption
<1> DEFINE c == idle[Len(idle)]
<1>1. idle \in Seq(Conns) /\ Distinct(idle) /\ HeldOnce(conn)
  BY Zenon DEF Typed, Owned, Partition
<1>2. Elems(idle') = Elems(idle) \ {c} /\ Distinct(idle') /\ c \in Elems(idle) /\ c \in Conns
  BY <1>1, FrontElems
<1>3. conn \in [Acquirers -> Values] /\ conn[a] \notin Conns /\ c \notin Held(conn)
  BY <1>2, Zenon DEF Typed, Owned, Partition, Values
<1>4. Held(conn') = Held(conn) \cup {c} /\ HeldOnce(conn')
  BY <1>1, <1>2, <1>3, PutFacts, Zenon
<1> HIDE DEF c
<1>5. QED
  BY <1>2, <1>4, Zenon DEF Owned, Partition

\* A connection in hand is closed.
LEMMA OwnedClosed ==
    ASSUME Typed, Owned, NEW a \in Acquirers, conn[a] \in Conns,
           conn' = [conn EXCEPT ![a] = None], live' = live \ {conn[a]},
           UNCHANGED <<idle, chan, reaped, drained>>
    PROVE  Owned'
<1>1. conn \in [Acquirers -> Values] /\ HeldOnce(conn) /\ conn[a] \in Held(conn)
  BY Zenon DEF Typed, Owned, Partition, Values, Held
<1>2. Held(conn') = Held(conn) \ {conn[a]} /\ HeldOnce(conn')
  BY <1>1, TakeFacts, Zenon
<1>3. QED
  BY <1>1, <1>2, Zenon DEF Owned, Partition

\* Release moves one connection, from a hand or a channel, to one place.
LEMMA OwnedGiveBack ==
    ASSUME Typed, Queued, Owned, NEW a \in Acquirers, NEW c \in Conns, GiveBack(a, c),
           \/ conn[a] = c /\ chan[a] = None
           \/ conn[a] = None /\ chan[a] = c,
           pc[a] \notin {"wait"},
           UNCHANGED <<stale, closeVars, live>>
    PROVE  Owned'
<1> USE PoolAssumption
<1>1. /\ conn \in [Acquirers -> Values] /\ chan \in [Acquirers -> Values]
      /\ HeldOnce(conn) /\ HeldOnce(chan) /\ None \notin Conns
      /\ c \in Held(conn) \cup Held(chan)
      /\ c \notin Elems(idle) /\ c \notin reaped /\ c \notin drained
      /\ conn[a] = None => c \notin Held(conn)
      /\ chan[a] = None => c \notin Held(chan)
  BY Zenon DEF Typed, Owned, Partition, Values, Held
<1>2. UNCHANGED <<live, reaped, drained>>
  BY DEF closeVars
<1> DEFINE chan0 == [chan EXCEPT ![a] = None]
<1>3. /\ chan0 \in [Acquirers -> Values] /\ HeldOnce(chan0)
      /\ Held(chan0) = Held(chan) \ {chan[a]} /\ chan0[a] = None
  <2>1. chan0[a] = None
    BY <1>1
  <2>2. QED
    BY <1>1, <2>1, TakeFacts, Zenon
<1>4. Held(chan0) = Held(chan) \ {c}
  BY <1>1, <1>3, Zenon DEF Held
<1> HIDE DEF chan0
<1>5. CASE closed
  <2>1. conn' = [conn EXCEPT ![a] = c] /\ chan' = chan0 /\ idle' = idle
    BY <1>5 DEF GiveBack, chan0
  <2>2. Held(conn') = Held(conn) \cup {c} /\ HeldOnce(conn')
    <3>1. CASE conn[a] = c
      <4>1. conn' = conn
        BY <1>1, <2>1, <3>1
      <4>2. QED
        BY <1>1, <3>1, <4>1 DEF Held
    <3>2. CASE conn[a] = None
      BY <1>1, <2>1, <3>2, PutFacts, Zenon
    <3>3. QED
      BY <3>1, <3>2, Zenon
  <2>3. QED
    BY <1>1, <1>2, <1>3, <1>4, <2>1, <2>2, Zenon DEF Owned, Partition
<1>6. ASSUME ~closed PROVE /\ Held(conn') = Held(conn) \ {c}
                           /\ HeldOnce(conn')
  <2>1. conn' = [conn EXCEPT ![a] = None]
    BY <1>6, Zenon DEF GiveBack
  <2>2. Held(conn') = Held(conn) \ {conn[a]} /\ HeldOnce(conn')
    BY <1>1, <2>1, TakeFacts, Zenon
  <2>3. QED
    BY <1>1, <2>2 DEF Held
<1>7. CASE ~closed /\ waiters = <<>>
  <2>1. idle' = Append(idle, c) /\ chan' = chan0
    BY <1>7, Zenon DEF GiveBack, chan0
  <2>2. Elems(idle') = Elems(idle) \cup {c} /\ Distinct(idle')
    BY <1>1, <2>1, AppendElems, Zenon DEF Typed, Owned, Partition
  <2>3. QED
    BY <1>1, <1>2, <1>3, <1>4, <1>6, <1>7, <2>1, <2>2, Zenon DEF Owned, Partition
<1>8. CASE ~closed /\ waiters # <<>>
  <2> DEFINE h == Head(waiters)
  <2>1. idle' = idle /\ chan' = [chan EXCEPT ![a] = None, ![h] = c]
    BY <1>8, Zenon DEF GiveBack
  <2>2. chan' = [chan0 EXCEPT ![h] = c]
    BY <2>1, Zenon DEF chan0
  <2>3. Len(waiters) \in Nat \ {0} /\ h = waiters[1] /\ h \in Acquirers
    BY <1>8, HeadTailProperties, EmptySeq DEF Typed
  <2>4. chan[h] = None /\ h # a
    BY <2>3 DEF Queued
  <2>5. chan0[h] \notin Conns /\ c \notin Held(chan0)
    BY <1>1, <1>4, <2>3, <2>4, Zenon DEF chan0
  <2> HIDE DEF h
  <2>6. Held(chan') = Held(chan0) \cup {c} /\ HeldOnce(chan')
    BY <1>3, <2>2, <2>3, <2>5, PutFacts, Zenon
  <2>7. QED
    BY <1>1, <1>2, <1>4, <1>6, <1>8, <2>1, <2>6, Zenon DEF Owned, Partition
<1>9. QED
  BY <1>5, <1>7, <1>8

\* Every step keeps each open connection in one place.
LEMMA OwnedStep == Typed /\ Queued /\ Owned /\ [Next]_vars => Owned'
<1> SUFFICES ASSUME Typed, Queued, Owned, [Next]_vars PROVE Owned'
  OBVIOUS
<1> USE PoolAssumption
<1>1. ASSUME NEW a \in Acquirers, Acquire(a) PROVE Owned'
  <2>1. conn' = conn
    BY <1>1, HandKept DEF Acquire, Busy
  <2>2. QED
    BY <1>1, <2>1, OwnedKept DEF Acquire, closeVars
<1>2. ASSUME NEW a \in Acquirers, AcquireClosed(a) PROVE Owned'
  <2>1. conn' = conn
    BY <1>2, HandKept DEF AcquireClosed, Busy
  <2>2. QED
    BY <1>2, <2>1, OwnedKept DEF AcquireClosed, closeVars
<1>3. ASSUME NEW a \in Acquirers, PingOK(a) PROVE Owned'
  <2>1. conn' = conn
    BY <1>3, HandKept DEF PingOK, Busy
  <2>2. QED
    BY <1>3, <2>1, OwnedKept DEF PingOK, closeVars
<1>4. ASSUME NEW a \in Acquirers, PingFail(a) PROVE Owned'
  <2>1. conn' = conn
    BY <1>4, HandKept DEF PingFail, Busy
  <2>2. QED
    BY <1>4, <2>1, OwnedKept DEF PingFail, closeVars
<1>5. ASSUME NEW a \in Acquirers, Reserve(a) PROVE Owned'
  <2>1. conn' = conn
    BY <1>5, HandKept DEF Reserve, Busy
  <2>2. QED
    BY <1>5, <2>1, OwnedKept DEF Reserve, closeVars
<1>6. ASSUME NEW a \in Acquirers, DialFail(a) PROVE Owned'
  <2>1. conn' = conn
    BY <1>6, HandKept DEF DialFail, Busy
  <2>2. QED
    BY <1>6, <2>1, OwnedKept DEF DialFail, closeVars
<1>7. ASSUME NEW a \in Acquirers, Exhausted(a) PROVE Owned'
  <2>1. conn' = conn
    BY <1>7, HandKept DEF Exhausted, Busy
  <2>2. QED
    BY <1>7, <2>1, OwnedKept DEF Exhausted, closeVars
<1>8. ASSUME NEW a \in Acquirers, Enqueue(a) PROVE Owned'
  <2>1. conn' = conn
    BY <1>8, HandKept DEF Enqueue, Busy
  <2>2. QED
    BY <1>8, <2>1, OwnedKept DEF Enqueue, closeVars
<1>9. ASSUME NEW a \in Acquirers, Abandon(a) PROVE Owned'
  <2>1. conn' = conn
    BY <1>9, HandKept, Zenon DEF Abandon, Busy
  <2>2. QED
    BY <1>9, <2>1, OwnedKept, Zenon DEF Abandon, closeVars
<1>10. ASSUME NEW a \in Acquirers, Discard(a) PROVE Owned'
  <2>1. conn' = conn
    BY <1>10, HandKept DEF Discard, Busy
  <2>2. QED
    BY <1>10, <2>1, OwnedKept DEF Discard, closeVars
<1>11. ASSUME NEW a \in Acquirers, PopExpired(a) PROVE Owned'
  <2>1. conn[a] = None
    BY <1>11, Zenon DEF PopExpired, Go, Typed, Busy
  <2>2. QED
    BY <1>11, <2>1, OwnedPop, Zenon DEF PopExpired, Go, closeVars
<1>12. ASSUME NEW a \in Acquirers, PopIdle(a) PROVE Owned'
  <2>1. conn[a] = None
    BY <1>12, Zenon DEF PopIdle, Go, Typed, Busy
  <2>2. QED
    BY <1>12, <2>1, OwnedPop, Zenon DEF PopIdle, Go, closeVars
<1>13. ASSUME NEW a \in Acquirers, Evict(a) PROVE Owned'
  <2>1. conn[a] \in Conns
    BY <1>13, Zenon DEF Evict, Go, Typed, Busy
  <2>2. QED
    BY <1>13, <2>1, OwnedClosed, Zenon DEF Evict, Go, closeVars
<1>14. ASSUME NEW a \in Acquirers, Discarded(a) PROVE Owned'
  <2>1. conn[a] \in Conns
    BY <1>14, Zenon DEF Discarded, Go, Typed, Busy
  <2>2. QED
    BY <1>14, <2>1, OwnedClosed, Zenon DEF Discarded, Go, closeVars
<1>15. ASSUME NEW a \in Acquirers, DialOK(a) PROVE Owned'
  <2>1. PICK c \in Conns \ live :
          /\ Go(a, "dial", "hold", c) /\ live' = live \cup {c}
          /\ UNCHANGED <<idle, chan, reaped, drained>>
    BY <1>15 DEF DialOK, closeVars
  <2>2. /\ conn \in [Acquirers -> Values] /\ HeldOnce(conn)
        /\ conn[a] \notin Conns /\ c \notin Held(conn)
    BY <2>1, Zenon DEF Go, Typed, Busy, Owned, Partition, Values
  <2>3. Held(conn') = Held(conn) \cup {c} /\ HeldOnce(conn')
    BY <2>1, <2>2, PutFacts, Zenon DEF Go
  <2>4. QED
    BY <2>1, <2>3, Zenon DEF Owned, Partition
<1>16. ASSUME NEW a \in Acquirers, Receive(a) PROVE Owned'
  <2>1. /\ chan' = [chan EXCEPT ![a] = None] /\ chan[a] # None /\ pc[a] = "wait"
        /\ UNCHANGED <<idle, reaped, drained, live>>
    BY <1>16 DEF Receive, Go, closeVars
  <2>2. /\ conn \in [Acquirers -> Values] /\ chan \in [Acquirers -> Values]
        /\ HeldOnce(conn) /\ HeldOnce(chan) /\ conn[a] = None
    BY <2>1, Zenon DEF Typed, Busy, Owned, Partition, Values
  <2>3. Held(chan') = Held(chan) \ {chan[a]} /\ HeldOnce(chan')
    BY <2>1, <2>2, TakeFacts, Zenon
  <2>4. CASE chan[a] = Nil
    <3>1. conn' = conn
      BY <1>16, <2>4, HandKept, Zenon DEF Receive, Busy
    <3>2. chan[a] \notin Held(chan)
      BY <2>4 DEF Held
    <3>3. QED
      BY <2>1, <2>3, <3>1, <3>2, Zenon DEF Owned, Partition
  <2>5. CASE chan[a] # Nil
    <3>1. /\ conn' = [conn EXCEPT ![a] = chan[a]] /\ chan[a] \in Conns
          /\ chan[a] \in Held(chan)
      BY <1>16, <2>1, <2>2, <2>5, Zenon DEF Receive, Go, Values, Held
    <3>2. chan[a] \notin Held(conn)
      BY <3>1 DEF Owned, Partition
    <3>3. Held(conn') = Held(conn) \cup {chan[a]} /\ HeldOnce(conn')
      BY <2>2, <3>1, <3>2, PutFacts, Zenon
    <3>4. QED
      BY <2>1, <2>3, <3>1, <3>3, Zenon DEF Owned, Partition
  <2>6. QED
    BY <2>4, <2>5
<1>17. ASSUME NEW a \in Acquirers, Release(a) PROVE Owned'
  <2>1. conn[a] \in Conns /\ chan[a] = None
    BY <1>17 DEF Release, Typed, Busy, Queued
  <2>2. QED
    BY <1>17, <2>1, OwnedGiveBack, Zenon DEF Release
<1>18. ASSUME NEW a \in Acquirers, Drain(a) PROVE Owned'
  <2>1. conn[a] = None /\ chan[a] # None /\ pc[a] = "drain"
    BY <1>18, Zenon DEF Drain, Typed, Busy
  <2>2. CASE chan[a] = Nil
    <3>1. /\ conn' = conn /\ chan' = [chan EXCEPT ![a] = None]
          /\ UNCHANGED <<idle, reaped, drained, live>>
      <4>1. Go(a, "drain", "out", None) /\ chan' = [chan EXCEPT ![a] = None]
        BY <1>18, <2>2, Zenon DEF Drain
      <4>2. UNCHANGED <<idle, reaped, drained, live>>
        BY <1>18, <2>2, Zenon DEF Drain, closeVars
      <4>3. QED
        BY <4>1, <4>2, HandKept DEF Busy
    <3>2. chan \in [Acquirers -> Values] /\ HeldOnce(chan) /\ Nil \notin Held(chan)
      BY Zenon DEF Typed, Owned, Partition, Values, Held
    <3>3. Held(chan') = Held(chan) \ {Nil} /\ HeldOnce(chan')
      BY <2>2, <3>1, <3>2, TakeFacts, Zenon
    <3>4. QED
      BY <3>1, <3>2, <3>3, Zenon DEF Owned, Partition
  <2>3. CASE chan[a] # Nil
    <3>1. chan[a] \in Conns
      BY <2>1, <2>3 DEF Typed
    <3>2. GiveBack(a, chan[a]) /\ UNCHANGED <<stale, closeVars, live>>
      BY <1>18, <2>3, Zenon DEF Drain
    <3>3. QED
      BY <2>1, <3>1, <3>2, OwnedGiveBack, Zenon
  <2>4. QED
    BY <2>2, <2>3
<1>19. ASSUME Age PROVE Owned'
  BY <1>19, OwnedKept DEF Age, closeVars
<1>20. ASSUME ReaperStopped PROVE Owned'
  BY <1>20, OwnedKept DEF ReaperStopped, closeVars
<1>21. ASSUME CloseReaped PROVE Owned'
  BY <1>21, Zenon DEF CloseReaped, Owned, Partition
<1>22. ASSUME CloseIdle PROVE Owned'
  BY <1>22, Zenon DEF CloseIdle, Owned, Partition
<1>23. ASSUME ReapOnce PROVE Owned'
  <2>1. PICK k \in 1 .. stale : /\ reaped' = {idle[i] : i \in 1 .. k}
                                /\ idle' = SubSeq(idle, k + 1, Len(idle))
    BY <1>23, Zenon DEF ReapOnce
  <2>2. reaped = {} /\ UNCHANGED <<conn, chan, drained, live>>
    BY <1>23, Zenon DEF ReapOnce
  <2>3. k \in 0 .. Len(idle) /\ idle \in Seq(Conns) /\ Distinct(idle)
    BY LenProperties DEF Typed, Owned, Partition
  <2>4. /\ Elems(idle') = Elems(idle) \ reaped' /\ Distinct(idle')
        /\ reaped' \subseteq Elems(idle)
    BY <2>1, <2>3, DropElems, Zenon
  <2>5. QED
    BY <2>2, <2>4, Zenon DEF Owned, Partition
<1>24. ASSUME CloseBegin PROVE Owned'
  <2>1. /\ drained = {} /\ drained' = Elems(idle) /\ idle' = <<>>
        /\ UNCHANGED <<conn, chan, reaped, live>>
    BY <1>24, Zenon DEF CloseBegin, Queued
  <2>2. Elems(idle') = {} /\ Distinct(idle')
    BY <2>1 DEF Elems, Distinct
  <2>3. QED
    BY <2>1, <2>2, Zenon DEF Owned, Partition
<1>25. ASSUME CloseWake PROVE Owned'
  <2> DEFINE h == Head(toWake)
  <2>1. /\ toWake # <<>> /\ chan' = [chan EXCEPT ![h] = Nil]
        /\ UNCHANGED <<conn, idle, reaped, drained, live>>
    BY <1>25 DEF CloseWake
  <2>2. Len(toWake) \in Nat \ {0} /\ h = toWake[1] /\ h \in Acquirers
    BY <2>1, HeadTailProperties, EmptySeq DEF Typed
  <2>3. chan[h] = None
    BY <2>2 DEF Queued
  <2> HIDE DEF h
  <2>4. chan \in [Acquirers -> Values] /\ HeldOnce(chan) /\ None \notin Held(chan)
    BY Zenon DEF Typed, Owned, Partition, Values, Held
  <2>5. Held(chan') = Held(chan) \ {None} /\ HeldOnce(chan')
    BY <2>1, <2>2, <2>3, <2>4, TakeFacts, Zenon
  <2>6. QED
    BY <2>1, <2>4, <2>5, Zenon DEF Owned, Partition
<1>26. CASE UNCHANGED vars
  BY <1>26, OwnedKept DEF vars
<1>27. QED
  BY <1>1, <1>2, <1>3, <1>4, <1>5, <1>6, <1>7, <1>8, <1>9, <1>10, <1>11, <1>12, <1>13, <1>14, <1>15, <1>16, <1>17, <1>18, <1>19, <1>20, <1>21, <1>22, <1>23, <1>24, <1>25, <1>26, Zenon
     DEF Next, Step, Return, Background
-----------------------------------------------------------------------------
(* The count of open connections *)

Counted ==
    /\ IsFiniteSet(Slots) /\ IsFiniteSet(Dialing)
    /\ IF closed THEN Cardinality(Slots) + Cardinality(Dialing) <= open
                 ELSE Cardinality(Slots) + Cardinality(Dialing) = open

\* The connections a goroutine is about to close, their slots already free.
Leaving == {c \in Conns : Closing(c) # {}}

\* An open connection occupies a slot unless someone is about to close it.
SlotsExact ==
    \A c \in Conns : c \in Slots <=> /\ c \in live /\ c \notin reaped
                                     /\ c \notin drained /\ c \notin Leaving

\* With one owner each, the connections in a slot are the live ones nobody is closing.
LEMMA SlotsAre == Typed /\ Owned => SlotsExact
<1> SUFFICES ASSUME Typed, Owned, NEW c \in Conns
             PROVE  c \in Slots <=> /\ c \in live /\ c \notin reaped
                                    /\ c \notin drained /\ c \notin Leaving
  BY DEF SlotsExact
<1>1. c \in Slots <=> \/ c \in Elems(idle) \/ c \in Held(chan)
                      \/ \E a \in Acquirers : conn[a] = c /\ pc[a] \in {"ping", "hold"}
  BY Zenon DEF Slots, Delivered, InHand, Held
<1>2. c \in Leaving <=> \E a \in Acquirers : conn[a] = c /\ pc[a] \in {"evict", "discard"}
  BY Zenon DEF Leaving, Closing
<1>3. c \in Held(conn) <=> \E a \in Acquirers : conn[a] = c /\ pc[a] \in Busy
  BY PoolAssumption DEF Held, Typed
<1>4. \A a, b \in Acquirers : conn[a] = c /\ conn[b] = c => a = b
  BY DEF Owned, HeldOnce
<1>5. c \in Held(conn) <=> \/ \E a \in Acquirers : conn[a] = c /\ pc[a] \in {"ping", "hold"}
                           \/ c \in Leaving
  BY <1>2, <1>3 DEF Busy
<1>6. c \in Leaving => ~ \E a \in Acquirers : conn[a] = c /\ pc[a] \in {"ping", "hold"}
  BY <1>2, <1>4
<1>7. QED
  BY <1>1, <1>5, <1>6, Zenon DEF Owned, Partition

\* What a goroutine's step does to the connections about to be closed.
LEMMA LeavingGo ==
    ASSUME Typed, Owned, NEW a \in Acquirers, NEW to, NEW c \in Conns \cup {None},
           pc' = [pc EXCEPT ![a] = to], conn' = [conn EXCEPT ![a] = c]
    PROVE  \A d \in Conns :
             d \in Leaving' <=> \/ d \in Leaving /\ d # conn[a]
                                \/ d = c /\ to \in {"evict", "discard"}
<1> SUFFICES ASSUME NEW d \in Conns
             PROVE  d \in Leaving' <=> \/ d \in Leaving /\ d # conn[a]
                                       \/ d = c /\ to \in {"evict", "discard"}
  OBVIOUS
<1>1. \A b \in Acquirers : /\ pc'[b] = IF b = a THEN to ELSE pc[b]
                           /\ conn'[b] = IF b = a THEN c ELSE conn[b]
  BY DEF Typed
<1>2. d \in Leaving <=> \E b \in Acquirers : conn[b] = d /\ pc[b] \in {"evict", "discard"}
  BY DEF Leaving, Closing
<1>3. d \in Leaving' <=> \E b \in Acquirers : conn'[b] = d /\ pc'[b] \in {"evict", "discard"}
  BY DEF Leaving, Closing
<1>4. \A b \in Acquirers : conn[b] = d /\ conn[a] = d => a = b
  BY DEF Owned, HeldOnce
<1>5. QED
  BY <1>1, <1>2, <1>3, <1>4

\* ... and to the dials in progress.
LEMMA DialingGo ==
    ASSUME Typed, NEW a \in Acquirers, NEW to, pc' = [pc EXCEPT ![a] = to]
    PROVE  /\ to = "dial" => Dialing' = Dialing \cup {a}
           /\ to # "dial" => Dialing' = Dialing \ {a}
           /\ pc[a] # "dial" => a \notin Dialing
           /\ pc[a] = "dial" => a \in Dialing
<1>1. \A b \in Acquirers : pc'[b] = IF b = a THEN to ELSE pc[b]
  BY DEF Typed
<1>2. QED
  BY <1>1 DEF Dialing

\* Nothing that is counted changes.
LEMMA CountedSame ==
    ASSUME Counted, Slots' = Slots, Dialing' = Dialing, open' = open, closed' = closed
    PROVE  Counted'
  BY DEF Counted

\* One slot is freed, and the count goes down with it.
LEMMA CountedFree ==
    ASSUME Typed, Counted, NEW c \in Slots, Slots' = Slots \ {c}, Dialing' = Dialing,
           open' = open - 1, closed' = closed
    PROVE  Counted'
<1>1. IsFiniteSet(Slots') /\ Cardinality(Slots') = Cardinality(Slots) - 1
  BY FS_RemoveElement DEF Counted
<1>2. Cardinality(Slots) \in Nat /\ Cardinality(Dialing) \in Nat /\ open \in Int
  BY FS_CardinalityType DEF Counted, Typed
<1>3. QED
  BY <1>1, <1>2 DEF Counted

\* The first k idle connections are k different ones.
LEMMA PrefixCount ==
    ASSUME NEW s \in Seq(Conns), Distinct(s), NEW k \in 0 .. Len(s)
    PROVE  LET P == {s[i] : i \in 1 .. k}
           IN  IsFiniteSet(P) /\ Cardinality(P) = k
<1> DEFINE P == {s[i] : i \in 1 .. k}
           f == [i \in 1 .. k |-> s[i]]
<1>1. Len(s) \in Nat /\ k \in Nat
  BY LenProperties
<1>2. \A i \in 1 .. k : i \in 1 .. Len(s)
  BY <1>1
<1>3. f \in [1 .. k -> P] /\ \A i \in 1 .. k : f[i] = s[i]
  OBVIOUS
<1>4. \A i, j \in 1 .. k : f[i] = f[j] => i = j
  BY <1>2, <1>3, Zenon DEF Distinct
<1>5. \A c \in P : \E i \in 1 .. k : f[i] = c
  BY <1>3, Zenon
<1>6. f \in Bijection(1 .. k, P)
  BY <1>3, <1>4, <1>5, Zenon DEF Bijection, Injection, Surjection, IsInjective
<1>7. ExistsBijection(1 .. k, P)
  BY <1>6, Zenon DEF ExistsBijection
<1>8. IsFiniteSet(1 .. k) /\ Cardinality(1 .. k) = k
  BY <1>1, FS_Interval
<1> HIDE DEF P
<1>9. IsFiniteSet(P) /\ Cardinality(P) = k
  BY <1>7, <1>8, FS_Bijection
<1>10. QED
  BY <1>9, Zenon DEF P

\* A new pool counts no connections and has none.
LEMMA CountedInit == Init => Counted
<1> SUFFICES ASSUME Init PROVE Counted
  OBVIOUS
<1>1. Slots = {} /\ Dialing = {}
  BY PoolAssumption DEF Init, Slots, Elems, Delivered, InHand, Dialing
<1>2. QED
  BY <1>1, FS_EmptySet DEF Init, Counted, closed

\* A goroutine moves on and no slot is taken or freed.
LEMMA SlotsKept ==
    ASSUME Typed, Owned, Counted, Typed', Owned', NEW a \in Acquirers,
           NEW to, NEW c \in Conns \cup {None},
           to \notin {"dial", "evict", "discard"},
           pc[a] \notin {"dial", "evict", "discard"},
           pc' = [pc EXCEPT ![a] = to], conn' = [conn EXCEPT ![a] = c],
           UNCHANGED <<open, closer, reaped, drained, live>>
    PROVE  Counted'
<1>1. conn[a] \notin Leaving
  BY Zenon DEF Owned, HeldOnce, Leaving, Closing
<1>2. \A d \in Conns : d \in Leaving' <=> d \in Leaving
  BY <1>1, LeavingGo, Zenon
<1>3. SlotsExact /\ SlotsExact'
  BY SlotsAre, PTL
<1>4. \A d \in Conns : d \in Slots' <=> d \in Slots
  BY <1>2, <1>3 DEF SlotsExact
<1>5. Slots' = Slots
  BY <1>4, Zenon DEF Slots
<1>6. Dialing' = Dialing
  BY DialingGo, Zenon
<1>7. QED
  BY <1>5, <1>6, CountedSame DEF closed

\* A goroutine frees the slot of a connection it is going to close.
LEMMA SlotFreed ==
    ASSUME Typed, Owned, Counted, Typed', Owned', NEW a \in Acquirers,
           NEW to \in {"evict", "discard"}, NEW c \in Slots,
           pc[a] \notin {"dial", "evict", "discard"},
           pc' = [pc EXCEPT ![a] = to], conn' = [conn EXCEPT ![a] = c],
           open' = open - 1, UNCHANGED <<closer, reaped, drained, live>>
    PROVE  Counted'
<1>1. conn[a] \notin Leaving /\ c \in Conns
  BY Zenon DEF Owned, HeldOnce, Leaving, Closing, Slots
<1>2. \A d \in Conns : d \in Leaving' <=> d \in Leaving \/ d = c
  BY <1>1, LeavingGo, Zenon
<1>3. SlotsExact /\ SlotsExact'
  BY SlotsAre, PTL
<1>4. \A d \in Conns : d \in Slots' <=> d \in Slots /\ d # c
  BY <1>2, <1>3 DEF SlotsExact
<1>5. Slots' = Slots \ {c}
  BY <1>4, Zenon DEF Slots
<1>6. Dialing' = Dialing
  BY DialingGo, Zenon
<1>7. QED
  BY <1>5, <1>6, CountedFree DEF closed

\* A goroutine closes a connection whose slot is already free.
LEMMA SlotGone ==
    ASSUME Typed, Owned, Counted, Typed', Owned', NEW a \in Acquirers,
           NEW to \in {"top", "out"}, pc[a] \in {"evict", "discard"},
           pc' = [pc EXCEPT ![a] = to], conn' = [conn EXCEPT ![a] = None],
           live' = live \ {conn[a]}, UNCHANGED <<open, closer, reaped, drained>>
    PROVE  Counted'
<1>1. conn[a] \in Conns
  BY Zenon DEF Typed, Busy
<1>2. conn[a] \in Leaving
  BY <1>1 DEF Leaving, Closing
<1>3. \A d \in Conns : d \in Leaving' <=> d \in Leaving /\ d # conn[a]
  BY LeavingGo, Zenon
<1>4. SlotsExact /\ SlotsExact'
  BY SlotsAre, PTL
<1>5. \A d \in Conns : d \in Slots' <=> d \in Slots
  BY <1>2, <1>3, <1>4 DEF SlotsExact
<1>6. Slots' = Slots
  BY <1>5, Zenon DEF Slots
<1>7. Dialing' = Dialing
  BY DialingGo, Zenon
<1>8. QED
  BY <1>6, <1>7, CountedSame DEF closed

\* Release: the slot stays taken, or is freed when the pool is closed.
LEMMA CountedGiveBack ==
    ASSUME Typed, Owned, Counted, Typed', Owned', NEW a \in Acquirers,
           NEW c \in Slots, GiveBack(a, c), pc[a] \in {"hold", "drain"},
           UNCHANGED <<closeVars, live>>
    PROVE  Counted'
<1>1. CASE closed
  <2>1. /\ pc' = [pc EXCEPT ![a] = "discard"] /\ conn' = [conn EXCEPT ![a] = c]
        /\ open' = open - 1 /\ UNCHANGED <<closer, reaped, drained, live>>
    BY <1>1 DEF GiveBack, closeVars
  <2>2. QED
    BY <2>1, SlotFreed, Zenon
<1>2. CASE ~closed
  <2>1. /\ pc' = [pc EXCEPT ![a] = "out"] /\ conn' = [conn EXCEPT ![a] = None]
        /\ UNCHANGED <<open, closer, reaped, drained, live>>
    BY <1>2 DEF GiveBack, closeVars
  <2>2. QED
    BY <2>1, SlotsKept, Zenon
<1>3. QED
  BY <1>1, <1>2

\* Every step keeps the count.
LEMMA CountedStep ==
    Typed /\ Queued /\ Owned /\ Counted /\ [Next]_vars => Counted'
<1> SUFFICES ASSUME Typed, Queued, Owned, Counted, [Next]_vars PROVE Counted'
  OBVIOUS
<1> USE PoolAssumption
<1>a. Typed' /\ Owned'
  BY TypedStep, OwnedStep
<1>b. Cardinality(Slots) \in Nat /\ Cardinality(Dialing) \in Nat /\ open \in Int
  BY FS_CardinalityType, Zenon DEF Counted, Typed
<1>c. SlotsExact /\ SlotsExact'
  BY <1>a, SlotsAre, PTL
<1>1. ASSUME NEW a \in Acquirers, Acquire(a) PROVE Counted'
  BY <1>1, <1>a, SlotsKept, Zenon DEF Acquire, Go, closeVars
<1>2. ASSUME NEW a \in Acquirers, AcquireClosed(a) PROVE Counted'
  BY <1>2, <1>a, SlotsKept, Zenon DEF AcquireClosed, Go, closeVars
<1>3. ASSUME NEW a \in Acquirers, Exhausted(a) PROVE Counted'
  BY <1>3, <1>a, SlotsKept, Zenon DEF Exhausted, Go, closeVars
<1>4. ASSUME NEW a \in Acquirers, Enqueue(a) PROVE Counted'
  BY <1>4, <1>a, SlotsKept, Zenon DEF Enqueue, Go, closeVars
<1>5. ASSUME NEW a \in Acquirers, Abandon(a) PROVE Counted'
  BY <1>5, <1>a, SlotsKept, Zenon DEF Abandon, Go, closeVars
<1>6. ASSUME NEW a \in Acquirers, PingOK(a) PROVE Counted'
  <2>1. conn[a] \in Conns \cup {None}
    BY DEF Typed
  <2>2. QED
    BY <1>6, <1>a, <2>1, SlotsKept, Zenon DEF PingOK, Go, closeVars
<1>7. ASSUME NEW a \in Acquirers, PopIdle(a) PROVE Counted'
  <2>1. idle[Len(idle)] \in Conns
    BY <1>7, FrontFacts DEF PopIdle, Typed
  <2>2. QED
    BY <1>7, <1>a, <2>1, SlotsKept, Zenon DEF PopIdle, Go, closeVars
<1>8. ASSUME NEW a \in Acquirers, PopExpired(a) PROVE Counted'
  <2>1. idle[Len(idle)] \in Conns /\ idle[Len(idle)] \in Elems(idle)
    BY <1>8, FrontElems, Zenon DEF PopExpired, Typed, Owned
  <2>2. idle[Len(idle)] \in Slots
    BY <2>1 DEF Slots
  <2>3. QED
    BY <1>8, <1>a, <2>2, SlotFreed, Zenon DEF PopExpired, Go, closeVars
<1>9. ASSUME NEW a \in Acquirers, PingFail(a) PROVE Counted'
  <2>1. conn[a] \in Conns /\ pc[a] = "ping"
    BY <1>9, Zenon DEF PingFail, Go, Typed, Busy
  <2>2. conn[a] \in Slots
    BY <2>1, Zenon DEF Slots, InHand
  <2>3. QED
    BY <1>9, <1>a, <2>2, SlotFreed, Zenon DEF PingFail, Go, closeVars
<1>10. ASSUME NEW a \in Acquirers, Discard(a) PROVE Counted'
  <2>1. conn[a] \in Conns /\ pc[a] = "hold"
    BY <1>10, Zenon DEF Discard, Go, Typed, Busy
  <2>2. conn[a] \in Slots
    BY <2>1 DEF Slots, InHand
  <2>3. QED
    BY <1>10, <1>a, <2>2, SlotFreed, Zenon DEF Discard, Go, closeVars
<1>11. ASSUME NEW a \in Acquirers, Evict(a) PROVE Counted'
  BY <1>11, <1>a, SlotGone, Zenon DEF Evict, Go, closeVars
<1>12. ASSUME NEW a \in Acquirers, Discarded(a) PROVE Counted'
  BY <1>12, <1>a, SlotGone, Zenon DEF Discarded, Go, closeVars
<1>13. ASSUME NEW a \in Acquirers, Reserve(a) \/ DialFail(a) PROVE Counted'
  <2>1. /\ UNCHANGED <<closer, reaped, drained, live>> /\ conn[a] = None
        /\ conn' = [conn EXCEPT ![a] = None]
        /\ \/ pc[a] = "top" /\ pc' = [pc EXCEPT ![a] = "dial"] /\ open' = open + 1
           \/ pc[a] = "dial" /\ pc' = [pc EXCEPT ![a] = "out"] /\ open' = open - 1
    BY <1>13, Zenon DEF Reserve, DialFail, Go, closeVars, Typed, Busy
  <2>2. \A d \in Conns : d \in Leaving' <=> d \in Leaving
    BY <2>1, LeavingGo, Zenon
  <2>3. \A d \in Conns : d \in Slots' <=> d \in Slots
    BY <1>c, <2>1, <2>2 DEF SlotsExact
  <2>4. Slots' = Slots
    BY <2>3 DEF Slots
  <2>5. \/ Dialing' = Dialing \cup {a} /\ a \notin Dialing /\ open' = open + 1
        \/ Dialing' = Dialing \ {a} /\ a \in Dialing /\ open' = open - 1
    BY <2>1, DialingGo
  <2>6. /\ IsFiniteSet(Dialing')
        /\ Cardinality(Dialing') - Cardinality(Dialing) = open' - open
        /\ Cardinality(Dialing') \in Nat /\ open' \in Int
    BY <1>b, <2>5, FS_AddElement, FS_RemoveElement, FS_CardinalityType DEF Counted
  <2>7. QED
    BY <1>b, <2>1, <2>4, <2>6 DEF Counted, closed
<1>14. ASSUME NEW a \in Acquirers, DialOK(a) PROVE Counted'
  <2>1. PICK c \in Conns \ live :
          /\ Go(a, "dial", "hold", c) /\ live' = live \cup {c}
          /\ UNCHANGED <<open, closer, reaped, drained>>
    BY <1>14, Zenon DEF DialOK, closeVars
  <2>2. /\ conn[a] \notin Conns /\ pc[a] = "dial"
        /\ pc' = [pc EXCEPT ![a] = "hold"] /\ conn' = [conn EXCEPT ![a] = c]
        /\ c \in Conns \cup {None}
    BY <2>1, Zenon DEF Go, Typed, Busy
  <2>3. \A d \in Conns : d \in Leaving' <=> d \in Leaving
    <3>1. \A d \in Conns :
            d \in Leaving' <=> \/ d \in Leaving /\ d # conn[a]
                               \/ d = c /\ "hold" \in {"evict", "discard"}
      BY <2>2, LeavingGo, Zenon
    <3>2. QED
      BY <2>2, <3>1
  <2>4. c \notin reaped /\ c \notin drained /\ c \notin Held(conn)
    BY <2>1 DEF Owned, Partition
  <2>5. c \notin Leaving /\ c \notin Slots
    <3>1. c \notin Leaving
      BY <2>4 DEF Leaving, Closing, Held
    <3>2. c \notin Slots
      BY <1>c, <2>1 DEF SlotsExact
    <3>3. QED
      BY <3>1, <3>2
  <2>6. \A d \in Conns : d \in Slots' <=> d \in Slots \/ d = c
    BY <1>c, <2>1, <2>3, <2>4, <2>5 DEF SlotsExact
  <2>7. Slots' = Slots \cup {c}
    BY <2>6, Zenon DEF Slots
  <2>8. Dialing' = Dialing \ {a} /\ a \in Dialing
    BY <2>2, "hold" # "dial", DialingGo, Zenon
  <2>9. /\ IsFiniteSet(Slots') /\ Cardinality(Slots') = Cardinality(Slots) + 1
        /\ IsFiniteSet(Dialing') /\ Cardinality(Dialing') = Cardinality(Dialing) - 1
    BY <2>5, <2>7, <2>8, FS_AddElement, FS_RemoveElement, Zenon DEF Counted
  <2>10. QED
    BY <1>b, <2>1, <2>9 DEF Counted, closed
<1>15. ASSUME NEW a \in Acquirers, Receive(a) PROVE Counted'
  <2>1. chan[a] \in Conns \cup {None, Nil}
    BY Zenon DEF Typed
  <2>2. CASE chan[a] = Nil
    BY <1>15, <1>a, <2>2, SlotsKept, Zenon DEF Receive, Go, closeVars
  <2>3. CASE chan[a] \in Conns
    BY <1>15, <1>a, <2>3, SlotsKept, Zenon DEF Receive, Go, closeVars
  <2>4. QED
    BY <1>15, <2>1, <2>2, <2>3, Zenon DEF Receive
<1>16. ASSUME NEW a \in Acquirers, Release(a) PROVE Counted'
  <2>1. conn[a] \in Conns /\ pc[a] = "hold"
    BY <1>16 DEF Release, Typed, Busy
  <2>2. conn[a] \in Slots
    BY <2>1 DEF Slots, InHand
  <2>3. QED
    BY <1>16, <1>a, <2>1, <2>2, CountedGiveBack, Zenon DEF Release
<1>17. ASSUME NEW a \in Acquirers, Drain(a) PROVE Counted'
  <2>1. CASE chan[a] = Nil
    BY <1>17, <1>a, <2>1, SlotsKept, Zenon DEF Drain, Go, closeVars
  <2>2. CASE chan[a] # Nil
    <3>1. /\ chan[a] \in Conns /\ pc[a] = "drain" /\ GiveBack(a, chan[a])
          /\ UNCHANGED <<closeVars, live>>
      BY <1>17, <2>2, Zenon DEF Drain, Typed
    <3>2. chan[a] \in Slots
      BY <3>1, Zenon DEF Slots, Delivered
    <3>3. QED
      BY <1>a, <3>1, <3>2, CountedGiveBack, Zenon
  <2>3. QED
    BY <2>1, <2>2
<1>18. ASSUME UNCHANGED <<pc, conn, idle, chan, open, closed>> PROVE Counted'
  <2>1. Slots' = Slots /\ Dialing' = Dialing
    BY <1>18, Zenon DEF Slots, Dialing, Delivered, InHand
  <2>2. QED
    BY <1>18, <2>1, CountedSame
<1>19. ASSUME Age PROVE Counted'
  BY <1>19, <1>18 DEF Age, closed, closeVars
<1>20. ASSUME CloseReaped PROVE Counted'
  BY <1>20, <1>18 DEF CloseReaped, closed, closeVars
<1>21. ASSUME CloseIdle PROVE Counted'
  BY <1>21, <1>18 DEF CloseIdle, closed, closeVars
<1>22. ASSUME ReaperStopped PROVE Counted'
  BY <1>22, <1>18 DEF ReaperStopped, closed, closeVars
<1>23. ASSUME CloseWake PROVE Counted'
  <2> DEFINE h == Head(toWake)
  <2>1. /\ toWake # <<>> /\ chan' = [chan EXCEPT ![h] = Nil]
        /\ UNCHANGED <<pc, conn, idle, open, closer, reaped, drained, live>>
    BY <1>23 DEF CloseWake
  <2>2. Leaving' = Leaving /\ Dialing' = Dialing
    BY <2>1, Zenon DEF Leaving, Closing, Dialing
  <2>3. \A d \in Conns : d \in Slots' <=> d \in Slots
    BY <1>c, <2>1, <2>2 DEF SlotsExact
  <2>4. Slots' = Slots
    BY <2>3 DEF Slots
  <2>5. QED
    BY <2>1, <2>2, <2>4, CountedSame, Zenon DEF closed
<1>24. ASSUME ReapOnce PROVE Counted'
  <2>1. PICK k \in 1 .. stale : /\ reaped' = {idle[i] : i \in 1 .. k}
                                /\ open' = open - k
    BY <1>24, Zenon DEF ReapOnce
  <2>2. reaped = {} /\ UNCHANGED <<pc, conn, chan, closer, drained, live>>
    BY <1>24, Zenon DEF ReapOnce
  <2>3. k \in 0 .. Len(idle) /\ k \in Nat /\ idle \in Seq(Conns) /\ Distinct(idle)
    BY LenProperties DEF Typed, Owned
  <2>4. IsFiniteSet(reaped') /\ Cardinality(reaped') = k
    BY <2>1, <2>3, PrefixCount, Zenon
  <2>5. reaped' \subseteq Elems(idle)
    BY <2>1, <2>3, DropElems, Zenon
  <2>6. \A i \in 1 .. Len(idle) : idle[i] \in Conns
    BY <2>3, ElementOfSeq
  <2>7. reaped' \subseteq Slots
    BY <2>5, <2>6, Zenon DEF Slots, Elems
  <2>8. Leaving' = Leaving /\ Dialing' = Dialing
    BY <2>2, Zenon DEF Leaving, Closing, Dialing
  <2>9. \A d \in Conns : d \in Slots' <=> d \in Slots /\ d \notin reaped'
    BY <1>c, <2>2, <2>8 DEF SlotsExact
  <2>10. Slots' = Slots \ reaped' /\ Slots \cap reaped' = reaped'
    BY <2>7, <2>9, Zenon DEF Slots
  <2>11. IsFiniteSet(Slots') /\ Cardinality(Slots') = Cardinality(Slots) - k
    <3>1. IsFiniteSet(Slots)
      BY DEF Counted
    <3>2. /\ IsFiniteSet(Slots \ reaped')
          /\ Cardinality(Slots \ reaped') = Cardinality(Slots) - Cardinality(Slots \cap reaped')
      BY <3>1, FS_Difference, Zenon
    <3>3. QED
      BY <2>4, <2>10, <3>2
  <2>12. QED
    BY <1>b, <2>1, <2>2, <2>3, <2>8, <2>11 DEF Counted, closed
<1>25. ASSUME CloseBegin PROVE Counted'
  <2>1. /\ ~closed /\ closed' /\ UNCHANGED <<pc, conn, open, chan, reaped, live>>
        /\ drained = {}
    BY <1>25, Zenon DEF CloseBegin, closed, Queued
  <2>2. Leaving' = Leaving /\ Dialing' = Dialing
    BY <2>1, Zenon DEF Leaving, Closing, Dialing
  <2>3. \A d \in Conns : d \in Slots' => d \in Slots
    BY <1>c, <2>1, <2>2, Zenon DEF SlotsExact
  <2>4. Slots' \subseteq Slots
    BY <2>3, Zenon DEF Slots
  <2>5. /\ IsFiniteSet(Slots') /\ Cardinality(Slots') <= Cardinality(Slots)
        /\ Cardinality(Slots') \in Nat
    BY <2>4, FS_Subset, FS_CardinalityType, Zenon DEF Counted
  <2>6. QED
    BY <1>b, <2>1, <2>2, <2>5 DEF Counted
<1>26. CASE UNCHANGED vars
  BY <1>26, <1>18, Zenon DEF vars, closed
<1>27. QED
  BY <1>1, <1>2, <1>3, <1>4, <1>5, <1>6, <1>7, <1>8, <1>9, <1>10, <1>11, <1>12, <1>13, <1>14, <1>15, <1>16, <1>17, <1>19, <1>20, <1>21, <1>22, <1>23, <1>24, <1>25, <1>26, Zenon
     DEF Next, Step, Return, Background
-----------------------------------------------------------------------------
(* The theorems *)

IInv == Typed /\ Queued /\ Owned /\ Counted

\* The inductive invariant holds in every reachable state of the pool.
LEMMA Inductive == Spec => []IInv
<1>1. Init => IInv
  BY TypedInit, QueuedInit, OwnedInit, CountedInit DEF IInv
<1>2. IInv /\ [Next]_vars => IInv'
  BY TypedStep, QueuedStep, OwnedStep, CountedStep DEF IInv
<1>3. QED
  BY <1>1, <1>2, PTL DEF Spec

\* The type invariant; in particular p.open stays between 0 and MaxSize whatever
\* fails, times out, is reaped or closed.
THEOREM PoolTyped == Spec => []TypeOK
<1>1. IInv => TypeOK
  <2> SUFFICES ASSUME IInv PROVE TypeOK
    OBVIOUS
  <2>1. Cardinality(Slots) \in Nat /\ Cardinality(Dialing) \in Nat
    BY FS_CardinalityType DEF IInv, Counted
  <2>2. open \in 0 .. MaxSize
    BY <2>1, PoolAssumption DEF IInv, Counted, Typed
  <2>3. QED
    BY <2>2, Zenon DEF IInv, Typed, TypeOK
<1>2. QED
  BY <1>1, Inductive, PTL

\* p.open is the number of slots in use: none leaks and none is given out twice.
THEOREM PoolAccounting == Spec => []OpenAccounting
<1>1. IInv => OpenAccounting
  BY DEF IInv, Counted, OpenAccounting
<1>2. QED
  BY <1>1, Inductive, PTL

\* An open connection has exactly one owner, a closed one has none.
THEOREM PoolOwnership == Spec => []OwnedOnce
<1>1. IInv => OwnedOnce
  <2> SUFFICES ASSUME IInv, NEW c \in Conns
               PROVE  /\ c \in live <=> Places(c) # {}
                      /\ \A p, q \in Places(c) : p = q
    BY DEF OwnedOnce
  <2> DEFINE N == {j \in 1 .. Len(idle) : idle[j] = c}
             H == InHand(c) \cup Closing(c)
             K == Delivered(c)
  <2>1. H = {a \in Acquirers : conn[a] = c}
    BY PoolAssumption, Zenon DEF IInv, Typed, Busy, InHand, Closing
  <2>2. /\ c \in Elems(idle) <=> N # {}
        /\ c \in Held(conn) <=> H # {}
        /\ c \in Held(chan) <=> K # {}
    BY <2>1, Zenon DEF Elems, Held, Delivered
  <2>3. /\ \A i, j \in N : i = j
        /\ \A a, b \in H : a = b
        /\ \A a, b \in K : a = b
    BY <2>1, Zenon DEF IInv, Owned, Distinct, HeldOnce, Delivered
  <2>4. \A p : p \in Places(c) <=>
                 \/ \E i \in N : p = <<"idle", i>>
                 \/ \E a \in K : p = <<"chan", a>>
                 \/ \E a \in H : p = <<"hand", a>>
                 \/ c \in reaped /\ p = <<"reaper", c>>
                 \/ c \in drained /\ p = <<"closer", c>>
    BY Zenon DEF Places
  <2> HIDE DEF N, H, K
  <2>5. Places(c) # {} <=> \/ N # {} \/ K # {} \/ H # {}
                           \/ c \in reaped \/ c \in drained
    BY <2>4, Zenon
  <2>6. c \in live <=> Places(c) # {}
    BY <2>2, <2>5, Zenon DEF IInv, Owned, Partition
  <2>7. /\ N # {} => H = {} /\ K = {} /\ c \notin reaped /\ c \notin drained
        /\ H # {} => K = {} /\ c \notin reaped /\ c \notin drained
        /\ K # {} => c \notin reaped /\ c \notin drained
        /\ c \in reaped => c \notin drained
    BY <2>2, Zenon DEF IInv, Owned, Partition
  <2>8. \A p, q \in Places(c) : p = q
    BY <2>3, <2>4, <2>7
  <2>9. QED
    BY <2>6, <2>8
<1>2. QED
  BY <1>1, Inductive, PTL

\* No one waits while a connection lies idle.
THEOREM PoolNoIdleWaste == Spec => []NoIdleWhileWaiting
<1>1. IInv => NoIdleWhileWaiting
  BY DEF IInv, Queued, NoIdleWhileWaiting
<1>2. QED
  BY <1>1, Inductive, PTL

\* A send made with the pool's lock held never blocks.
THEOREM PoolSends == Spec => []SendNeverBlocks
<1>1. IInv => SendNeverBlocks
  BY DEF IInv, Queued, SendNeverBlocks, Elems
<1>2. QED
  BY <1>1, Inductive, PTL
=============================================================================
