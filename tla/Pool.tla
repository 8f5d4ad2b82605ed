-------------------------------- MODULE Pool --------------------------------
(***************************************************************************)
(* The bounded connection pool of internal/pool/pool.go.                   *)
(*                                                                         *)
(* Every critical section of the code (mu.Lock ... mu.Unlock) is one       *)
(* action; dialling, pinging, closing a socket and waiting on a channel    *)
(* happen outside the lock and are steps of their own.  A goroutine that   *)
(* calls Acquire, Release and Discard is a member of Acquirers; the reaper *)
(* goroutine and the one caller of Close are the actions at the end.       *)
(***************************************************************************)
EXTENDS Integers, Sequences, FiniteSets

CONSTANTS Acquirers,    \* goroutines that use the pool
          Conns,        \* identities of backend connections
          MaxSize,      \* Config.MaxSize
          MaxWaiters,   \* Config.MaxWaiters, 0 for no limit
          TimesOut,     \* a wait can end by AcquireTimeout or by ctx
          Reaps,        \* Config.IdleTimeout > 0
          None,         \* an empty channel, no connection in hand
          Nil           \* the nil that Close sends to a waiter

ASSUME PoolAssumption ==
    /\ MaxSize \in Nat \ {0}
    /\ MaxWaiters \in Nat
    /\ TimesOut \in BOOLEAN /\ Reaps \in BOOLEAN
    /\ None \notin Conns /\ Nil \notin Conns /\ None # Nil

VARIABLES pc,       \* where each goroutine is
          conn,     \* the connection a goroutine has in hand
          idle,     \* p.idle, last in first out
          stale,    \* how many of idle, from the oldest, are past IdleTimeout
          open,     \* p.open
          waiters,  \* p.waiters: the goroutines queued, oldest first
          chan,     \* chan[a]: content of a's channel of capacity one
          closer,   \* progress of Close: "none" is ~p.closed
          toWake,   \* waiters Close took from the queue, not yet sent nil
          drained,  \* idle connections Close took, not yet closed
          reaped,   \* connections the reaper took from idle, not yet closed
          live      \* connections opened and not yet closed

vars == <<pc, conn, idle, stale, open, waiters, chan, closer, toWake, drained,
          reaped, live>>

PCs == {"out", "top", "dial", "ping", "wait", "drain", "hold", "evict",
        "discard"}

TypeOK ==
    /\ pc \in [Acquirers -> PCs]
    /\ conn \in [Acquirers -> Conns \cup {None}]
    /\ idle \in Seq(Conns)
    /\ stale \in 0 .. Len(idle)
    /\ open \in 0 .. MaxSize
    /\ waiters \in Seq(Acquirers)
    /\ chan \in [Acquirers -> Conns \cup {None, Nil}]
    /\ closer \in {"none", "stop", "wake"}
    /\ toWake \in Seq(Acquirers)
    /\ drained \in SUBSET Conns
    /\ reaped \in SUBSET Conns
    /\ live \in SUBSET Conns

closed == closer # "none"

\* The values a sequence takes.
Elems(s) == {s[i] : i \in 1 .. Len(s)}

Init ==
    /\ pc = [a \in Acquirers |-> "out"]
    /\ conn = [a \in Acquirers |-> None]
    /\ idle = <<>> /\ stale = 0 /\ open = 0
    /\ waiters = <<>>
    /\ chan = [a \in Acquirers |-> None]
    /\ closer = "none" /\ toWake = <<>>
    /\ drained = {} /\ reaped = {} /\ live = {}

\* Goroutine a moves from one place to another, with c in hand.
Go(a, from, to, c) ==
    /\ pc[a] = from
    /\ pc' = [pc EXCEPT ![a] = to]
    /\ conn' = [conn EXCEPT ![a] = c]

closeVars == <<closer, toWake, drained, reaped>>
-----------------------------------------------------------------------------
(* Acquire *)

\* A goroutine calls Acquire.
Acquire(a) ==
    /\ Go(a, "out", "top", None)
    /\ UNCHANGED <<idle, stale, open, waiters, chan, closeVars, live>>

\* The pool is closed: ErrClosed.
AcquireClosed(a) ==
    /\ closed
    /\ Go(a, "top", "out", None)
    /\ UNCHANGED <<idle, stale, open, waiters, chan, closeVars, live>>

\* The newest idle connection is past IdleTimeout: free its slot and retry.
PopExpired(a) ==
    /\ ~closed /\ idle # <<>> /\ stale = Len(idle)
    /\ Go(a, "top", "evict", idle[Len(idle)])
    /\ idle' = SubSeq(idle, 1, Len(idle) - 1)
    /\ stale' = stale - 1
    /\ open' = open - 1
    /\ UNCHANGED <<waiters, chan, closeVars, live>>

\* Take the newest idle connection, to be health-checked outside the lock.
PopIdle(a) ==
    /\ ~closed /\ idle # <<>> /\ stale < Len(idle)
    /\ Go(a, "top", "ping", idle[Len(idle)])
    /\ idle' = SubSeq(idle, 1, Len(idle) - 1)
    /\ UNCHANGED <<stale, open, waiters, chan, closeVars, live>>

\* checkReused: the connection answers.
PingOK(a) ==
    /\ Go(a, "ping", "hold", conn[a])
    /\ UNCHANGED <<idle, stale, open, waiters, chan, closeVars, live>>

\* checkReused: it does not; its slot is freed and it will be closed.
PingFail(a) ==
    /\ Go(a, "ping", "evict", conn[a])
    /\ open' = open - 1
    /\ UNCHANGED <<idle, stale, waiters, chan, closeVars, live>>

\* Close() of a connection Acquire gave up on, then back to the loop's top.
Evict(a) ==
    /\ Go(a, "evict", "top", None)
    /\ live' = live \ {conn[a]}
    /\ UNCHANGED <<idle, stale, open, waiters, chan, closeVars>>

\* Mutant: off by one at the limit.
ReserveOneMore(a) ==
    /\ ~closed /\ idle = <<>> /\ open <= MaxSize
    /\ Go(a, "top", "dial", None)
    /\ open' = open + 1
    /\ UNCHANGED <<idle, stale, waiters, chan, closeVars, live>>

\* Below MaxSize: reserve a slot and dial outside the lock.
Reserve(a) ==
    /\ ~closed /\ idle = <<>> /\ open < MaxSize
    /\ Go(a, "top", "dial", None)
    /\ open' = open + 1
    /\ UNCHANGED <<idle, stale, waiters, chan, closeVars, live>>

DialOK(a) ==
    \E c \in Conns \ live :
        /\ Go(a, "dial", "hold", c)
        /\ live' = live \cup {c}
        /\ UNCHANGED <<idle, stale, open, waiters, chan, closeVars>>

\* Mutant: the reserved slot is not given back.
DialFailLeaks(a) ==
    /\ Go(a, "dial", "out", None)
    /\ UNCHANGED <<idle, stale, open, waiters, chan, closeVars, live>>

DialFail(a) ==
    /\ Go(a, "dial", "out", None)
    /\ open' = open - 1
    /\ UNCHANGED <<idle, stale, waiters, chan, closeVars, live>>

\* At capacity with MaxWaiters already queued: ErrExhausted.
Exhausted(a) ==
    /\ ~closed /\ idle = <<>> /\ open >= MaxSize
    /\ MaxWaiters > 0 /\ Len(waiters) >= MaxWaiters
    /\ Go(a, "top", "out", None)
    /\ UNCHANGED <<idle, stale, open, waiters, chan, closeVars, live>>

\* Mutant: an acquirer queues without first looking at the idle list.
EnqueueBlindly(a) ==
    /\ ~closed
    /\ MaxWaiters = 0 \/ Len(waiters) < MaxWaiters
    /\ Go(a, "top", "wait", None)
    /\ waiters' = Append(waiters, a)
    /\ UNCHANGED <<idle, stale, open, chan, closeVars, live>>

\* At capacity: join the queue of waiters.
Enqueue(a) ==
    /\ ~closed /\ idle = <<>> /\ open >= MaxSize
    /\ MaxWaiters = 0 \/ Len(waiters) < MaxWaiters
    /\ Go(a, "top", "wait", None)
    /\ waiters' = Append(waiters, a)
    /\ UNCHANGED <<idle, stale, open, chan, closeVars, live>>

\* waitFor: the channel is ready; nil means the pool was closed meanwhile.
Receive(a) ==
    /\ chan[a] # None
    /\ \/ chan[a] = Nil /\ Go(a, "wait", "out", None)
       \/ chan[a] # Nil /\ Go(a, "wait", "ping", chan[a])
    /\ chan' = [chan EXCEPT ![a] = None]
    /\ UNCHANGED <<idle, stale, open, waiters, closeVars, live>>

\* append(s[:i], s[i+1:]...)
Without(s, i) == SubSeq(s, 1, i - 1) \o SubSeq(s, i + 1, Len(s))

\* Mutant: the wait ends and the waiter stays in the queue.
AbandonQueued(a) ==
    /\ TimesOut
    /\ \/ a \in Elems(waiters) /\ Go(a, "wait", "out", None)
       \/ a \notin Elems(waiters) /\ Go(a, "wait", "drain", None)
    /\ UNCHANGED <<idle, stale, open, waiters, chan, closeVars, live>>

\* waitFor: timeout or ctx.  abandonWaiter leaves the queue; a waiter that is no
\* longer in it is about to be sent something, and blocks for it.
Abandon(a) ==
    /\ TimesOut
    /\ \/ \E i \in 1 .. Len(waiters) :
            /\ waiters[i] = a
            /\ Go(a, "wait", "out", None)
            /\ waiters' = Without(waiters, i)
       \/ /\ a \notin Elems(waiters)
          /\ Go(a, "wait", "drain", None)
          /\ UNCHANGED waiters
    /\ UNCHANGED <<idle, stale, open, chan, closeVars, live>>
-----------------------------------------------------------------------------
(* Release and Discard *)

\* Mutant: a released connection goes to the oldest waiter and to the idle list.
GiveBackTwice(a, c) ==
    IF waiters # <<>>
    THEN /\ chan' = [chan EXCEPT ![a] = None, ![Head(waiters)] = c]
         /\ waiters' = Tail(waiters)
         /\ idle' = Append(idle, c)
         /\ pc' = [pc EXCEPT ![a] = "out"]
         /\ conn' = [conn EXCEPT ![a] = None]
         /\ UNCHANGED open
    ELSE /\ idle' = Append(idle, c)
         /\ pc' = [pc EXCEPT ![a] = "out"]
         /\ conn' = [conn EXCEPT ![a] = None]
         /\ chan' = [chan EXCEPT ![a] = None]
         /\ UNCHANGED <<open, waiters>>

\* Mutant: Release does not look at p.closed.
GiveBackOpen(a, c) ==
    /\ idle' = Append(idle, c)
    /\ pc' = [pc EXCEPT ![a] = "out"]
    /\ conn' = [conn EXCEPT ![a] = None]
    /\ chan' = [chan EXCEPT ![a] = None]
    /\ UNCHANGED <<open, waiters>>

\* Release(c) by goroutine a: close it if the pool is closed, else hand it to the
\* oldest waiter, else keep it idle.
GiveBack(a, c) ==
    \/ /\ closed
       /\ open' = open - 1
       /\ pc' = [pc EXCEPT ![a] = "discard"]
       /\ conn' = [conn EXCEPT ![a] = c]
       /\ chan' = [chan EXCEPT ![a] = None]
       /\ UNCHANGED <<idle, waiters>>
    \/ /\ ~closed /\ waiters # <<>>
       /\ chan' = [chan EXCEPT ![a] = None, ![Head(waiters)] = c]
       /\ waiters' = Tail(waiters)
       /\ pc' = [pc EXCEPT ![a] = "out"]
       /\ conn' = [conn EXCEPT ![a] = None]
       /\ UNCHANGED <<idle, open>>
    \/ /\ ~closed /\ waiters = <<>>
       /\ idle' = Append(idle, c)
       /\ pc' = [pc EXCEPT ![a] = "out"]
       /\ conn' = [conn EXCEPT ![a] = None]
       /\ chan' = [chan EXCEPT ![a] = None]
       /\ UNCHANGED <<waiters, open>>

Release(a) ==
    /\ pc[a] = "hold"
    /\ GiveBack(a, conn[a])
    /\ UNCHANGED <<stale, closeVars, live>>

\* The end of abandonWaiter: what was sent arrives; a connection is released.
Drain(a) ==
    /\ pc[a] = "drain" /\ chan[a] # None
    /\ \/ /\ chan[a] = Nil
          /\ Go(a, "drain", "out", None)
          /\ chan' = [chan EXCEPT ![a] = None]
          /\ UNCHANGED <<idle, open, waiters>>
       \/ chan[a] # Nil /\ GiveBack(a, chan[a])
    /\ UNCHANGED <<stale, closeVars, live>>

\* Discard frees the slot under the lock ...
Discard(a) ==
    /\ Go(a, "hold", "discard", conn[a])
    /\ open' = open - 1
    /\ UNCHANGED <<idle, stale, waiters, chan, closeVars, live>>

\* ... and closes the connection after it.
Discarded(a) ==
    /\ Go(a, "discard", "out", None)
    /\ live' = live \ {conn[a]}
    /\ UNCHANGED <<idle, stale, open, waiters, chan, closeVars>>
-----------------------------------------------------------------------------
(* Time, the reaper and Close *)

\* The oldest idle connection not yet past IdleTimeout gets there.
Age ==
    /\ Reaps /\ stale < Len(idle)
    /\ stale' = stale + 1
    /\ UNCHANGED <<pc, conn, idle, open, waiters, chan, closeVars, live>>

\* reapOnce: drop the connections expired when the clock was read, before the
\* lock; the reaper closes them before it looks again.
ReapOnce ==
    /\ closer # "wake" /\ reaped = {}
    /\ \E k \in 1 .. stale :
        /\ reaped' = {idle[i] : i \in 1 .. k}
        /\ idle' = SubSeq(idle, k + 1, Len(idle))
        /\ stale' = stale - k
        /\ open' = open - k
    /\ UNCHANGED <<pc, conn, waiters, chan, closer, toWake, drained, live>>

CloseReaped ==
    /\ \E c \in reaped : reaped' = reaped \ {c} /\ live' = live \ {c}
    /\ UNCHANGED <<pc, conn, idle, stale, open, waiters, chan, closer, toWake,
                   drained>>

\* Close, under the lock: take the idle connections and the waiters.
CloseBegin ==
    /\ ~closed
    /\ closer' = "stop"
    /\ drained' = Elems(idle)
    /\ idle' = <<>> /\ stale' = 0
    /\ toWake' = waiters
    /\ waiters' = <<>>
    /\ UNCHANGED <<pc, conn, open, chan, reaped, live>>

\* Close has stopped the reaper and waited for it.
ReaperStopped ==
    /\ closer = "stop" /\ reaped = {}
    /\ closer' = "wake"
    /\ UNCHANGED <<pc, conn, idle, stale, open, waiters, chan, toWake, drained,
                   reaped, live>>

\* Mutant: Close forgets the waiters it took from the queue.
CloseWakeNone ==
    /\ closer = "wake" /\ toWake # <<>>
    /\ toWake' = <<>>
    /\ UNCHANGED <<pc, conn, idle, stale, open, waiters, chan, closer, drained,
                   reaped, live>>

\* Close sends nil to the next waiter it took.
CloseWake ==
    /\ closer = "wake" /\ toWake # <<>>
    /\ chan' = [chan EXCEPT ![Head(toWake)] = Nil]
    /\ toWake' = Tail(toWake)
    /\ UNCHANGED <<pc, conn, idle, stale, open, waiters, closer, drained,
                   reaped, live>>

\* Close closes the idle connections it took; open is not decremented.
CloseIdle ==
    /\ closer = "wake" /\ toWake = <<>>
    /\ \E c \in drained : drained' = drained \ {c} /\ live' = live \ {c}
    /\ UNCHANGED <<pc, conn, idle, stale, open, waiters, chan, closer, toWake,
                   reaped>>
-----------------------------------------------------------------------------
\* The steps a goroutine takes on its own once it is inside a call.
Step(a) ==
    \/ AcquireClosed(a) \/ PopExpired(a) \/ PopIdle(a) \/ PingOK(a)
    \/ PingFail(a) \/ Evict(a) \/ Reserve(a) \/ DialOK(a) \/ DialFail(a)
    \/ Exhausted(a) \/ Enqueue(a) \/ Receive(a) \/ Drain(a) \/ Discarded(a)

\* The caller's obligation: what Acquire returned is given back.
Return(a) == Release(a) \/ Discard(a)

Background == ReapOnce \/ CloseReaped \/ ReaperStopped \/ CloseWake \/ CloseIdle

Next ==
    \/ \E a \in Acquirers : Acquire(a) \/ Step(a) \/ Abandon(a) \/ Return(a)
    \/ Background \/ Age \/ CloseBegin

Spec == Init /\ [][Next]_vars

\* Goroutines inside the pool run; dials and pings finish; callers give their
\* connections back; the reaper and Close run.  No one has to call Acquire or
\* Close, and no wait has to time out.
FairSpec ==
    /\ Spec
    /\ \A a \in Acquirers : WF_vars(Step(a)) /\ WF_vars(Return(a))
    /\ WF_vars(Background)
-----------------------------------------------------------------------------
(* Properties *)

\* Goroutines that have reserved a slot and are dialling.
Dialing == {a \in Acquirers : pc[a] = "dial"}

\* Goroutines with a connection in hand whose slot is still counted.
InHand(c) == {a \in Acquirers : conn[a] = c /\ pc[a] \in {"ping", "hold"}}

\* Goroutines whose channel holds connection c.
Delivered(c) == {a \in Acquirers : chan[a] = c}

\* The connections that occupy a slot: idle, delivered to a waiter or in hand.
Slots == {c \in Conns : \/ c \in Elems(idle)
                        \/ Delivered(c) # {}
                        \/ InHand(c) # {}}

\* p.open counts exactly the occupied slots and the dials in progress, through
\* every failed dial, failed health check, abandoned wait and reaping; once the
\* pool is closed it may only overcount (Close does not decrement it for the
\* idle connections it closes), so a slot is never given out twice.
OpenAccounting ==
    LET used == Cardinality(Slots) + Cardinality(Dialing)
    IN  IF closed THEN used <= open ELSE used = open

\* Goroutines about to Close() connection c, whose slot is already free.
Closing(c) == {a \in Acquirers : conn[a] = c /\ pc[a] \in {"evict", "discard"}}

\* Every reference to connection c that the pool or a goroutine keeps.
Places(c) ==
    {<<"idle", i>> : i \in {j \in 1 .. Len(idle) : idle[j] = c}}
    \cup {<<"chan", a>> : a \in Delivered(c)}
    \cup {<<"hand", a>> : a \in InHand(c) \cup Closing(c)}
    \cup {<<"reaper", x>> : x \in reaped \cap {c}}
    \cup {<<"closer", x>> : x \in drained \cap {c}}

\* An open connection is in exactly one place: one entry of the idle list, one
\* channel, one goroutine's hand, or with the one party that will close it; a
\* closed one is nowhere.  So no two sessions share a connection, none is used
\* after it was closed, and none is lost while it is open.
OwnedOnce ==
    \A c \in Conns :
        /\ c \in live <=> Places(c) # {}
        /\ \A p, q \in Places(c) : p = q

\* No acquirer waits in the queue while a connection lies idle: Release hands
\* over before it stores, and an acquirer takes an idle one before it queues.
NoIdleWhileWaiting == waiters # <<>> => idle = <<>>

\* A channel that Release or Close will still send to is empty, and its owner is
\* still listening: the send `w <- c`, made with the pool's lock held, never
\* blocks, and nothing is sent to a goroutine that has gone away.
SendNeverBlocks ==
    \A a \in Acquirers :
        a \in Elems(waiters) \cup Elems(toWake) =>
            chan[a] = None /\ pc[a] \in {"wait", "drain"}

\* abandonWaiter always returns: the receive it does when its channel is no
\* longer queued is always answered.
AbandonReturns == \A a \in Acquirers : pc[a] = "drain" ~> pc[a] # "drain"

\* Close drains the pool: every waiter is woken and every connection, wherever
\* it was when Close was called, is closed in the end.
CloseDrains ==
    closed ~> (live = {} /\ \A a \in Acquirers : pc[a] \notin {"wait", "drain"})

\* Acquire's comment: it creates a connection "if the pool is below MaxSize", or
\* waits "for one to be released otherwise": a waiter whose pool has room, and
\* whose peers all give back what they took, gets an answer.
WaiterServed == \A a \in Acquirers : pc[a] = "wait" ~> pc[a] # "wait"
=============================================================================
