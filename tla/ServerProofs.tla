---------------------------- MODULE ServerProofs ----------------------------
(***************************************************************************)
(* Proofs about Server and Manager, for any clients, keys and pool sizes.  *)
(* The inductive invariant has the WaitGroup and the connections lent as   *)
(* exact counts over the sessions, the map as all the pools there are      *)
(* until Close takes it, and, from the drain on, no session left to use it.*)
(***************************************************************************)
EXTENDS Server, Counting

\* Serve's WaitGroup counts a session in this state.
Busy(r) == IF r.pc \in {"new", "queued", "done"} THEN 0 ELSE 1

\* The pool whose connection it holds, or 0.
From(r) == IF r.holds THEN r.pool ELSE 0

\* What a session's state says of its key, its pool and the map m.
Local(r, m) ==
    /\ r.pc \in {"new", "queued", "done", "startup", "acquire", "wait"} => ~r.holds
    /\ r.pc \in {"complete", "relay", "pooled", "reset", "finish"} => r.holds
    /\ r.pc \in {"acquire", "ready"} => r.key \in Keys
    /\ r.holds \/ r.pc = "wait" => r.key \in Keys /\ r.pool # 0 /\ r.pool = m[r.key]

\* Before Close the map holds the pools that were made; then Close has taken them.
Mapped ==
    /\ main \notin {"closing", "stopped"} =>
         /\ shut = {} /\ toShut = {}
         /\ \A p \in 1 .. made : \E k \in Keys : pools[k] = p
         /\ \A k \in Keys : pools[k] <= made
    /\ main \in {"closing", "stopped"} => shut \cup toShut = 1 .. made
    /\ main = "stopped" => toShut = {}

\* Slots: what is lent and idle fits, and nothing idles in no pool or a closed one.
Room ==
    \A p \in Pools : /\ lent[p] + idle[p] <= MaxSize
                     /\ p \in shut \/ p > made => idle[p] = 0

\* Shutdown in its order.
Quiet ==
    /\ main # "accept" => ~listening
    /\ ~listening => \A c \in Clients : sess[c].pc # "queued"
    /\ main \notin {"accept", "drain"} => \A c \in Clients : Busy(sess[c]) = 0

Busies == [c \in Clients |-> Busy(sess[c])]
Froms == [c \in Clients |-> From(sess[c])]

Inv ==
    /\ TypeOK /\ Mapped /\ Room /\ Quiet
    /\ \A c \in Clients : Local(sess[c], pools)
    /\ wg = Count(Clients, Busies, 1)
    /\ \A p \in Pools : lent[p] = Count(Clients, Froms, p)

\* A session that is counted is one that Manager.Close waits for.
LEMMA BusyFacts ==
    ASSUME Inv, NEW c \in Clients
    PROVE  /\ sess[c] \in SessionState /\ Local(sess[c], pools)
           /\ Busy(sess[c]) = 1 =>
                /\ main \in {"accept", "drain"} /\ shut = {} /\ toShut = {}
                /\ \A k \in Keys : pools[k] <= made
           /\ wg \in Nat /\ made \in Nat /\ made <= MaxPools
           /\ pools \in [Keys -> Pools \cup {0}]
           /\ lent \in [Pools -> Nat] /\ idle \in [Pools -> Nat]
           /\ MaxPools \in Nat /\ MaxSize \in Nat
BY ManagerAssumption DEF Inv, TypeOK, ManagerTypeOK, Quiet, Mapped, Busy

\* No more sessions are counted than there are clients, and one that is counted,
\* or holds a connection, is in its count.
LEMMA Counts ==
    ASSUME NEW f, NEW v
    PROVE  /\ Count(Clients, f, v) \in 0 .. Cardinality(Clients)
           /\ (\A c \in Clients : f[c] # v) => Count(Clients, f, v) = 0
           /\ Count(Clients, f, v) = 0 => \A c \in Clients : f[c] # v
<1> DEFINE S == {t \in Clients : f[t] = v}
<1>1. IsFiniteSet(Clients) /\ S \subseteq Clients
  BY ServerAssumption
<1>2. IsFiniteSet(S) /\ Cardinality(S) <= Cardinality(Clients)
  BY <1>1, FS_Subset
<1>3. Cardinality(S) \in Nat /\ Cardinality(Clients) \in Nat
  BY <1>1, <1>2, FS_CardinalityType
<1>4. Cardinality(S) = 0 <=> S = {}
  BY <1>2, FS_EmptySet
<1>5. QED
  BY <1>2, <1>3, <1>4 DEF Count

\* The invariant holds when run starts.
LEMMA InvInit == Init => Inv
<1> SUFFICES ASSUME Init PROVE Inv
  OBVIOUS
<1>1. Cardinality(Clients) \in Nat
  BY ServerAssumption, FS_CardinalityType
<1>2. TypeOK
  <2>1. ManagerTypeOK
    BY ManagerAssumption DEF Init, ManagerInit, ManagerTypeOK
  <2>2. sess \in [Clients -> SessionState]
    BY DEF Init, SessionState
  <2>3. wg \in 0 .. Cardinality(Clients) /\ reloads \in 0 .. MaxReloads
    BY <1>1, ServerAssumption DEF Init
  <2>4. QED
    BY <2>1, <2>2, <2>3, Zenon DEF Init, TypeOK
<1>3. Mapped /\ Room
  BY ManagerAssumption DEF Init, ManagerInit, Mapped, Room, Pools
<1>4. Quiet /\ \A c \in Clients : Local(sess[c], pools)
  BY DEF Init, Quiet, Local, Busy
<1>5. wg = Count(Clients, Busies, 1)
  <2>1. \A c \in Clients : Busies[c] # 1
    BY DEF Init, Busies, Busy
  <2>2. QED
    BY <2>1, Counts DEF Init
<1>6. ASSUME NEW p \in Pools PROVE lent[p] = Count(Clients, Froms, p)
  <2>1. \A c \in Clients : Froms[c] # p
    BY ManagerAssumption DEF Init, Froms, From, Pools
  <2>2. QED
    BY <2>1, Counts DEF Init, ManagerInit
<1>7. QED
  BY <1>2, <1>3, <1>4, <1>5, <1>6 DEF Inv
-----------------------------------------------------------------------------
(* A step of one session *)

\* Session c goes to state R, and the counts follow it.
Moves(c, R) ==
    /\ R \in SessionState /\ sess' = [sess EXCEPT ![c] = R]
    /\ wg' = wg + Busy(R) - Busy(sess[c])
    /\ lent' \in [Pools -> Int]
    /\ \A p \in Pools : lent'[p] = lent[p] + Is(From(R), p) - Is(From(sess[c]), p)
    /\ idle' \in [Pools -> Nat]
    /\ UNCHANGED <<registryVars, ctx, listening, main, gone, cut, toShut, shut>>

\* The map grows, if it changes at all.
Grows ==
    /\ pools' \in [Keys -> Pools \cup {0}] /\ made' \in 0 .. MaxPools /\ made <= made'
    /\ \A k \in Keys : pools[k] # 0 => pools'[k] = pools[k]

\* What a session must show for a move of its own to keep the invariant.
LEMMA MovesKeeps ==
    ASSUME Inv, NEW c \in Clients, NEW R, Moves(c, R), Grows, Local(R, pools'), Mapped', Room',
           Busy(R) = 1 => main \in {"accept", "drain"}, R.pc = "queued" => listening
    PROVE  Inv'
<1>1. /\ sess \in [Clients -> SessionState] /\ IsFiniteSet(Clients) /\ sess'[c] = R
      /\ \A t \in Clients \ {c} : sess'[t] = sess[t]
  BY ServerAssumption DEF Inv, TypeOK, Moves
<1>2. wg' = Count(Clients, Busies', 1)
  <2>1. /\ \A t \in Clients \ {c} : Busies'[t] = Busies[t]
        /\ Busies'[c] = Busy(R) /\ Busies[c] = Busy(sess[c])
    BY <1>1 DEF Busies
  <2> DEFINE f == Busies
             g == Busies'
  <2>2. \A t \in Clients \ {c} : g[t] = f[t]
    BY <2>1
  <2> HIDE DEF f, g
  <2>3. Count(Clients, g, 1) = Count(Clients, f, 1) + Is(g[c], 1) - Is(f[c], 1)
    BY <1>1, <2>2, Recount
  <2>4. Count(Clients, Busies', 1) = Count(Clients, Busies, 1) + Is(Busies'[c], 1) - Is(Busies[c], 1)
    BY <2>3, Zenon DEF f, g
  <2>5. Is(Busy(R), 1) = Busy(R) /\ Is(Busy(sess[c]), 1) = Busy(sess[c])
    BY DEF Is, Busy
  <2>6. QED
    BY <2>1, <2>4, <2>5 DEF Moves, Inv
<1>3. ASSUME NEW p \in Pools PROVE lent'[p] = Count(Clients, Froms', p)
  <2>1. /\ \A t \in Clients \ {c} : Froms'[t] = Froms[t]
        /\ Froms'[c] = From(R) /\ Froms[c] = From(sess[c])
    BY <1>1 DEF Froms
  <2> DEFINE f == Froms
             g == Froms'
  <2>2. \A t \in Clients \ {c} : g[t] = f[t]
    BY <2>1
  <2> HIDE DEF f, g
  <2>3. Count(Clients, g, p) = Count(Clients, f, p) + Is(g[c], p) - Is(f[c], p)
    BY <1>1, <2>2, Recount
  <2>4. Count(Clients, Froms', p) = Count(Clients, Froms, p) + Is(Froms'[c], p) - Is(Froms[c], p)
    BY <2>3, Zenon DEF f, g
  <2>5. QED
    BY <2>1, <2>4 DEF Moves, Inv
<1>4. TypeOK'
  <2>1. wg' \in 0 .. Cardinality(Clients)
    BY <1>2, Counts
  <2>2. \A p \in Pools : lent'[p] \in Nat /\ idle'[p] \in Nat /\ lent'[p] + idle'[p] <= MaxSize
    <3> SUFFICES ASSUME NEW p \in Pools
                 PROVE  lent'[p] \in Nat /\ idle'[p] \in Nat /\ lent'[p] + idle'[p] <= MaxSize
      OBVIOUS
    <3>1. Count(Clients, Froms', p) \in Nat
      <4>1. Count(Clients, Froms', p) \in 0 .. Cardinality(Clients)
        BY Counts
      <4>2. Cardinality(Clients) \in Nat
        BY <1>1, FS_CardinalityType
      <4>3. QED
        BY <4>1, <4>2
    <3>2. QED
      BY <1>3, <3>1 DEF Moves, Room
  <2>3. lent' \in [Pools -> 0 .. MaxSize] /\ idle' \in [Pools -> 0 .. MaxSize]
    BY <2>2, ManagerAssumption DEF Moves
  <2>4. ManagerTypeOK'
    BY <2>3 DEF Inv, TypeOK, ManagerTypeOK, Moves, Grows
  <2>5. sess' \in [Clients -> SessionState]
    BY <1>1 DEF Moves
  <2>6. QED
    BY <2>1, <2>4, <2>5 DEF Inv, TypeOK, Moves, registryVars
<1>5. Quiet'
  <2>1. UNCHANGED <<main, listening>>
    BY DEF Moves
  <2>2. ASSUME ~listening, NEW t \in Clients PROVE sess'[t].pc # "queued"
    BY <1>1, <2>2 DEF Inv, Quiet
  <2>3. ASSUME main \notin {"accept", "drain"}, NEW t \in Clients PROVE Busy(sess'[t]) = 0
    BY <1>1, <2>3 DEF Inv, Quiet, Busy
  <2>4. QED
    BY <2>1, <2>2, <2>3 DEF Inv, Quiet, Busy
<1>6. ASSUME NEW t \in Clients PROVE Local(sess'[t], pools')
  <2>1. CASE t = c
    BY <1>1, <2>1 DEF Local
  <2>2. CASE t # c
    <3>1. sess'[t] = sess[t] /\ Local(sess[t], pools)
      BY <1>1, <2>2 DEF Inv
    <3>2. QED
      BY <3>1 DEF Local, Grows
  <2>3. QED
    BY <2>1, <2>2
<1>7. QED
  BY <1>2, <1>3, <1>4, <1>5, <1>6 DEF Inv

\* The steps that leave the manager alone.
LEMMA AloneKeeps ==
    ASSUME Inv, NEW c \in Clients, NEW R \in SessionState, sess' = [sess EXCEPT ![c] = R],
           wg' = wg + Busy(R) - Busy(sess[c]), From(R) = From(sess[c]), UNCHANGED managerVars,
           UNCHANGED <<registryVars, ctx, listening, main, gone, cut, toShut>>,
           Local(R, pools), Busy(R) = 1 => main \in {"accept", "drain"}, R.pc = "queued" => listening
    PROVE  Inv'
<1>1. UNCHANGED <<pools, made, shut, lent, idle>>
  BY DEF managerVars
<1>2. Moves(c, R)
  <2>1. lent \in [Pools -> Nat] /\ idle \in [Pools -> Nat]
    BY BusyFacts
  <2>2. \A p \in Pools : lent'[p] = lent[p] + Is(From(R), p) - Is(From(sess[c]), p)
    BY <1>1, <2>1 DEF Is
  <2>3. QED
    BY <1>1, <2>1, <2>2 DEF Moves
<1>3. Grows
  BY <1>1 DEF Grows, Inv, TypeOK, ManagerTypeOK
<1>4. Local(R, pools') /\ Mapped' /\ Room'
  BY <1>1, Zenon DEF Local, Mapped, Room, Inv
<1>5. QED
  BY <1>2, <1>3, <1>4, MovesKeeps

\* The steps that end a session with its connection discarded or released.
LEMMA GivesKeeps ==
    ASSUME Inv, NEW c \in Clients, sess[c].holds,
           NEW R \in SessionState, sess' = [sess EXCEPT ![c] = R],
           wg' = wg + Busy(R) - Busy(sess[c]),
           ReleaseAt(sess[c].key, sess[c].pool) \/ DiscardAt(sess[c].key, sess[c].pool),
           UNCHANGED <<registryVars, ctx, listening, main, gone, cut, toShut>>,
           ~R.holds, Local(R, pools), R.pc # "queued"
    PROVE  Inv'
<1> DEFINE q == sess[c].pool
<1>1. /\ Busy(sess[c]) = 1 /\ sess[c].key \in Keys /\ q # 0 /\ q = pools[sess[c].key]
      /\ q \in Pools /\ From(sess[c]) = q /\ From(R) = 0
  BY BusyFacts DEF Local, Busy, From, SessionState
<1>2. /\ main \in {"accept", "drain"} /\ shut = {} /\ made \in Nat
      /\ lent \in [Pools -> Nat] /\ idle \in [Pools -> Nat] /\ pools[sess[c].key] <= made
      /\ MaxPools \in Nat /\ MaxSize \in Nat
  BY <1>1, BusyFacts
<1>3. UNCHANGED <<pools, made, shut>> /\ lent' = [lent EXCEPT ![q] = @ - 1]
      /\ (idle' = idle \/ idle' = [idle EXCEPT ![q] = @ + 1])
  BY <1>1, Zenon DEF ReleaseAt, DiscardAt
<1> HIDE DEF q
<1>4. Moves(c, R)
  <2>1. \A p \in Pools : lent'[p] = lent[p] + Is(From(R), p) - Is(From(sess[c]), p)
    <3> SUFFICES ASSUME NEW p \in Pools
                 PROVE  lent'[p] = lent[p] + Is(From(R), p) - Is(From(sess[c]), p)
      BY Zenon
    <3>1. lent' = [lent EXCEPT ![q] = @ - 1] /\ lent \in [Pools -> Nat]
      BY <1>2, <1>3, Zenon
    <3>2. lent[p] \in Nat /\ lent'[p] = IF p = q THEN lent[p] - 1 ELSE lent[p]
      BY <3>1
    <3>3. Is(From(R), p) = 0 /\ Is(From(sess[c]), p) = IF p = q THEN 1 ELSE 0
      BY <1>1 DEF Is, Pools
    <3>4. QED
      BY <3>2, <3>3
  <2>2. lent' \in [Pools -> Int] /\ idle' \in [Pools -> Nat]
    BY <1>1, <1>2, <1>3, SMTT(30)
  <2>3. QED
    BY <1>3, <2>1, <2>2 DEF Moves
<1>5. Grows
  BY <1>3 DEF Grows, Inv, TypeOK, ManagerTypeOK
<1>6. Mapped' /\ Local(R, pools')
  BY <1>3, Zenon DEF Mapped, Inv, Local
<1>7. Room'
  <2> SUFFICES ASSUME NEW p \in Pools
               PROVE  lent'[p] + idle'[p] <= MaxSize /\ (p \in shut' \/ p > made' => idle'[p] = 0)
    BY DEF Room
  <2>1. lent[p] + idle[p] <= MaxSize /\ (p > made => idle[p] = 0) /\ p \in Nat
    BY <1>2 DEF Inv, Room, Pools
  <2>2. CASE p = q
    BY <1>1, <1>2, <1>3, <2>1, <2>2, SMTT(30)
  <2>3. CASE p # q
    BY <1>1, <1>2, <1>3, <2>1, <2>3, Zenon
  <2>4. QED
    BY <2>2, <2>3
<1>8. QED
  BY <1>1, <1>2, <1>4, <1>5, <1>6, <1>7, MovesKeeps
-----------------------------------------------------------------------------
(* The actions *)

\* The state Session leaves, when the step goes to R.
Fresh(R) == [R EXCEPT !.stalled = FALSE]

\* Whether a session is stalled does not matter to the counts or to the map.
LEMMA FreshFacts ==
    ASSUME NEW R \in SessionState
    PROVE  /\ Fresh(R) \in SessionState /\ Fresh(R).pc = R.pc /\ Fresh(R).holds = R.holds
           /\ Busy(Fresh(R)) = Busy(R) /\ From(Fresh(R)) = From(R)
           /\ \A m : Local(R, m) => Local(Fresh(R), m)
<1> DEFINE F == Fresh(R)
<1>1. /\ F \in SessionState /\ F.pc = R.pc /\ F.holds = R.holds
      /\ F.key = R.key /\ F.pool = R.pool
  BY Zenon DEF Fresh, SessionState
<1> HIDE DEF F
<1>2. Busy(F) = Busy(R) /\ From(F) = From(R) /\ \A m : Local(R, m) => Local(F, m)
  BY <1>1, Zenon DEF Busy, From, Local
<1>3. QED
  BY <1>1, <1>2, Zenon DEF F

\* Every step of a session keeps the invariant.
LEMMA SessionStep ==
    ASSUME Inv, NEW c \in Clients,
           \/ Connect(c) \/ Stall(c) \/ Accept(c) \/ Authenticate(c) \/ Refuse(c)
           \/ ReadMessage(c) \/ Terminate(c) \/ RelayedClean(c) \/ RelayedUnclean(c)
           \/ serve(c)
    PROVE  Inv'
<1> DEFINE r == sess[c]
<1>0. /\ r \in SessionState /\ Local(r, pools) /\ wg \in Nat
      /\ Busy(r) = 1 => main \in {"accept", "drain"}
  BY BusyFacts
<1> DEFINE E == Fresh(Done(c))
<1>D. /\ E \in SessionState /\ Busy(E) = 0 /\ Local(E, pools) /\ From(E) = 0
      /\ ~E.holds /\ E.pc = "done"
  <2>1. /\ Done(c) \in SessionState /\ ~Done(c).holds /\ Done(c).pc = "done"
        /\ Busy(Done(c)) = 0 /\ Local(Done(c), pools) /\ From(Done(c)) = 0
    BY <1>0, Zenon DEF Done, SessionState, Busy, Local, From
  <2>2. QED
    BY <2>1, FreshFacts, Zenon
<1>1. CASE Connect(c)
  <2> DEFINE R == [r EXCEPT !.pc = "queued"]
  <2>1. R \in SessionState /\ R.pc = "queued" /\ R.holds = r.holds /\ R.pool = r.pool
    BY <1>0 DEF SessionState
  <2>2. sess' = [sess EXCEPT ![c] = R] /\ r.pc = "new" /\ listening /\ wg' = wg
        /\ UNCHANGED <<managerVars, registryVars, ctx, listening, main, gone, cut, toShut>>
    BY <1>1 DEF Connect
  <2> HIDE DEF R
  <2>3. Busy(R) = 0 /\ Busy(r) = 0 /\ From(R) = From(r) /\ Local(R, pools)
    BY <1>0, <2>1, <2>2 DEF Busy, From, Local
  <2>4. wg' = wg + Busy(R) - Busy(r) /\ UNCHANGED managerVars
    BY <1>0, <2>2, <2>3
  <2>5. QED
    BY <1>0, <2>1, <2>2, <2>3, <2>4, AloneKeeps, Zenon
<1>2. CASE Accept(c)
  <2> DEFINE R == [r EXCEPT !.pc = "startup"]
  <2>1. R \in SessionState /\ R.pc = "startup" /\ R.holds = r.holds /\ R.pool = r.pool
    BY <1>0 DEF SessionState
  <2>2. sess' = [sess EXCEPT ![c] = R] /\ r.pc = "queued" /\ main = "accept" /\ wg' = wg + 1
        /\ UNCHANGED <<managerVars, registryVars, ctx, listening, main, gone, cut, toShut>>
    BY <1>2 DEF Accept
  <2> HIDE DEF R
  <2>3. Busy(R) = 1 /\ Busy(r) = 0 /\ From(R) = From(r) /\ Local(R, pools)
    BY <1>0, <2>1, <2>2 DEF Busy, From, Local
  <2>4. wg' = wg + Busy(R) - Busy(r) /\ UNCHANGED managerVars
    BY <1>0, <2>2, <2>3
  <2>5. QED
    BY <1>0, <2>1, <2>2, <2>3, <2>4, AloneKeeps, Zenon
<1>3. ASSUME NEW from, from \notin {"new", "queued", "done"}, ~r.holds, Session(c, from, Done(c)),
             wg' = wg - 1, UNCHANGED managerVars
      PROVE  Inv'
  <2>1. Busy(r) = 1 /\ From(r) = 0
    BY <1>3 DEF Session, Busy, From
  <2>2. wg' = wg + Busy(E) - Busy(r)
    BY <1>0, <1>D, <1>3, <2>1
  <2>3. sess' = [sess EXCEPT ![c] = E]
        /\ UNCHANGED <<registryVars, ctx, listening, main, gone, cut, toShut>>
    BY <1>3, Zenon DEF Session, Fresh
  <2>4. QED
    BY <1>0, <1>D, <1>3, <2>1, <2>2, <2>3, AloneKeeps, Zenon
<1>4. ASSUME NEW from, from \notin {"new", "queued", "done"}, r.holds, Session(c, from, Done(c)),
             wg' = wg - 1, ReleaseAt(r.key, r.pool) \/ DiscardAt(r.key, r.pool)
      PROVE  Inv'
  <2>1. Busy(r) = 1
    BY <1>4 DEF Session, Busy
  <2>2. wg' = wg + Busy(E) - Busy(r)
    BY <1>0, <1>D, <1>4, <2>1
  <2>3. sess' = [sess EXCEPT ![c] = E]
        /\ UNCHANGED <<registryVars, ctx, listening, main, gone, cut, toShut>>
    BY <1>4, Zenon DEF Session, Fresh
  <2>4. QED
    BY <1>0, <1>D, <1>4, <2>1, <2>2, <2>3, GivesKeeps, Zenon
<1>5. ASSUME NEW from, NEW R \in SessionState, from \notin {"new", "queued", "done"},
             R.pc \notin {"new", "queued", "done"}, Session(c, from, R), From(R) = From(r),
             Local(R, pools), UNCHANGED <<managerVars, wg>>
      PROVE  Inv'
  <2> DEFINE F == Fresh(R)
  <2>1. Busy(r) = 1 /\ Busy(R) = 1 /\ r.pc = from
    BY <1>5 DEF Session, Busy
  <2>2. /\ F \in SessionState /\ F.pc = R.pc /\ Busy(F) = 1 /\ From(F) = From(r)
        /\ Local(F, pools)
    BY <1>5, <2>1, FreshFacts, Zenon
  <2>3. sess' = [sess EXCEPT ![c] = F]
        /\ UNCHANGED <<registryVars, ctx, listening, main, gone, cut, toShut>>
    BY <1>5, Zenon DEF Session, Fresh
  <2> HIDE DEF F
  <2>4. wg' = wg + Busy(F) - Busy(r) /\ UNCHANGED managerVars
    BY <1>0, <1>5, <2>1, <2>2
  <2>5. QED
    BY <1>0, <1>5, <2>1, <2>2, <2>3, <2>4, AloneKeeps, Zenon
<1>6. CASE Authenticate(c)
  <2>1. PICK k \in Keys : Session(c, "startup", [sess[c] EXCEPT !.pc = "acquire", !.key = k])
    BY <1>6, Zenon DEF Authenticate
  <2> DEFINE R == [r EXCEPT !.pc = "acquire", !.key = k]
  <2>2. R \in SessionState /\ R.pc = "acquire" /\ R.holds = r.holds /\ R.key = k
    BY <1>0, Zenon DEF SessionState
  <2>3. ~r.holds
    BY <1>0, <2>1 DEF Session, Local
  <2>4. Session(c, "startup", R)
    BY <2>1
  <2> HIDE DEF R
  <2>5. From(R) = From(r) /\ Local(R, pools)
    BY <2>2, <2>3, Zenon DEF From, Local
  <2>6. UNCHANGED <<managerVars, wg>>
    BY <1>6, Zenon DEF Authenticate
  <2>7. QED
    BY <1>5, <2>2, <2>4, <2>5, <2>6, Zenon
<1>7. CASE Refuse(c)
  <2>1. ~r.holds
    BY <1>0, <1>7, Zenon DEF Refuse, Session, Local
  <2>2. QED
    BY <1>3, <1>7, <2>1 DEF Refuse
<1>8. CASE ReadMessage(c)
  <2>1. PICK n \in {"relay", "pooled", "acquire"} :
          /\ Session(c, "ready", [sess[c] EXCEPT !.pc = n])
          /\ IF r.holds THEN n # "acquire" ELSE n = "acquire"
    BY <1>8 DEF ReadMessage
  <2> DEFINE R == [r EXCEPT !.pc = n]
  <2>2. /\ R \in SessionState /\ R.pc = n /\ R.holds = r.holds /\ R.key = r.key
        /\ R.pool = r.pool
    BY <1>0, <2>1 DEF SessionState
  <2>3. Session(c, "ready", R) /\ r.pc = "ready"
    BY <2>1 DEF Session
  <2> HIDE DEF R
  <2>4. From(R) = From(r) /\ Local(R, pools)
    BY <1>0, <2>1, <2>2, <2>3 DEF From, Local
  <2>5. UNCHANGED <<managerVars, wg>>
    BY <1>8 DEF ReadMessage
  <2>6. QED
    BY <1>5, <2>1, <2>2, <2>3, <2>4, <2>5
<1>9. CASE Terminate(c)
  <2>1. CASE ~r.holds
    BY <1>3, <1>9, <2>1 DEF Terminate
  <2>2. CASE r.holds
    <3> DEFINE R == [r EXCEPT !.pc = "finish", !.watched = FALSE]
    <3>1. /\ R \in SessionState /\ R.pc = "finish" /\ R.holds = r.holds /\ R.key = r.key
          /\ R.pool = r.pool
      BY <1>0, Zenon DEF SessionState
    <3>2. Session(c, "ready", R) /\ UNCHANGED <<managerVars, wg>>
      BY <1>9, <2>2 DEF Terminate
    <3> HIDE DEF R
    <3>3. From(R) = From(r) /\ Local(R, pools)
      BY <1>0, <2>2, <3>1, Zenon DEF From, Local
    <3>4. QED
      BY <1>5, <3>1, <3>2, <3>3, Zenon
  <2>3. QED
    BY <2>1, <2>2
<1>10. CASE RelayedClean(c)
  <2> DEFINE R == [r EXCEPT !.pc = "finish", !.watched = FALSE]
  <2>1. /\ R \in SessionState /\ R.pc = "finish" /\ R.holds = r.holds /\ R.key = r.key
        /\ R.pool = r.pool
    BY <1>0, Zenon DEF SessionState
  <2>2. Session(c, "pooled", R) /\ r.pc = "pooled" /\ UNCHANGED <<managerVars, wg>>
    BY <1>10 DEF RelayedClean, Session
  <2> HIDE DEF R
  <2>3. From(R) = From(r) /\ Local(R, pools)
    BY <1>0, <2>1, <2>2, Zenon DEF From, Local
  <2>4. QED
    BY <1>5, <2>1, <2>2, <2>3, Zenon
<1>11. CASE RelayedUnclean(c)
  <2>1. r.holds
    BY <1>0, <1>11, Zenon DEF RelayedUnclean, Session, Local
  <2>2. QED
    BY <1>4, <1>11, <2>1 DEF RelayedUnclean, Discard
<1>12. CASE FindPool(c)
  <2>1. /\ r.pc = "acquire" /\ r.key \in Keys /\ ~r.holds /\ Busy(r) = 1
        /\ main \in {"accept", "drain"} /\ shut = {} /\ toShut = {}
        /\ \A k \in Keys : pools[k] <= made
    BY <1>12, BusyFacts DEF FindPool, Local, Busy
  <2>2. /\ made \in Nat /\ made <= MaxPools /\ MaxPools \in Nat
        /\ pools \in [Keys -> Pools \cup {0}]
        /\ lent \in [Pools -> Nat] /\ idle \in [Pools -> Nat]
    BY BusyFacts
  <2>3. /\ \/ pools[r.key] # 0 /\ UNCHANGED <<pools, made>>
           \/ /\ pools[r.key] = 0 /\ made < MaxPools
              /\ made' = made + 1 /\ pools' = [pools EXCEPT ![r.key] = made + 1]
        /\ UNCHANGED <<shut, lent, idle>>
    BY <1>12 DEF FindPool, poolFor
  <2>4. Grows /\ pools'[r.key] \in Pools /\ \A k \in Keys : pools'[k] <= made'
    <3> DEFINE q == r.key
    <3>1. q \in Keys
      BY <2>1, Zenon
    <3> HIDE DEF q
    <3>2. CASE pools[q] # 0 /\ UNCHANGED <<pools, made>>
      <4>1. Grows /\ pools'[q] \in Pools /\ \A k \in Keys : pools'[k] <= made'
        BY <2>1, <2>2, <3>1, <3>2 DEF Grows
      <4>2. QED
        BY <4>1, Zenon DEF q
    <3>3. CASE /\ pools[q] = 0 /\ made < MaxPools
               /\ made' = made + 1 /\ pools' = [pools EXCEPT ![q] = made + 1]
      <4>1. made + 1 \in Pools /\ made' \in 0 .. MaxPools /\ made <= made'
        BY <2>2, <3>3 DEF Pools
      <4>2. pools' \in [Keys -> Pools \cup {0}] /\ pools'[q] = made + 1
            /\ \A k \in Keys \ {q} : pools'[k] = pools[k]
        BY <2>2, <3>1, <3>3, <4>1
      <4>3. \A k \in Keys : pools[k] \in Int
        BY <2>2 DEF Pools
      <4>4. \A k \in Keys : pools'[k] <= made'
        BY <2>1, <2>2, <3>3, <4>2, <4>3
      <4>5. Grows
        BY <3>3, <4>1, <4>2 DEF Grows
      <4>6. QED
        BY <4>1, <4>2, <4>4, <4>5, Zenon DEF q
    <3>4. QED
      BY <2>3, <3>2, <3>3 DEF q
  <2>5. /\ UNCHANGED <<registryVars, ctx, listening, main, gone, cut, toShut, wg>>
        /\ sess' = [sess EXCEPT ![c] = Fresh([r EXCEPT !.pc = "wait", !.pool = pools'[r.key]])]
    BY <1>12, Zenon DEF FindPool, Session, Fresh
  <2>6. Mapped'
    <3>1. ASSUME NEW p \in 1 .. made' PROVE \E k \in Keys : pools'[k] = p
      <4>1. CASE pools[r.key] # 0 /\ UNCHANGED <<pools, made>>
        BY <2>1, <3>1, <4>1, Zenon DEF Inv, Mapped
      <4>2. CASE pools[r.key] = 0 /\ made' = made + 1 /\ pools' = [pools EXCEPT ![r.key] = made + 1]
        <5>1. CASE p = made + 1
          BY <2>1, <2>2, <4>2, <5>1, Zenon
        <5>2. CASE p # made + 1
          <6>1. p \in 1 .. made
            BY <2>2, <4>2, <5>2
          <6>2. PICK k \in Keys : pools[k] = p
            BY <2>1, <6>1, Zenon DEF Inv, Mapped
          <6>3. k # r.key
            BY <4>2, <6>1, <6>2
          <6>4. QED
            BY <2>2, <4>2, <6>2, <6>3
        <5>3. QED
          BY <5>1, <5>2
      <4>3. QED
        BY <2>3, <4>1, <4>2
    <3>2. QED
      BY <2>1, <2>3, <2>4, <2>5, <3>1 DEF Mapped
  <2>7. Room'
    <3> SUFFICES ASSUME NEW p \in Pools
                 PROVE  lent'[p] + idle'[p] <= MaxSize
                        /\ (p \in shut' \/ p > made' => idle'[p] = 0)
      BY Zenon DEF Room
    <3>1. lent[p] + idle[p] <= MaxSize /\ (p \in shut \/ p > made => idle[p] = 0)
      BY Zenon DEF Inv, Room
    <3>2. lent' = lent /\ idle' = idle /\ shut' = shut
      BY <2>3, Zenon
    <3>3. made <= made' /\ made' \in 0 .. MaxPools
      BY <2>4, Zenon DEF Grows
    <3>4. p > made' => p > made
      BY <2>2, <3>3 DEF Pools
    <3>5. QED
      BY <3>1, <3>2, <3>4, Zenon
  <2> DEFINE R == Fresh([r EXCEPT !.pc = "wait", !.pool = pools'[r.key]])
  <2>8. /\ R \in SessionState /\ R.pc = "wait" /\ ~R.holds /\ R.key = r.key
        /\ R.pool = pools'[r.key] /\ sess' = [sess EXCEPT ![c] = R]
    BY <1>0, <2>1, <2>4, <2>5, Zenon DEF SessionState, Fresh
  <2> HIDE DEF R
  <2>9. Local(R, pools') /\ Busy(R) = 1 /\ From(R) = 0 /\ From(r) = 0
    <3>1. pools'[r.key] # 0
      BY <2>4, ManagerAssumption DEF Pools
    <3>2. QED
      BY <2>1, <2>4, <2>8, <3>1, Zenon DEF Local, Busy, From
  <2>10. Moves(c, R)
    <3>1. \A p \in Pools : lent'[p] = lent[p] + Is(From(R), p) - Is(From(sess[c]), p)
      BY <2>2, <2>3, <2>9 DEF Is
    <3>2. wg' = wg + Busy(R) - Busy(r)
      BY <1>0, <2>1, <2>5, <2>9
    <3>3. lent' \in [Pools -> Int] /\ idle' \in [Pools -> Nat]
      BY <2>2, <2>3
    <3>4. QED
      BY <2>3, <2>5, <2>8, <3>1, <3>2, <3>3, Zenon DEF Moves
  <2>11. QED
    BY <2>1, <2>4, <2>6, <2>7, <2>8, <2>9, <2>10, MovesKeeps, Zenon
<1>13. CASE Acquired(c)
  <2>1. /\ r.pc = "wait" /\ r.key \in Keys /\ ~r.holds /\ Busy(r) = 1 /\ r.pool # 0
        /\ r.pool = pools[r.key] /\ r.pool \in Pools
        /\ main \in {"accept", "drain"} /\ shut = {}
    BY <1>13, BusyFacts DEF Acquired, Local, Busy, SessionState
  <2>2. /\ made \in Nat /\ MaxPools \in Nat /\ MaxSize \in Nat
        /\ lent \in [Pools -> Nat] /\ idle \in [Pools -> Nat] /\ r.pool <= made
    BY <2>1, BusyFacts, Zenon
  <2> DEFINE q == r.pool
  <2>3. PICK n \in {"relay", "pooled", "complete"} :
          Session(c, "wait", [sess[c] EXCEPT !.pc = n, !.holds = TRUE])
    BY <1>13, Zenon DEF Acquired
  <2>4. /\ \/ idle[q] > 0 /\ idle' = [idle EXCEPT ![q] = @ - 1]
           \/ idle[q] = 0 /\ lent[q] < MaxSize /\ UNCHANGED idle
        /\ lent' = [lent EXCEPT ![q] = @ + 1] /\ UNCHANGED <<pools, made, shut, wg>>
    BY <1>13 DEF Acquired, AcquireFrom
  <2> DEFINE R == Fresh([r EXCEPT !.pc = n, !.holds = TRUE])
  <2>5. /\ R \in SessionState /\ R.pc = n /\ R.holds /\ R.key = r.key
        /\ R.pool = q /\ sess' = [sess EXCEPT ![c] = R]
    BY <1>0, <2>3, Zenon DEF SessionState, Session, Fresh
  <2>6. UNCHANGED <<registryVars, ctx, listening, main, gone, cut, toShut>>
    BY <2>3 DEF Session
  <2> HIDE DEF R, q
  <2>7. Local(R, pools') /\ Busy(R) = 1 /\ From(R) = q /\ From(r) = 0
    BY <2>1, <2>3, <2>4, <2>5, Zenon DEF Local, Busy, From, q
  <2>8. q \in Pools /\ q <= made
    BY <2>1, <2>2, Zenon DEF q
  <2>9. Moves(c, R)
    <3>1. \A p \in Pools : lent'[p] = lent[p] + Is(From(R), p) - Is(From(sess[c]), p)
      <4> SUFFICES ASSUME NEW p \in Pools
                   PROVE  lent'[p] = lent[p] + Is(From(R), p) - Is(From(r), p)
        BY Zenon
      <4>1. lent' = [lent EXCEPT ![q] = @ + 1] /\ lent \in [Pools -> Nat]
        BY <2>2, <2>4, Zenon
      <4>2. lent[p] \in Nat /\ lent'[p] = IF p = q THEN lent[p] + 1 ELSE lent[p]
        BY <4>1
      <4>3. p # 0 /\ Is(From(R), p) = (IF p = q THEN 1 ELSE 0) /\ Is(From(r), p) = 0
        BY <2>7 DEF Is, Pools
      <4>4. QED
        BY <4>2, <4>3
    <3>2. lent' \in [Pools -> Int] /\ idle' \in [Pools -> Nat]
      <4>1. /\ (idle' = [idle EXCEPT ![q] = @ - 1] /\ idle[q] > 0) \/ idle' = idle
            /\ lent' = [lent EXCEPT ![q] = @ + 1]
        BY <2>4, Zenon
      <4>2. lent \in [Pools -> Nat] /\ idle \in [Pools -> Nat]
        BY <2>2, Zenon
      <4>3. QED
        BY <2>8, <4>1, <4>2
    <3>3. wg' = wg + Busy(R) - Busy(r)
      <4>1. wg' = wg /\ wg \in Nat /\ Busy(R) = 1 /\ Busy(r) = 1
        BY <1>0, <2>1, <2>4, <2>7, Zenon
      <4>2. QED
        BY <4>1
    <3>4. QED
      BY <2>4, <2>5, <2>6, <3>1, <3>2, <3>3, Zenon DEF Moves
  <2>10. Grows
    BY <2>4 DEF Grows, Inv, TypeOK, ManagerTypeOK
  <2>11. Mapped'
    BY <2>4, <2>6 DEF Mapped, Inv
  <2>12. Room'
    <3> SUFFICES ASSUME NEW p \in Pools
                 PROVE  lent'[p] + idle'[p] <= MaxSize
                        /\ (p \in shut' \/ p > made' => idle'[p] = 0)
      BY DEF Room
    <3>1. lent[p] + idle[p] <= MaxSize /\ (p > made => idle[p] = 0) /\ p \in Nat
      BY <2>2, SMTT(30) DEF Inv, Room, Pools
    <3>2. CASE p = q
      BY <2>1, <2>2, <2>4, <2>8, <3>1, <3>2, SMTT(30)
    <3>3. CASE p # q
      BY <2>1, <2>2, <2>4, <2>8, <3>1, <3>3, Zenon
    <3>4. QED
      BY <3>2, <3>3
  <2>13. QED
    BY <2>1, <2>3, <2>5, <2>7, <2>9, <2>10, <2>11, <2>12, MovesKeeps
<1>14. CASE NotAcquired(c)
  <2>1. ~r.holds
    BY <1>0, <1>14, Zenon DEF NotAcquired, Session, Local
  <2>2. QED
    BY <1>3, <1>14, <2>1 DEF NotAcquired
<1>15. CASE CompleteStartup(c)
  <2>1. r.pc = "complete" /\ r.holds
    BY <1>0, <1>15 DEF CompleteStartup, Session, Local
  <2>2. CASE Session(c, "complete", Done(c)) /\ wg' = wg - 1 /\ Discard(c)
    BY <1>4, <2>1, <2>2, Zenon DEF Discard
  <2>3. CASE /\ Session(c, "complete",
                        [sess[c] EXCEPT !.pc = IF Mode = "session" THEN "pooled" ELSE "ready",
                                        !.watched = TRUE])
             /\ UNCHANGED <<managerVars, wg>>
    <3> DEFINE n == IF Mode = "session" THEN "pooled" ELSE "ready"
               R == [r EXCEPT !.pc = n, !.watched = TRUE]
    <3>1. n \in {"pooled", "ready"}
      OBVIOUS
    <3>2. Session(c, "complete", R)
      BY <2>3
    <3> HIDE DEF n
    <3>3. /\ R \in SessionState /\ R.pc = n /\ R.holds = r.holds /\ R.key = r.key
          /\ R.pool = r.pool
      BY <1>0, <3>1, Zenon DEF SessionState
    <3> HIDE DEF R
    <3>4. From(R) = From(r) /\ Local(R, pools)
      BY <1>0, <2>1, <3>1, <3>3, Zenon DEF From, Local
    <3>5. QED
      BY <1>5, <2>3, <3>1, <3>2, <3>3, <3>4
  <2>4. QED
    BY <1>15, <2>2, <2>3 DEF CompleteStartup
<1>16. CASE ReadFails(c)
  <2>1. CASE r.holds
    BY <1>4, <1>16, <2>1 DEF ReadFails, Discard
  <2>2. CASE ~r.holds
    BY <1>3, <1>16, <2>2 DEF ReadFails
  <2>3. QED
    BY <2>1, <2>2
<1>17. CASE Answer(c)
  <2>1. PICK n \in {"ready", "reset"} : Session(c, "relay", [sess[c] EXCEPT !.pc = n])
    BY <1>17 DEF Answer
  <2> DEFINE R == [r EXCEPT !.pc = n]
  <2>2. /\ R \in SessionState /\ R.pc = n /\ R.holds = r.holds /\ R.key = r.key
        /\ R.pool = r.pool
    BY <1>0, <2>1 DEF SessionState
  <2>3. Session(c, "relay", R) /\ r.pc = "relay" /\ UNCHANGED <<managerVars, wg>>
    BY <1>17, <2>1, Zenon DEF Answer, Session
  <2> HIDE DEF R
  <2>4. From(R) = From(r) /\ Local(R, pools)
    BY <1>0, <2>1, <2>2, <2>3 DEF From, Local
  <2>5. QED
    BY <1>5, <2>1, <2>2, <2>3, <2>4
<1>18. CASE AnswerFails(c)
  <2>1. r.holds
    BY <1>0, <1>18, Zenon DEF AnswerFails, Session, Local
  <2>2. QED
    BY <1>4, <1>18, <2>1 DEF AnswerFails, Discard
<1>19. CASE ReleaseBetween(c)
  <2> DEFINE R == Fresh([r EXCEPT !.pc = "ready", !.holds = FALSE])
  <2>1. R \in SessionState /\ R.pc = "ready" /\ ~R.holds /\ R.key = r.key
    BY <1>0, Zenon DEF SessionState, Fresh
  <2>2. sess' = [sess EXCEPT ![c] = R] /\ r.pc = "reset" /\ wg' = wg
        /\ UNCHANGED <<registryVars, ctx, listening, main, gone, cut, toShut>>
    BY <1>19, Zenon DEF ReleaseBetween, Session, Fresh
  <2> HIDE DEF R
  <2>3. r.holds /\ Busy(r) = 1 /\ Busy(R) = 1 /\ Local(R, pools)
    BY <1>0, <2>1, <2>2, Zenon DEF Local, Busy
  <2>4. ReleaseAt(r.key, r.pool) \/ DiscardAt(r.key, r.pool)
    BY <1>19 DEF ReleaseBetween, Discard
  <2>5. wg' = wg + Busy(R) - Busy(r) /\ R.pc # "queued"
    <3>1. wg' = wg /\ wg \in Nat /\ Busy(R) = 1 /\ Busy(r) = 1 /\ R.pc = "ready"
      BY <1>0, <2>1, <2>2, <2>3, Zenon
    <3>2. QED
      BY <3>1
  <2>6. QED
    BY <2>1, <2>2, <2>3, <2>4, <2>5, GivesKeeps, Zenon
<1>20. CASE Finish(c)
  <2>1. r.holds
    BY <1>0, <1>20, Zenon DEF Finish, Session, Local
  <2>2. QED
    BY <1>4, <1>20, <2>1 DEF Finish, Discard
<1>21. CASE Stall(c)
  <2> DEFINE R == [r EXCEPT !.stalled = TRUE]
  <2>1. /\ R \in SessionState /\ R.pc = r.pc /\ R.holds = r.holds
        /\ R.key = r.key /\ R.pool = r.pool
    BY <1>0, Zenon DEF SessionState
  <2>2. sess' = [sess EXCEPT ![c] = R] /\ wg' = wg /\ r.pc \in {"wait", "relay", "pooled"}
        /\ UNCHANGED <<managerVars, registryVars, ctx, listening, main, gone, cut, toShut>>
    BY <1>21 DEF Stall
  <2> HIDE DEF R
  <2>3. Busy(R) = 1 /\ Busy(r) = 1 /\ From(R) = From(r) /\ Local(R, pools)
    BY <1>0, <2>1, <2>2 DEF Busy, From, Local
  <2>4. wg' = wg + Busy(R) - Busy(r) /\ UNCHANGED managerVars
    BY <1>0, <2>2, <2>3
  <2>5. QED
    BY <1>0, <2>1, <2>2, <2>3, <2>4, AloneKeeps, Zenon
<1>22. QED
  BY <1>1, <1>2, <1>6, <1>7, <1>8, <1>9, <1>10, <1>11, <1>12, <1>13, <1>14, <1>15, <1>16,
     <1>17, <1>18, <1>19, <1>20, <1>21
  DEF serve

\* With no session counted, none holds a connection.
LEMMA QuietLent ==
    ASSUME Inv, \A c \in Clients : Busy(sess[c]) = 0
    PROVE  \A p \in Pools : lent[p] = 0
<1> SUFFICES ASSUME NEW p \in Pools PROVE lent[p] = 0
  OBVIOUS
<1>1. ASSUME NEW c \in Clients PROVE Froms[c] # p
  <2>1. ~sess[c].holds
    BY BusyFacts DEF Busy, Local
  <2>2. Froms[c] = 0
    BY <2>1 DEF Froms, From
  <2>3. QED
    BY <2>2, ManagerAssumption DEF Pools
<1>2. QED
  BY <1>1, Counts, Zenon DEF Inv

\* What the rest of the process does, with no session changing.
LEMMA ProcessKeeps ==
    ASSUME Inv, TypeOK', Mapped', Room', UNCHANGED <<sess, lent, wg, pools>>,
           main' # "accept" => ~listening',
           ~listening' => \A c \in Clients : sess[c].pc # "queued",
           main' \notin {"accept", "drain"} => \A c \in Clients : Busy(sess[c]) = 0
    PROVE  Inv'
<1>1. Busies' = Busies /\ Froms' = Froms
  BY Zenon DEF Busies, Froms
<1>2. Quiet' /\ \A c \in Clients : Local(sess'[c], pools')
  BY Zenon DEF Inv, Quiet
<1>3. QED
  BY <1>1, <1>2, Zenon DEF Inv

\* Every step of run, Serve, the reload and the registry keeps the invariant.
LEMMA ProcessStep ==
    ASSUME Inv,
           \/ Signal \/ run \/ PollersStop \/ ReloadStop \/ ReloadLaunch \/ ReloadEnds
           \/ IdleReaped \/ Exited
           \/ \E c \in Clients : Leave(c) \/ Watch(c)
    PROVE  Inv'
<1>1. ASSUME UNCHANGED <<managerVars, listening, main, wg, sess, toShut>>, TypeOK'
      PROVE  Inv'
  <2>1. Mapped' /\ Room'
    BY <1>1 DEF managerVars, Inv, Mapped, Room
  <2>2. QED
    BY <1>1, <2>1, ProcessKeeps, Zenon DEF managerVars, Inv, Quiet
<1>2. CASE Signal
  <2>1. TypeOK'
    BY <1>2, Zenon DEF Signal, Inv, TypeOK, ManagerTypeOK, managerVars
  <2>2. QED
    BY <1>1, <1>2, <2>1 DEF Signal
<1>3. CASE PollersStop \/ ReloadLaunch \/ ReloadEnds
  <2>1. TypeOK'
    BY <1>3, Zenon
    DEF PollersStop, ReloadLaunch, ReloadEnds, Inv, TypeOK, ManagerTypeOK, managerVars, serverVars
  <2>2. QED
    BY <1>1, <1>3, <2>1 DEF PollersStop, ReloadLaunch, ReloadEnds, serverVars
<1>4. CASE ReloadStop
  <2>1. TypeOK'
    BY <1>4, ServerAssumption, SMTT(30)
    DEF ReloadStop, Inv, TypeOK, ManagerTypeOK, managerVars, serverVars
  <2>2. QED
    BY <1>1, <1>4, <2>1 DEF ReloadStop, serverVars
<1>5. ASSUME NEW c \in Clients, Leave(c) \/ Watch(c) PROVE Inv'
  <2>1. TypeOK'
    BY <1>5, ZenonT(40) DEF Leave, Watch, Inv, TypeOK, ManagerTypeOK, managerVars, registryVars
  <2>2. QED
    BY <1>1, <1>5, <2>1, Zenon DEF Leave, Watch
<1>6. CASE Exited
  <2>1. TypeOK'
    BY <1>6, Zenon
    DEF Exited, vars, Inv, TypeOK, ManagerTypeOK, managerVars, registryVars, serverVars
  <2>2. QED
    BY <1>1, <1>6, <2>1 DEF Exited, vars, serverVars
<1>7. CASE IdleReaped
  <2>1. PICK q \in Pools \ shut : idle[q] > 0 /\ idle' = [idle EXCEPT ![q] = @ - 1]
    BY <1>7, Zenon DEF IdleReaped, Reap
  <2>2. UNCHANGED <<pools, made, shut, lent, listening, main, wg, sess, toShut>>
    BY <1>7 DEF IdleReaped, Reap, serverVars
  <2>3. idle \in [Pools -> 0 .. MaxSize] /\ lent \in [Pools -> 0 .. MaxSize] /\ MaxSize \in Nat
    BY ManagerAssumption DEF Inv, TypeOK, ManagerTypeOK
  <2>4. idle' \in [Pools -> 0 .. MaxSize] /\ \A p \in Pools : idle'[p] <= idle[p]
    BY <2>1, <2>3
  <2>5. TypeOK'
    BY <1>7, <2>2, <2>4, Zenon
    DEF IdleReaped, Inv, TypeOK, ManagerTypeOK, serverVars, registryVars
  <2>6. Mapped'
    BY <2>2 DEF Inv, Mapped
  <2>7. Room'
    <3> SUFFICES ASSUME NEW p \in Pools
                 PROVE  lent'[p] + idle'[p] <= MaxSize
                        /\ (p \in shut' \/ p > made' => idle'[p] = 0)
      BY DEF Room
    <3>1. /\ lent[p] + idle[p] <= MaxSize /\ (p \in shut \/ p > made => idle[p] = 0)
          /\ idle[p] \in Nat /\ lent[p] \in Nat /\ idle'[p] \in Nat /\ idle'[p] <= idle[p]
      BY <2>3, <2>4 DEF Inv, Room
    <3>2. QED
      BY <2>2, <2>3, <3>1
  <2>8. QED
    BY <2>2, <2>5, <2>6, <2>7, ProcessKeeps, Zenon DEF Inv, Quiet
<1>8. CASE CloseListener
  <2>1. /\ listening' = FALSE /\ UNCHANGED <<pools, made, shut, lent, idle, main, wg, toShut>>
        /\ sess' = [c \in Clients |->
             IF sess[c].pc = "queued" THEN [sess[c] EXCEPT !.pc = "done"] ELSE sess[c]]
    BY <1>8 DEF CloseListener, managerVars
  <2>2. ASSUME NEW c \in Clients
        PROVE  /\ sess'[c] \in SessionState /\ sess'[c].pc # "queued"
               /\ Busy(sess'[c]) = Busy(sess[c]) /\ From(sess'[c]) = From(sess[c])
               /\ Local(sess'[c], pools')
    <3>1. sess[c] \in SessionState /\ Local(sess[c], pools)
      BY BusyFacts
    <3>2. CASE sess[c].pc = "queued"
      <4> DEFINE R == [sess[c] EXCEPT !.pc = "done"]
      <4>1. R \in SessionState /\ R.pc = "done" /\ R.holds = sess[c].holds /\ ~R.holds
        BY <3>1, <3>2 DEF SessionState, Local
      <4>2. sess'[c] = R
        BY <2>1, <3>2
      <4> HIDE DEF R
      <4>3. QED
        BY <3>2, <4>1, <4>2, Zenon DEF Busy, From, Local
    <3>3. CASE sess[c].pc # "queued"
      BY <2>1, <3>1, <3>3
    <3>4. QED
      BY <3>2, <3>3, Zenon
  <2>3. Busies' = Busies /\ Froms' = Froms
    BY <2>2, Zenon DEF Busies, Froms
  <2>4. TypeOK'
    BY <1>8, <2>1, <2>2, Zenon
    DEF CloseListener, Inv, TypeOK, ManagerTypeOK, managerVars, registryVars
  <2>5. Mapped' /\ Room'
    BY <2>1 DEF Inv, Mapped, Room
  <2>6. Quiet'
    BY <2>1, <2>2 DEF Inv, Quiet
  <2>7. QED
    BY <2>1, <2>2, <2>3, <2>4, <2>5, <2>6 DEF Inv
<1>9. CASE AcceptFails
  <2>1. /\ ~listening /\ main = "accept" /\ main' = "drain"
        /\ UNCHANGED <<pools, made, shut, lent, idle, toShut, registryVars, ctx, listening, wg,
                       sess, gone, cut>>
    BY <1>9 DEF AcceptFails, Main, managerVars
  <2>2. TypeOK' /\ Mapped' /\ Room'
    BY <2>1, Zenon DEF Inv, TypeOK, ManagerTypeOK, registryVars, Mapped, Room
  <2>3. QED
    BY <2>1, <2>2, ProcessKeeps, Zenon DEF Inv, Quiet
<1>10. CASE Drained
  <2>1. /\ wg = 0 /\ main = "drain" /\ main' = "wait"
        /\ UNCHANGED <<pools, made, shut, lent, idle, toShut, registryVars, ctx, listening, wg,
                       sess, gone, cut>>
    BY <1>10 DEF Drained, Main, managerVars
  <2>2. TypeOK' /\ Mapped' /\ Room'
    BY <2>1, Zenon DEF Inv, TypeOK, ManagerTypeOK, registryVars, Mapped, Room
  <2>3. \A c \in Clients : Busies[c] # 1
    BY <2>1, Counts, Zenon DEF Inv
  <2>4. \A c \in Clients : Busy(sess[c]) = 0
    BY <2>3 DEF Busies, Busy
  <2>5. QED
    BY <2>1, <2>2, <2>4, ProcessKeeps, Zenon DEF Inv, Quiet
<1>11. CASE RegistryStopped
  <2>1. /\ main = "wait" /\ main' = "close"
        /\ UNCHANGED <<pools, made, shut, lent, idle, toShut, registryVars, ctx, listening, wg,
                       sess, gone, cut>>
    BY <1>11 DEF RegistryStopped, Main, managerVars
  <2>2. TypeOK' /\ Mapped' /\ Room'
    BY <2>1, Zenon DEF Inv, TypeOK, ManagerTypeOK, registryVars, Mapped, Room
  <2>3. QED
    BY <2>1, <2>2, ProcessKeeps, Zenon DEF Inv, Quiet
<1>12. CASE ManagerClose
  <2>1. /\ main = "close" /\ main' = "closing" /\ pools' = [k \in Keys |-> 0]
        /\ toShut' = {pools[k] : k \in Keys} \ {0}
        /\ UNCHANGED <<made, shut, lent, idle, registryVars, ctx, listening, wg, sess, gone, cut>>
    BY <1>12, Zenon DEF ManagerClose, Main, CloseTake
  <2>2. /\ pools \in [Keys -> Pools \cup {0}] /\ made \in Nat /\ made <= MaxPools /\ shut = {}
        /\ \A p \in 1 .. made : \E k \in Keys : pools[k] = p
        /\ \A k \in Keys : pools[k] <= made
    <3>1. pools \in [Keys -> Pools \cup {0}] /\ made \in 0 .. MaxPools
      BY Zenon DEF Inv, TypeOK, ManagerTypeOK
    <3>2. main \notin {"closing", "stopped"}
      BY <2>1, Zenon
    <3>3. /\ shut = {} /\ \A p \in 1 .. made : \E k \in Keys : pools[k] = p
          /\ \A k \in Keys : pools[k] <= made
      BY <3>2, Zenon DEF Inv, Mapped
    <3>4. made \in Nat /\ made <= MaxPools
      BY <3>1, ManagerAssumption
    <3>5. QED
      BY <3>1, <3>3, <3>4, Zenon
  <2>3. toShut' = 1 .. made /\ toShut' \subseteq Pools
    <3>1. ASSUME NEW k \in Keys, pools[k] # 0 PROVE pools[k] \in 1 .. made
      BY <2>2, <3>1 DEF Pools
    <3>2. ASSUME NEW p \in 1 .. made PROVE p \in toShut'
      <4>1. PICK k \in Keys : pools[k] = p
        BY <2>2, Zenon
      <4>2. p # 0
        OBVIOUS
      <4>3. QED
        BY <2>1, <4>1, <4>2, Zenon
    <3>3. ASSUME NEW p \in toShut' PROVE p \in 1 .. made
      BY <2>1, <3>1, Zenon
    <3>4. 1 .. made \subseteq Pools
      BY <2>2, ManagerAssumption DEF Pools
    <3>5. QED
      BY <3>2, <3>3, <3>4, Zenon
  <2>4. TypeOK'
    BY <2>1, <2>3, Zenon DEF Inv, TypeOK, ManagerTypeOK, registryVars
  <2>5. Mapped' /\ Room'
    BY <2>1, <2>2, <2>3, Zenon DEF Inv, Mapped, Room
  <2>6. ~listening /\ \A c \in Clients : Busy(sess[c]) = 0 /\ sess[c].pc # "queued"
    BY <2>1, Zenon DEF Inv, Quiet
  <2>7. \A c \in Clients : Local(sess'[c], pools')
    <3> SUFFICES ASSUME NEW c \in Clients PROVE Local(sess[c], pools')
      BY <2>1
    <3>1. sess[c].pc \in {"new", "queued", "done"} /\ ~sess[c].holds
      BY <2>6, BusyFacts DEF Busy, Local
    <3>2. QED
      BY <3>1, Zenon DEF Local
  <2>8. Busies' = Busies /\ Froms' = Froms /\ Quiet'
    <3>1. Busies' = Busies /\ Froms' = Froms
      BY <2>1, Zenon DEF Busies, Froms
    <3>2. Quiet'
      BY <2>1, <2>6, Zenon DEF Quiet, Busy
    <3>3. QED
      BY <3>1, <3>2
  <2>9. QED
    BY <2>1, <2>4, <2>5, <2>7, <2>8, Zenon DEF Inv
<1>13. ASSUME NEW q \in toShut, Main("closing", "closing"), ClosePool(q), toShut' = toShut \ {q}
       PROVE  Inv'
  <2>1. /\ main = "closing" /\ main' = "closing" /\ shut' = shut \cup {q}
        /\ idle' = [idle EXCEPT ![q] = 0]
        /\ UNCHANGED <<pools, made, lent, registryVars, ctx, listening, wg, sess, gone, cut>>
    BY <1>13 DEF Main, ClosePool
  <2>2. q \in Pools /\ shut \cup toShut = 1 .. made /\ shut' \cup toShut' = 1 .. made
    BY <1>13, <2>1, Zenon DEF Inv, TypeOK, Mapped
  <2>3. idle' \in [Pools -> 0 .. MaxSize]
    BY <2>1, <2>2, ManagerAssumption DEF Inv, TypeOK, ManagerTypeOK
  <2>4. TypeOK'
    BY <1>13, <2>1, <2>2, <2>3, Zenon DEF Inv, TypeOK, ManagerTypeOK, registryVars
  <2>5. Mapped'
    BY <2>1, <2>2, Zenon DEF Inv, Mapped
  <2>6. Room'
    <3> SUFFICES ASSUME NEW p \in Pools
                 PROVE  lent'[p] + idle'[p] <= MaxSize
                        /\ (p \in shut' \/ p > made' => idle'[p] = 0)
      BY DEF Room
    <3>1. /\ lent[p] + idle[p] <= MaxSize /\ (p \in shut \/ p > made => idle[p] = 0)
          /\ idle[p] \in Nat /\ lent[p] \in Nat /\ idle \in [Pools -> 0 .. MaxSize]
          /\ MaxSize \in Nat
      BY ManagerAssumption DEF Inv, TypeOK, ManagerTypeOK, Room
    <3>2. CASE p = q
      BY <2>1, <2>2, <3>1, <3>2
    <3>3. CASE p # q
      BY <2>1, <2>2, <3>1, <3>3, Zenon
    <3>4. QED
      BY <3>2, <3>3
  <2>7. QED
    BY <2>1, <2>4, <2>5, <2>6, ProcessKeeps, Zenon DEF Inv, Quiet
<1>14. ASSUME toShut = {}, Main("closing", "stopped"), UNCHANGED <<managerVars, toShut>>
       PROVE  Inv'
  <2>1. /\ main = "closing" /\ main' = "stopped"
        /\ UNCHANGED <<pools, made, shut, lent, idle, toShut, registryVars, ctx, listening, wg,
                       sess, gone, cut>>
    BY <1>14 DEF Main, managerVars
  <2>2. TypeOK' /\ Mapped' /\ Room'
    BY <1>14, <2>1, Zenon DEF Inv, TypeOK, ManagerTypeOK, registryVars, Mapped, Room
  <2>3. QED
    BY <2>1, <2>2, ProcessKeeps, Zenon DEF Inv, Quiet
<1>15. QED
  BY <1>2, <1>3, <1>4, <1>5, <1>6, <1>7, <1>8, <1>9, <1>10, <1>11, <1>12, <1>13, <1>14
  DEF run, ManagerClosePool
-----------------------------------------------------------------------------
(* The theorems *)

\* The invariant holds in every reachable state of the process.
LEMMA ServerInvariant == Spec => []Inv
<1>1. ASSUME Inv, Next PROVE Inv'
  BY <1>1, SessionStep, ProcessStep DEF Next
<1>2. ASSUME Inv, UNCHANGED vars PROVE Inv'
  <2>1. TypeOK'
    BY <1>2, Zenon DEF vars, Inv, TypeOK, ManagerTypeOK, managerVars, registryVars, serverVars
  <2>2. Mapped' /\ Room'
    BY <1>2, Zenon DEF vars, managerVars, serverVars, Inv, Mapped, Room
  <2>3. QED
    BY <1>2, <2>1, <2>2, ProcessKeeps, Zenon DEF vars, managerVars, serverVars, Inv, Quiet
<1>3. Inv /\ [Next]_vars => Inv'
  BY <1>1, <1>2
<1>4. QED
  BY <1>3, InvInit, PTL DEF Spec

\* The process's variables keep their types and bounds: the WaitGroup never goes
\* below zero, and no pool has more than MaxSize connections lent and idle.
THEOREM ServerTyped == Spec => []TypeOK
<1>1. Inv => TypeOK
  BY DEF Inv
<1>2. QED
  BY <1>1, ServerInvariant, PTL

\* For any clients and keys, what a session holds came from the pool that ReleaseAt
\* and DiscardAt find in the map.
THEOREM ServerHomePool == Spec => []HomePool
<1>1. ASSUME Inv, NEW c \in Clients, sess[c].holds
      PROVE  sess[c].pool = pools[sess[c].key] /\ sess[c].pool \notin shut
  BY <1>1, BusyFacts, Zenon DEF Local, Busy, SessionState
<1>2. Inv => HomePool
  BY <1>1 DEF HomePool
<1>3. QED
  BY <1>2, ServerInvariant, PTL

\* For any clients and keys, run returns with no session, no connection and no open
\* pool left.
THEOREM ServerNothingLeft == Spec => []NothingLeft
<1>1. ASSUME Inv, main = "stopped"
      PROVE  /\ \A c \in Clients : sess[c].pc \in {"new", "done"}
             /\ shut = 1 .. made
             /\ \A p \in Pools : lent[p] = 0 /\ idle[p] = 0
  <2>1. \A c \in Clients : Busy(sess[c]) = 0 /\ sess[c].pc # "queued"
    BY <1>1, Zenon DEF Inv, Quiet
  <2>2. \A c \in Clients : sess[c].pc \in {"new", "done"}
    BY <2>1 DEF Busy
  <2>3. shut = 1 .. made
    BY <1>1, Zenon DEF Inv, Mapped
  <2>4. \A p \in Pools : lent[p] = 0
    BY <1>1, <2>1, QuietLent, Zenon
  <2>5. ASSUME NEW p \in Pools PROVE idle[p] = 0
    <3>1. made \in Nat /\ p \in Nat /\ p >= 1
      BY <1>1, ManagerAssumption DEF Inv, TypeOK, ManagerTypeOK, Pools
    <3>2. p \in 1 .. made \/ p > made
      BY <3>1
    <3>3. QED
      BY <1>1, <2>3, <3>2 DEF Inv, Room
  <2>6. QED
    BY <2>2, <2>3, <2>4, <2>5, Zenon
<1>2. Inv => NothingLeft
  BY <1>1, Zenon DEF NothingLeft
<1>3. QED
  BY <1>2, ServerInvariant, PTL
=============================================================================
