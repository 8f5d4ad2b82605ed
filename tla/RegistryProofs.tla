--------------------------- MODULE RegistryProofs ---------------------------
(***************************************************************************)
(* Proofs about Registry, for any replicas, lists, thresholds and word     *)
(* width.  The inductive invariant orders positions: the primary's WAL,    *)
(* what a replica has replayed, the row a poller carries, what it records  *)
(* and what Snapshot has read and put out.  From it the registry is shown  *)
(* to implement HealthView, which RoutingProofs starts from.               *)
(***************************************************************************)
EXTENDS Registry, SequenceTheorems, TLAPS

Position(b) == IF b = Primary THEN wal ELSE replay[b]
RoleOf(b) == IF b = Primary THEN "primary" ELSE "replica"

\* No replica is ahead of the primary.
Replicated == \A r \in Replicas : replay[r] <= wal

\* What is recorded, in this and earlier launches, and what is about to be.
Recorded ==
    /\ \A g \in 1 .. gen, b \in Backends :
         /\ states[g][b].lsn <= Position(b)
         /\ states[g][b].role \in {"unknown", RoleOf(b)}
    /\ \A b \in Backends :
         poller[b] = "row" => row[b].role = RoleOf(b) /\ row[b].lsn <= Position(b)

\* Where Snapshot is, and what it has put out.
Snapped ==
    /\ snap.pc # "idle" => snap.i \in 1 .. Len(lists[snap.g])
    /\ snap.lsn <= wal
    /\ \A i \in 1 .. Len(snap.out) :
         /\ snap.out[i].role \in {"unknown", RoleOf(snap.out[i].addr)}
         /\ snap.out[i].lsn <= Position(snap.out[i].addr)
         /\ snap.out[i].lsn + snap.out[i].lagBytes <= wal

\* Every launched list has a backend; a pending reload is within the bound.
Launched ==
    /\ \A g \in 1 .. gen : lists[g] # <<>>
    /\ reload # <<>> => gen <= MaxReloads

Inv == /\ TypeOK /\ Replicated /\ Recorded /\ Snapped /\ Launched
       /\ BreakerConsistent /\ DelayBounded /\ OnlyListedPolled

\* What TypeOK says of sequences and positions, in the form the steps use.
LEMMA Facts ==
    ASSUME TypeOK
    PROVE  /\ gen \in Nat /\ gen >= 1 /\ gen \in 1 .. gen /\ DOMAIN lists = 1 .. gen
           /\ DOMAIN states = 1 .. gen /\ wal \in Nat /\ wal <= MaxWAL /\ MaxWAL \in Nat
           /\ \A g \in 1 .. gen : states[g] \in [Backends -> backendState]
           /\ \A g \in 1 .. gen : lists[g] \in Seq(Backends)
           /\ \A r \in Replicas : replay[r] \in Nat
           /\ \A b \in Backends : Position(b) \in Nat
           /\ snap.g \in 1 .. gen /\ snap.i \in Nat /\ snap.lsn \in Nat
<1>1. /\ gen \in Nat /\ gen >= 1 /\ gen \in 1 .. gen /\ DOMAIN lists = 1 .. gen
      /\ DOMAIN states = 1 .. gen
  BY RegistryAssumption DEF TypeOK, gen
<1>2. wal \in Nat /\ wal <= MaxWAL /\ MaxWAL \in Nat /\ \A r \in Replicas : replay[r] \in Nat
  BY RegistryAssumption DEF TypeOK
<1>3. \A g \in 1 .. gen : states[g] \in [Backends -> backendState]
  BY <1>1 DEF TypeOK
<1>4. \A g \in 1 .. gen : lists[g] \in Seq(Backends)
  BY <1>1 DEF TypeOK
<1>5. \A b \in Backends : Position(b) \in Nat
  BY <1>2 DEF Position, Backends
<1>6. snap.g \in 1 .. gen /\ snap.i \in Nat /\ snap.lsn \in Nat
  BY <1>2 DEF TypeOK
<1>7. QED
  BY <1>1, <1>2, <1>3, <1>4, <1>5, <1>6

\* No backend is ahead of the primary's write position.
LEMMA InWal ==
    ASSUME TypeOK, Replicated, NEW b \in Backends
    PROVE  Position(b) \in Nat /\ Position(b) <= wal
<1>1. Position(b) \in Nat /\ wal \in Nat
  BY Facts, Zenon
<1>2. CASE b = Primary
  BY <1>1, <1>2 DEF Position
<1>3. CASE b # Primary
  BY <1>1, <1>3 DEF Position, Backends, Replicated
<1>4. QED
  BY <1>2, <1>3

\* The backoff is positive and bounded, whatever the shift makes of its base.
LEMMA BackoffBounded ==
    ASSUME NEW n \in Nat \ {0}
    PROVE  Backoff(n) \in 1 .. MaxBackoff
<1> DEFINE shift == IF n - 1 > MaxShift THEN MaxShift ELSE n - 1
           w == Wrap(BaseBackoff * 2^shift)
<1>1. shift \in Nat
  BY RegistryAssumption
<1>2. BaseBackoff * 2^shift \in Int
  BY <1>1, RegistryAssumption
<1>3. ASSUME NEW m \in Int PROVE Wrap(m) \in Int
  <2>1. 2^Width \in Int /\ 2^Width > 0 /\ 2^(Width - 1) \in Int
    BY RegistryAssumption
  <2>2. m % 2^Width \in Int
    BY <2>1
  <2>3. QED
    BY <2>1, <2>2 DEF Wrap
<1> HIDE DEF shift
<1>4. w \in Int
  BY <1>2, <1>3
<1> HIDE DEF w
<1>5. MaxBackoff \in Nat \ {0}
  BY RegistryAssumption
<1>6. Backoff(n) = IF w <= 0 \/ w > MaxBackoff THEN MaxBackoff ELSE w
  BY DEF Backoff, w, shift
<1>7. QED
  BY <1>4, <1>5, <1>6

\* A sequence of functions, changed at one argument of one of them.
Put(s, n, b, v) == [s EXCEPT ![n][b] = v]

\* Overwriting one record of one launch leaves a sequence of launches.
LEMMA SeqPut ==
    ASSUME NEW B, NEW V, NEW s \in Seq([B -> V]), NEW n \in 1 .. Len(s), NEW b \in B,
           NEW v \in V
    PROVE  /\ Put(s, n, b, v) \in Seq([B -> V]) /\ Len(Put(s, n, b, v)) = Len(s)
           /\ Put(s, n, b, v)[n][b] = v
           /\ \A g \in 1 .. Len(s), c \in B :
                g # n \/ c # b => Put(s, n, b, v)[g][c] = s[g][c]
<1> DEFINE F == [B -> V]
           h == [s[n] EXCEPT ![b] = v]
           t == [s EXCEPT ![n] = h]
<1>1. s[n] \in F
  OBVIOUS
<1>2. h \in F /\ h[b] = v /\ \A c \in B : c # b => h[c] = s[n][c]
  BY <1>1
<1> HIDE DEF F, h
<1>3. t \in Seq(F) /\ Len(t) = Len(s) /\ t[n] = h /\ \A g \in 1 .. Len(s) : g # n => t[g] = s[g]
  <2>1. s \in Seq(F)
    BY DEF F
  <2>2. QED
    BY <1>2, <2>1, ExceptSeq
<1>4. t = Put(s, n, b, v)
  BY DEF h, Put
<1> HIDE DEF t
<1>5. QED
  BY <1>2, <1>3, <1>4 DEF F

\* One entry of the current launch is overwritten.
LEMMA Overwritten ==
    ASSUME TypeOK, NEW b \in Backends, NEW st \in backendState,
           states' = [states EXCEPT ![gen][b] = st]
    PROVE  /\ states' \in Seq([Backends -> backendState]) /\ Len(states') = Len(states)
           /\ states'[gen][b] = st
           /\ \A g \in 1 .. gen, c \in Backends :
                g # gen \/ c # b => states'[g][c] = states[g][c]
<1>1. gen \in 1 .. Len(states) /\ gen = Len(states) /\ states \in Seq([Backends -> backendState])
  BY Facts DEF TypeOK
<1>2. states' = Put(states, gen, b, st)
  BY DEF Put
<1>3. QED
  BY <1>1, <1>2, SeqPut

\* The invariant holds at Start, with every backend unpolled.
LEMMA InvInit == Init => Inv
<1> SUFFICES ASSUME Init PROVE Inv
  OBVIOUS
<1>1. FirstList \in Seq(Backends) /\ FirstList # <<>>
  BY RegistryAssumption
<1>2. lists \in Seq(Seq(Backends)) /\ gen = 1 /\ lists[gen] = FirstList
  BY <1>1 DEF Init, gen
<1>3. Fresh \in backendState /\ NoSnap.g = 1 /\ NoSnap.out = <<>> /\ NoSnap.lsn = 0
      /\ NoSnap.pc = "idle"
  BY RegistryAssumption DEF Fresh, backendState, NoSnap
<1>4. states \in Seq([Backends -> backendState]) /\ Len(states) = gen
      /\ states[1] = [b \in Backends |-> Fresh]
  BY <1>2, <1>3 DEF Init
<1>5. snap \in [pc : {"idle", "primary", "out"}, g : 1 .. gen, i : Nat, have : BOOLEAN,
                lsn : 0 .. MaxWAL, out : Seq(Status)]
  BY <1>2, RegistryAssumption DEF Init, NoSnap
<1>6. poller \in [Backends -> {"sleep", "dial", "query", "row", "done"}]
      /\ \A b \in Backends : poller[b] # "row" /\ (poller[b] # "done" => Listed(b))
  BY <1>2 DEF Init, Pollers, Listed
<1>7. TypeOK
  <2>1. /\ mode \in [Backends -> {"up", "down", "hung"}]
        /\ wal \in 0 .. MaxWAL /\ replay \in [Replicas -> 0 .. MaxWAL]
        /\ gen \in 1 .. MaxReloads + 1
    BY <1>2, RegistryAssumption DEF Init
  <2>2. /\ conn \in [Backends -> {"nil", "ok", "broken"}]
        /\ row \in [Backends -> [role : {"unknown", "primary", "replica"}, lsn : 0 .. MaxWAL]]
    BY RegistryAssumption DEF Init, NoRow
  <2>3. delay \in [Backends -> 0 .. IF Interval > MaxBackoff THEN Interval ELSE MaxBackoff]
    BY RegistryAssumption DEF Init
  <2>4. cancelled \in BOOLEAN /\ stopping \in BOOLEAN /\ reload \in ReloadLists \cup {<<>>}
    BY Zenon DEF Init
  <2>5. QED
    BY <1>2, <1>4, <1>5, <1>6, <2>1, <2>2, <2>3, <2>4 DEF TypeOK
<1>8. Replicated /\ Recorded
  BY <1>2, <1>4, <1>6, RegistryAssumption
  DEF Init, Replicated, Recorded, Position, Backends, Fresh
<1>9. Snapped
  BY <1>3, RegistryAssumption DEF Init, Snapped
<1>10. BreakerConsistent /\ DelayBounded /\ OnlyListedPolled
  BY <1>2, <1>4, <1>6 DEF BreakerConsistent, DelayBounded, OnlyListedPolled, Fresh
<1>11. Launched
  BY <1>1, <1>2 DEF Init, Launched
<1>12. QED
  BY <1>7, <1>8, <1>9, <1>10, <1>11 DEF Inv
-----------------------------------------------------------------------------
(* The steps, by what they change *)

\* A step of the servers keeps the invariant: positions only grow.
LEMMA ServerStep ==
    ASSUME Inv, WalGrows \/ (\E r \in Replicas : Replays(r)) \/ (\E b \in Backends : ServerTurns(b))
    PROVE  Inv'
<1>0. TypeOK
  BY DEF Inv
<1>1. /\ wal' \in 0 .. MaxWAL /\ replay' \in [Replicas -> 0 .. MaxWAL]
      /\ wal <= wal' /\ (\A r \in Replicas : replay[r] <= replay'[r] /\ replay'[r] <= wal')
  <2>1. CASE WalGrows
    <3>1. wal < MaxWAL /\ wal' = wal + 1 /\ replay' = replay
      BY <2>1, Zenon DEF WalGrows
    <3>2. wal \in 0 .. MaxWAL /\ replay \in [Replicas -> 0 .. MaxWAL]
      BY <1>0, Zenon DEF TypeOK
    <3>3. MaxWAL \in Nat /\ \A r \in Replicas : replay[r] <= wal
      BY RegistryAssumption, Zenon DEF Inv, Replicated
    <3>4. QED
      BY <3>1, <3>2, <3>3
  <2>2. ASSUME NEW r \in Replicas, Replays(r)
        PROVE  /\ wal' \in 0 .. MaxWAL /\ replay' \in [Replicas -> 0 .. MaxWAL]
               /\ wal <= wal' /\ (\A t \in Replicas : replay[t] <= replay'[t] /\ replay'[t] <= wal')
    <3>1. PICK p \in replay[r] + 1 .. wal : replay' = [replay EXCEPT ![r] = p]
      BY <2>2, Zenon DEF Replays
    <3>2. wal' = wal /\ wal \in 0 .. MaxWAL /\ replay \in [Replicas -> 0 .. MaxWAL] /\ MaxWAL \in Nat
      BY <1>0, <2>2, RegistryAssumption DEF Replays, TypeOK
    <3>3. p \in 0 .. MaxWAL /\ replay[r] <= p /\ p <= wal
      BY <3>1, <3>2
    <3>4. QED
      BY <3>1, <3>2, <3>3 DEF Inv, Replicated
  <2>3. ASSUME NEW b \in Backends, ServerTurns(b)
        PROVE  /\ wal' \in 0 .. MaxWAL /\ replay' \in [Replicas -> 0 .. MaxWAL]
               /\ wal <= wal' /\ (\A t \in Replicas : replay[t] <= replay'[t] /\ replay'[t] <= wal')
    <3>1. wal' = wal /\ replay' = replay
      BY <2>3, Zenon DEF ServerTurns
    <3>2. wal \in 0 .. MaxWAL /\ replay \in [Replicas -> 0 .. MaxWAL]
      BY <1>0, Zenon DEF TypeOK
    <3>3. MaxWAL \in Nat /\ \A t \in Replicas : replay[t] <= wal
      BY RegistryAssumption, Zenon DEF Inv, Replicated
    <3>4. QED
      BY <3>1, <3>2, <3>3
  <2>4. QED
    BY <2>1, <2>2, <2>3
<1>2. UNCHANGED <<lists, states, poller, row, delay, cancelled, stopping, reload, snap>>
  BY DEF WalGrows, Replays, ServerTurns, polls, control
<1>3. mode' \in [Backends -> {"up", "down", "hung"}] /\ conn' \in [Backends -> {"nil", "ok", "broken"}]
  <2>1. mode \in [Backends -> {"up", "down", "hung"}] /\ conn \in [Backends -> {"nil", "ok", "broken"}]
    BY <1>0 DEF TypeOK
  <2>2. CASE WalGrows \/ (\E r \in Replicas : Replays(r))
    BY <2>1, <2>2 DEF WalGrows, Replays, polls
  <2>3. ASSUME NEW b \in Backends, ServerTurns(b)
        PROVE  /\ mode' \in [Backends -> {"up", "down", "hung"}]
               /\ conn' \in [Backends -> {"nil", "ok", "broken"}]
    <3>1. PICK m \in {"up", "down", "hung"} :
            /\ mode' = [mode EXCEPT ![b] = m]
            /\ conn' = IF m = "down" /\ conn[b] = "ok" THEN [conn EXCEPT ![b] = "broken"] ELSE conn
      BY <2>3, Zenon DEF ServerTurns
    <3>2. QED
      BY <2>1, <3>1
  <2>4. QED
    BY <2>2, <2>3
<1>4. gen' = gen /\ \A b \in Backends : Listed(b)' <=> Listed(b)
  BY <1>2 DEF gen, Listed
<1>5. TypeOK'
  BY <1>0, <1>1, <1>2, <1>3, <1>4, Zenon DEF TypeOK
<1>6. \A b \in Backends : Position(b) <= Position(b)'
  BY <1>1 DEF Position, Backends
<1>7. Replicated'
  BY <1>1 DEF Replicated
<1>8. Recorded'
  <2>1. \A b \in Backends : Position(b) \in Nat /\ Position(b)' \in Nat
    <3>1. \A b \in Backends : Position(b)' \in Nat
      BY <1>1, RegistryAssumption DEF Position, Backends
    <3>2. QED
      BY <1>0, <3>1, Facts
  <2>2. \A g \in 1 .. gen, b \in Backends : states[g][b].lsn \in Nat
    BY <1>0, Facts, RegistryAssumption DEF backendState
  <2>3. \A b \in Backends : row[b].lsn \in Nat
    BY <1>0, RegistryAssumption DEF TypeOK
  <2>4. QED
    BY <1>2, <1>4, <1>6, <2>1, <2>2, <2>3 DEF Inv, Recorded
<1>9. Snapped'
  <2>1. /\ snap.lsn <= wal' /\ (snap.pc # "idle" => snap.i \in 1 .. Len(lists[snap.g]))
    BY <1>0, <1>1, Facts, RegistryAssumption DEF Inv, Snapped
  <2>2. ASSUME NEW i \in 1 .. Len(snap.out)
        PROVE  /\ snap.out[i].role \in {"unknown", RoleOf(snap.out[i].addr)}
               /\ snap.out[i].lsn <= Position(snap.out[i].addr)'
               /\ snap.out[i].lsn + snap.out[i].lagBytes <= wal'
    <3> DEFINE e == snap.out[i]
    <3>1. e \in Status
      BY <1>0 DEF TypeOK
    <3>2. e.addr \in Backends /\ e.lsn \in Nat /\ e.lagBytes \in Nat
      BY <3>1, RegistryAssumption DEF Status
    <3>3. /\ e.role \in {"unknown", RoleOf(e.addr)} /\ e.lsn <= Position(e.addr)
          /\ e.lsn + e.lagBytes <= wal
      BY DEF Inv, Snapped
    <3>4. UNCHANGED e
      BY <1>2
    <3> HIDE DEF e
    <3>5. Position(e.addr)' = (IF e.addr = Primary THEN wal' ELSE replay'[e.addr])
      BY <3>4 DEF Position
    <3>6. e.lsn <= Position(e.addr)' /\ e.lsn + e.lagBytes <= wal'
      <4>1. wal \in Nat /\ wal' \in Nat /\ Position(e.addr) \in Nat
        <5>1. wal \in Nat /\ MaxWAL \in Nat /\ Position(e.addr) \in Nat /\ wal' \in 0 .. MaxWAL
          BY <1>0, <1>1, <3>2, Facts, Zenon
        <5>2. QED
          BY <5>1
      <4>2. Position(e.addr) <= Position(e.addr)' /\ Position(e.addr)' \in Nat
        BY <1>1, <3>2, <3>5, RegistryAssumption, SMTT(30) DEF Position, Backends
      <4>3. QED
        BY <1>1, <3>2, <3>3, <4>1, <4>2
    <3>7. QED
      BY <3>3, <3>6 DEF e
  <2>3. QED
    BY <1>2, <2>1, <2>2 DEF Snapped, RoleOf, Position
<1>10. BreakerConsistent' /\ DelayBounded' /\ OnlyListedPolled' /\ Launched'
  BY <1>2, <1>4 DEF Inv, BreakerConsistent, DelayBounded, OnlyListedPolled, Launched
<1>11. QED
  BY <1>5, <1>7, <1>8, <1>9, <1>10 DEF Inv

\* A poller or the control changes; servers, lists, records and Snapshot do not.
LEMMA QuietKeeps ==
    ASSUME Inv, UNCHANGED <<mode, wal, replay, lists, states, snap>>,
           poller' \in [Backends -> {"sleep", "dial", "query", "row", "done"}],
           conn' \in [Backends -> {"nil", "ok", "broken"}],
           row' \in [Backends -> [role : {"unknown", "primary", "replica"}, lsn : 0 .. MaxWAL]],
           UNCHANGED delay, cancelled' \in BOOLEAN, stopping' \in BOOLEAN,
           reload' \in ReloadLists \cup {<<>>}, reload' # <<>> => gen <= MaxReloads,
           \A b \in Backends :
             /\ poller'[b] = "row" => row'[b].role = RoleOf(b) /\ row'[b].lsn <= Position(b)
             /\ poller'[b] = "sleep" => poller[b] = "sleep"
             /\ poller'[b] # "done" => poller[b] # "done"
    PROVE  Inv'
<1>1. gen' = gen /\ \A b \in Backends : (Listed(b)' <=> Listed(b)) /\ Position(b)' = Position(b)
  BY DEF gen, Listed, Position
<1>2. TypeOK'
  BY <1>1 DEF Inv, TypeOK
<1>3. Replicated' /\ Recorded'
  BY <1>1 DEF Inv, Replicated, Recorded
<1>4. Snapped'
  BY DEF Inv, Snapped, Position
<1>5. BreakerConsistent' /\ DelayBounded' /\ OnlyListedPolled' /\ Launched'
  BY <1>1 DEF Inv, BreakerConsistent, DelayBounded, OnlyListedPolled, Launched
<1>6. QED
  BY <1>2, <1>3, <1>4, <1>5 DEF Inv

\* A poll that records nothing keeps the invariant; an answer is no newer than
\* the server it comes from.
LEMMA PollStep ==
    ASSUME Inv, NEW b \in Backends, Begin(b) \/ Stop(b) \/ DialOK(b) \/ Answer(b)
    PROVE  Inv'
<1>0. /\ poller \in [Backends -> {"sleep", "dial", "query", "row", "done"}]
      /\ conn \in [Backends -> {"nil", "ok", "broken"}]
      /\ row \in [Backends -> [role : {"unknown", "primary", "replica"}, lsn : 0 .. MaxWAL]]
      /\ cancelled \in BOOLEAN /\ stopping \in BOOLEAN /\ reload \in ReloadLists \cup {<<>>}
      /\ wal \in 0 .. MaxWAL /\ replay \in [Replicas -> 0 .. MaxWAL]
      /\ reload # <<>> => gen <= MaxReloads
  BY Zenon DEF Inv, TypeOK, Launched
<1>1. UNCHANGED <<mode, wal, replay, lists, states, snap, delay, cancelled, stopping, reload>>
  BY Zenon DEF Begin, Stop, DialOK, Answer, server, control
<1>2. \A c \in Backends :
        poller[c] = "row" => row[c].role = RoleOf(c) /\ row[c].lsn <= Position(c)
  BY Zenon DEF Inv, Recorded
<1>3. CASE Begin(b) \/ Stop(b) \/ DialOK(b)
  <2>1. /\ poller' \in [Backends -> {"sleep", "dial", "query", "row", "done"}]
        /\ conn' \in [Backends -> {"nil", "ok", "broken"}] /\ row' = row
        /\ \A c \in Backends : /\ poller'[c] = "row" => poller[c] = "row"
                               /\ poller'[c] = "sleep" => poller[c] = "sleep"
                               /\ poller'[c] # "done" => poller[c] # "done"
    BY <1>0, <1>3, Zenon DEF Begin, Stop, DialOK
  <2>2. QED
    BY <1>0, <1>1, <1>2, <2>1, QuietKeeps
<1>4. CASE Answer(b)
  <2> DEFINE a == IF b = Primary THEN [role |-> "primary", lsn |-> wal]
                  ELSE [role |-> "replica", lsn |-> replay[b]]
  <2>1. /\ a \in [role : {"unknown", "primary", "replica"}, lsn : 0 .. MaxWAL]
        /\ a.role = RoleOf(b) /\ a.lsn = Position(b)
    BY <1>0 DEF RoleOf, Position, Backends
  <2>2. poller' = [poller EXCEPT ![b] = "row"] /\ row' = [row EXCEPT ![b] = a] /\ conn' = conn
        /\ poller[b] = "query"
    BY <1>4, Zenon DEF Answer
  <2> HIDE DEF a
  <2>3. Position(b) \in Nat
    BY Facts, Zenon DEF Inv
  <2>4. /\ poller' \in [Backends -> {"sleep", "dial", "query", "row", "done"}]
        /\ row' \in [Backends -> [role : {"unknown", "primary", "replica"}, lsn : 0 .. MaxWAL]]
    BY <1>0, <2>1, <2>2
  <2>5. ASSUME NEW c \in Backends
        PROVE  /\ poller'[c] = "row" => row'[c].role = RoleOf(c) /\ row'[c].lsn <= Position(c)
               /\ poller'[c] = "sleep" => poller[c] = "sleep"
               /\ poller'[c] # "done" => poller[c] # "done"
    <3>1. CASE c = b
      BY <1>0, <2>1, <2>2, <2>3, <3>1
    <3>2. CASE c # b
      BY <1>0, <1>2, <2>2, <3>2
    <3>3. QED
      BY <3>1, <3>2, Zenon
  <2>6. QED
    BY <1>0, <1>1, <2>2, <2>4, <2>5, QuietKeeps
<1>5. QED
  BY <1>3, <1>4

\* A poll of b is recorded as st, with the delay d before the next.
LEMMA RecordKeeps ==
    ASSUME Inv, NEW b \in Backends, NEW st \in backendState, NEW d,
           d \in 0 .. IF Interval > MaxBackoff THEN Interval ELSE MaxBackoff,
           poller[b] # "done",
           states' = [states EXCEPT ![gen][b] = st],
           poller' = [poller EXCEPT ![b] = "sleep"], delay' = [delay EXCEPT ![b] = d],
           conn' \in [Backends -> {"nil", "ok", "broken"}],
           row' \in [Backends -> [role : {"unknown", "primary", "replica"}, lsn : 0 .. MaxWAL]],
           \A c \in Backends \ {b} : row'[c] = row[c],
           UNCHANGED <<server, control, snap>>,
           st.lsn <= Position(b), st.role \in {"unknown", RoleOf(b)},
           st.healthy <=> st.role # "unknown" /\ st.failures < FailureThreshold,
           st.failures > 0 => d \in 1 .. MaxBackoff
    PROVE  Inv'
<1>0. TypeOK
  BY DEF Inv
<1>1. UNCHANGED <<mode, wal, replay, lists, cancelled, stopping, reload, snap>>
  BY DEF server, control
<1>2. gen' = gen /\ \A c \in Backends : (Listed(c)' <=> Listed(c)) /\ Position(c)' = Position(c)
  BY <1>1 DEF gen, Listed, Position
<1>3. /\ states' \in Seq([Backends -> backendState]) /\ Len(states') = gen
      /\ states'[gen][b] = st
      /\ \A g \in 1 .. gen, c \in Backends : g # gen \/ c # b => states'[g][c] = states[g][c]
  <2>1. Len(states) = gen
    BY <1>0, Zenon DEF TypeOK
  <2>2. QED
    BY <1>0, <2>1, Overwritten, Zenon
<1>4. /\ poller \in [Backends -> {"sleep", "dial", "query", "row", "done"}]
      /\ delay \in [Backends -> 0 .. IF Interval > MaxBackoff THEN Interval ELSE MaxBackoff]
  BY <1>0, Zenon DEF TypeOK
<1>5. /\ poller' \in [Backends -> {"sleep", "dial", "query", "row", "done"}]
      /\ delay' \in [Backends -> 0 .. IF Interval > MaxBackoff THEN Interval ELSE MaxBackoff]
      /\ poller'[b] = "sleep" /\ delay'[b] = d
      /\ \A c \in Backends \ {b} : poller'[c] = poller[c] /\ delay'[c] = delay[c]
  BY <1>4
<1>6. TypeOK'
  BY <1>0, <1>1, <1>2, <1>3, <1>5, SMTT(30) DEF TypeOK
<1>7. Replicated'
  BY <1>1 DEF Inv, Replicated
<1>8. Recorded'
  <2>1. ASSUME NEW g \in 1 .. gen, NEW c \in Backends
        PROVE  states'[g][c].lsn <= Position(c) /\ states'[g][c].role \in {"unknown", RoleOf(c)}
    <3>1. CASE g = gen /\ c = b
      BY <1>3, <3>1
    <3>2. CASE g # gen \/ c # b
      BY <1>3, <3>2 DEF Inv, Recorded
    <3>3. QED
      BY <3>1, <3>2
  <2>2. ASSUME NEW c \in Backends, poller'[c] = "row"
        PROVE  row'[c].role = RoleOf(c) /\ row'[c].lsn <= Position(c)
    <3>1. c # b
      BY <1>5, <2>2
    <3>2. QED
      BY <1>5, <2>2, <3>1 DEF Inv, Recorded
  <2>3. QED
    BY <1>2, <2>1, <2>2 DEF Recorded, RoleOf
<1>9. Snapped'
  BY <1>1, Zenon DEF Inv, Snapped, Position
<1>10. BreakerConsistent'
  <2>1. ASSUME NEW g \in 1 .. gen, NEW c \in Backends
        PROVE  states'[g][c].healthy <=>
                 states'[g][c].role # "unknown" /\ states'[g][c].failures < FailureThreshold
    <3>1. CASE g = gen /\ c = b
      BY <1>3, <3>1
    <3>2. CASE g # gen \/ c # b
      BY <1>3, <3>2 DEF Inv, BreakerConsistent
    <3>3. QED
      BY <3>1, <3>2
  <2>2. QED
    BY <1>2, <2>1 DEF BreakerConsistent
<1>11. DelayBounded' /\ OnlyListedPolled'
  <2>1. gen \in 1 .. gen
    BY <1>0, Facts
  <2>2. ASSUME NEW c \in Backends
        PROVE  /\ poller'[c] = "sleep" /\ states'[gen][c].failures > 0 => delay'[c] \in 1 .. MaxBackoff
               /\ poller'[c] # "done" => Listed(c)
    <3>1. CASE c = b
      BY <1>3, <1>5, <3>1, Zenon DEF Inv, OnlyListedPolled
    <3>2. CASE c # b
      BY <1>3, <1>5, <2>1, <3>2 DEF Inv, DelayBounded, OnlyListedPolled
    <3>3. QED
      BY <3>1, <3>2
  <2>3. QED
    BY <1>2, <2>2 DEF DelayBounded, OnlyListedPolled
<1>12. Launched'
  BY <1>1, <1>2 DEF Inv, Launched
<1>13. QED
  BY <1>6, <1>7, <1>8, <1>9, <1>10, <1>11, <1>12 DEF Inv

\* One more failed poll counts, keeps role and position, and may only trip the
\* breaker.
LEMMA FailedType ==
    ASSUME NEW old \in backendState
    PROVE  /\ Failed(old) \in backendState /\ Failed(old).role = old.role /\ Failed(old).lsn = old.lsn
           /\ Failed(old).failures = Count(old.failures)
           /\ Count(old.failures) \in 1 .. MaxFailures /\ old.failures <= Count(old.failures)
           /\ (Failed(old).healthy <=> old.healthy /\ Count(old.failures) < FailureThreshold)
           /\ Failed(old).healthy \in {FALSE, old.healthy}
<1> DEFINE n == Count(old.failures)
           h == old.healthy /\ n < FailureThreshold
           st == Failed(old)
<1>1. st = [old EXCEPT !.failures = n, !.healthy = h] /\ h \in BOOLEAN
  BY DEF Failed
<1>2. /\ old = [role |-> old.role, healthy |-> old.healthy, lsn |-> old.lsn, failures |-> old.failures]
      /\ old.role \in {"unknown", "primary", "replica"} /\ old.lsn \in 0 .. MaxWAL
      /\ old.failures \in 0 .. MaxFailures /\ old.healthy \in BOOLEAN
  BY DEF backendState
<1>3. n \in 1 .. MaxFailures /\ n \in 0 .. MaxFailures /\ old.failures <= n
  <2> DEFINE k == old.failures
  <2>1. n = IF k < MaxFailures THEN k + 1 ELSE k
    BY Zenon DEF Count
  <2>2. k \in 0 .. MaxFailures
    BY <1>2, Zenon
  <2>3. MaxFailures \in Nat /\ FailureThreshold \in Nat \ {0} /\ FailureThreshold <= MaxFailures
    BY RegistryAssumption, Zenon
  <2> HIDE DEF k, n
  <2>4. n \in 1 .. MaxFailures /\ n \in 0 .. MaxFailures /\ k <= n
    BY <2>1, <2>2, <2>3
  <2>5. QED
    BY <2>4, Zenon DEF k
<1>4. h \in {FALSE, old.healthy}
  BY <1>2, Zenon
<1> HIDE DEF st, n, h
<1>5. st = [role |-> old.role, healthy |-> h, lsn |-> old.lsn, failures |-> n]
  BY <1>1, <1>2, Zenon
<1>6. /\ st.role = old.role /\ st.lsn = old.lsn /\ st.failures = n
      /\ st.healthy = h /\ st \in backendState
  BY <1>1, <1>2, <1>3, <1>5 DEF backendState
<1>7. st.healthy <=> old.healthy /\ n < FailureThreshold
  BY <1>6, Zenon DEF h
<1>8. QED
  BY <1>3, <1>4, <1>6, <1>7, Zenon DEF st, n

\* Recording a poll keeps the invariant: a success clears the count of failures,
\* a failure counts and waits for the backoff.
LEMMA RecordStep ==
    ASSUME Inv, NEW b \in Backends, recordSuccess(b) \/ recordFailure(b)
    PROVE  Inv'
<1>0. TypeOK
  BY DEF Inv
<1>1. /\ gen \in 1 .. gen /\ Position(b) \in Nat /\ states[gen] \in [Backends -> backendState]
      /\ states[gen][b] \in backendState
  BY <1>0, Facts
<1>2. /\ poller \in [Backends -> {"sleep", "dial", "query", "row", "done"}]
      /\ conn \in [Backends -> {"nil", "ok", "broken"}]
      /\ row \in [Backends -> [role : {"unknown", "primary", "replica"}, lsn : 0 .. MaxWAL]]
      /\ MaxWAL \in Nat
  BY <1>0, RegistryAssumption, Zenon DEF TypeOK
<1>3. CASE recordSuccess(b)
  <2> DEFINE st == [role |-> row[b].role, healthy |-> TRUE, lsn |-> row[b].lsn, failures |-> 0]
  <2>1. poller[b] = "row" /\ row[b].role = RoleOf(b) /\ row[b].lsn <= Position(b)
    BY <1>3 DEF recordSuccess, Inv, Recorded
  <2>2. /\ st \in backendState /\ st.lsn <= Position(b) /\ st.role = RoleOf(b)
        /\ st.failures = 0 /\ st.healthy
    BY <1>2, <2>1, RegistryAssumption DEF backendState
  <2>3. /\ states' = [states EXCEPT ![gen][b] = st]
        /\ poller' = [poller EXCEPT ![b] = "sleep"] /\ delay' = [delay EXCEPT ![b] = Interval]
        /\ row' = [row EXCEPT ![b] = NoRow] /\ conn' = conn
        /\ UNCHANGED <<server, control, snap>>
    BY <1>3 DEF recordSuccess
  <2> HIDE DEF st
  <2>4. Interval \in 0 .. IF Interval > MaxBackoff THEN Interval ELSE MaxBackoff
    BY RegistryAssumption
  <2>5. /\ row' \in [Backends -> [role : {"unknown", "primary", "replica"}, lsn : 0 .. MaxWAL]]
        /\ \A c \in Backends \ {b} : row'[c] = row[c]
    BY <1>2, <2>3 DEF NoRow
  <2>6. st.healthy <=> st.role # "unknown" /\ st.failures < FailureThreshold
    BY <2>2, RegistryAssumption DEF RoleOf
  <2>7. st.failures > 0 => Interval \in 1 .. MaxBackoff
    BY <2>2
  <2>8. poller[b] # "done" /\ st.role \in {"unknown", RoleOf(b)}
    BY <2>1, <2>2
  <2>9. QED
    BY <1>2, <2>2, <2>3, <2>4, <2>5, <2>6, <2>7, <2>8, RecordKeeps, Zenon
<1>4. CASE recordFailure(b)
  <2> DEFINE old == states[gen][b]
             n == Count(old.failures)
             d == Backoff(n)
             st == Failed(old)
  <2>1. /\ old.role \in {"unknown", RoleOf(b)} /\ old.lsn <= Position(b)
        /\ (old.healthy <=> old.role # "unknown" /\ old.failures < FailureThreshold)
    BY <1>1 DEF Inv, Recorded, BreakerConsistent
  <2>2. old.failures \in 0 .. MaxFailures /\ old.healthy \in BOOLEAN
    BY <1>1 DEF backendState
  <2>3. n \in 1 .. MaxFailures /\ old.failures <= n
    BY <2>2, RegistryAssumption DEF Count
  <2>4. /\ st.role = old.role /\ st.lsn = old.lsn /\ st.failures = n
        /\ (st.healthy <=> old.healthy /\ n < FailureThreshold) /\ st \in backendState
    BY <1>1, FailedType, Zenon
  <2>5. /\ states' = [states EXCEPT ![gen][b] = st]
        /\ poller' = [poller EXCEPT ![b] = "sleep"] /\ delay' = [delay EXCEPT ![b] = d]
        /\ row' = row /\ conn' = [conn EXCEPT ![b] = "nil"]
        /\ UNCHANGED <<server, control, snap>> /\ poller[b] \in {"dial", "query"}
    <3>1. states' = [states EXCEPT ![gen][b] = st]
      <4>1. states' = [states EXCEPT ![gen][b] = Failed(@)]
        BY <1>4 DEF recordFailure
      <4>2. gen \in DOMAIN states
        BY <1>0, Facts
      <4>3. QED
        BY <4>1, <4>2, <1>1
    <3>2. QED
      BY <1>4, <3>1 DEF recordFailure
  <2>6. d \in 1 .. MaxBackoff
    <3> HIDE DEF n
    <3>1. n \in Nat \ {0}
      BY <2>3, RegistryAssumption
    <3>2. QED
      BY <3>1, BackoffBounded
  <2> HIDE DEF st, d, n, old
  <2>7. d \in 0 .. IF Interval > MaxBackoff THEN Interval ELSE MaxBackoff
    BY <2>6, RegistryAssumption
  <2>8. st.healthy <=> st.role # "unknown" /\ st.failures < FailureThreshold
    <3>1. n < FailureThreshold => old.failures < FailureThreshold
      BY <2>2, <2>3, RegistryAssumption
    <3>2. QED
      BY <2>1, <2>4, <3>1, Zenon
  <2>9. /\ conn' \in [Backends -> {"nil", "ok", "broken"}] /\ row' = row
        /\ poller[b] # "done" /\ st.lsn <= Position(b) /\ st.role \in {"unknown", RoleOf(b)}
    BY <1>2, <2>1, <2>4, <2>5
  <2>10. QED
    BY <1>2, <2>4, <2>5, <2>6, <2>7, <2>8, <2>9, RecordKeeps, Zenon
<1>5. QED
  BY <1>3, <1>4

\* Reconfigure and shutdown keep the invariant: a launch starts every backend
\* over and polls exactly the listed ones.
LEMMA ControlStep ==
    ASSUME Inv, ReloadBegin \/ ReloadLaunch \/ Shutdown
    PROVE  Inv'
<1>0. TypeOK
  BY DEF Inv
<1>1. CASE ReloadBegin
  <2>1. /\ UNCHANGED <<mode, wal, replay, lists, states, snap, poller, conn, row, delay, stopping>>
        /\ reload' \in ReloadLists /\ cancelled' = TRUE /\ gen <= MaxReloads
    BY <1>1 DEF ReloadBegin, server, polls
  <2>2. QED
    BY <1>0, <2>1, QuietKeeps, Zenon DEF Inv, TypeOK, Recorded
<1>2. CASE Shutdown
  <2>1. /\ UNCHANGED <<mode, wal, replay, lists, states, snap, poller, conn, row, delay, reload>>
        /\ stopping' = TRUE /\ cancelled' = TRUE
    BY <1>2 DEF Shutdown, server, polls
  <2>2. reload # <<>> => gen <= MaxReloads
    BY DEF Inv, Launched
  <2>3. QED
    BY <1>0, <2>1, <2>2, QuietKeeps, Zenon DEF Inv, TypeOK, Recorded
<1>3. CASE ReloadLaunch
  <2> DEFINE new == [b \in Backends |-> Fresh]
  <2>1. /\ UNCHANGED <<mode, wal, replay, snap, conn, row, delay, stopping>>
        /\ reload # <<>> /\ lists' = Append(lists, reload) /\ states' = Append(states, new)
        /\ poller' = Pollers(reload) /\ cancelled' = stopping /\ reload' = <<>>
    BY <1>3 DEF ReloadLaunch, server
  <2>2. /\ reload \in Seq(Backends) /\ gen <= MaxReloads
        /\ lists \in Seq(Seq(Backends)) /\ states \in Seq([Backends -> backendState])
        /\ Len(states) = gen /\ Len(lists) = gen /\ gen \in Nat /\ gen >= 1
    BY <1>0, <2>1, Facts, RegistryAssumption, Zenon DEF TypeOK, Inv, Launched, gen
  <2>3. Fresh \in backendState /\ Fresh.lsn = 0 /\ Fresh.role = "unknown" /\ Fresh.failures = 0
        /\ Fresh.healthy = FALSE
    BY RegistryAssumption DEF Fresh, backendState
  <2>4. /\ new \in [Backends -> backendState] /\ \A b \in Backends : new[b] = Fresh
    BY <2>3
  <2> HIDE DEF new
  <2>5. /\ lists' \in Seq(Seq(Backends)) /\ gen' = gen + 1 /\ lists'[gen + 1] = reload
        /\ \A g \in 1 .. gen : lists'[g] = lists[g]
    BY <2>1, <2>2 DEF gen
  <2>6. /\ states' \in Seq([Backends -> backendState]) /\ Len(states') = gen + 1
        /\ states'[gen + 1] = new /\ \A g \in 1 .. gen : states'[g] = states[g]
    BY <2>1, <2>2, <2>4
  <2>7. /\ poller' \in [Backends -> {"sleep", "dial", "query", "row", "done"}]
        /\ \A b \in Backends : poller'[b] # "row" /\ (poller'[b] # "done" => Listed(b)')
    <3>1. lists'[gen'] = reload
      BY <2>5
    <3>2. poller' = [b \in Backends |-> IF \E i \in DOMAIN reload : reload[i] = b THEN "sleep" ELSE "done"]
      BY <2>1 DEF Pollers
    <3>3. \A b \in Backends : Listed(b)' <=> \E i \in DOMAIN reload : reload[i] = b
      BY <3>1 DEF Listed
    <3>4. QED
      BY <3>2, <3>3
  <2>8. snap' \in [pc : {"idle", "primary", "out"}, g : 1 .. gen + 1, i : Nat, have : BOOLEAN,
                   lsn : 0 .. MaxWAL, out : Seq(Status)]
    BY <1>0, <2>1, <2>2 DEF TypeOK
  <2>9. TypeOK'
    <3>1. gen' \in 1 .. MaxReloads + 1
      BY <2>2, <2>5, RegistryAssumption
    <3>2. UNCHANGED <<mode, wal, replay, conn, row, delay>> /\ cancelled' \in BOOLEAN
          /\ stopping' \in BOOLEAN /\ reload' = <<>>
      BY <1>0, <2>1 DEF TypeOK
    <3>3. QED
      BY <1>0, <2>5, <2>6, <2>7, <2>8, <3>1, <3>2, Zenon DEF TypeOK
  <2>10. \A b \in Backends : Position(b)' = Position(b) /\ Position(b) \in Nat
    BY <1>0, <2>1, Facts DEF Position
  <2>11. Replicated'
    BY <2>1 DEF Inv, Replicated
  <2>12. ASSUME NEW g \in 1 .. gen + 1, NEW b \in Backends
         PROVE  /\ states'[g][b].lsn <= Position(b) /\ states'[g][b].role \in {"unknown", RoleOf(b)}
                /\ (states'[g][b].healthy <=>
                      states'[g][b].role # "unknown" /\ states'[g][b].failures < FailureThreshold)
    <3>1. CASE g = gen + 1
      <4>1. states'[g][b] = Fresh
        BY <2>4, <2>6, <3>1
      <4>2. QED
        BY <2>3, <2>10, <4>1
    <3>2. CASE g # gen + 1
      <4>1. g \in 1 .. gen /\ states'[g][b] = states[g][b]
        BY <2>2, <2>6, <3>2
      <4>2. QED
        BY <4>1 DEF Inv, Recorded, BreakerConsistent
    <3>3. QED
      BY <3>1, <3>2
  <2>13. Recorded' /\ BreakerConsistent'
    BY <2>5, <2>7, <2>10, <2>12, SMTT(30) DEF Recorded, BreakerConsistent, RoleOf
  <2>14. Snapped'
    <3>1. snap.pc # "idle" => snap.i \in 1 .. Len(lists'[snap.g])
      <4>1. lists'[snap.g] = lists[snap.g]
        BY <1>0, <2>5, Facts, Zenon
      <4>2. QED
        BY <4>1 DEF Inv, Snapped
    <3>2. QED
      BY <2>1, <3>1, Zenon DEF Inv, Snapped, Position
  <2>15. DelayBounded'
    <3>1. \A b \in Backends : states'[gen'][b].failures = 0
      BY <2>3, <2>4, <2>5, <2>6
    <3>2. QED
      BY <3>1 DEF DelayBounded
  <2>16. OnlyListedPolled'
    BY <2>7 DEF OnlyListedPolled
  <2>17. Launched'
    <3>1. ASSUME NEW g \in 1 .. gen + 1 PROVE lists'[g] # <<>>
      BY <2>1, <2>2, <2>5 DEF Inv, Launched
    <3>2. QED
      BY <2>1, <2>5, <3>1, Zenon DEF Launched
  <2>18. QED
    BY <2>9, <2>11, <2>13, <2>14, <2>15, <2>16, <2>17 DEF Inv
<1>4. QED
  BY <1>1, <1>2, <1>3

\* A step of Snapshot keeps the invariant: what it copies out is recorded, hence
\* replayed, and the lag it adds ends at a position the primary had reached.
LEMMA SnapStep ==
    ASSUME Inv, Snapshot
    PROVE  Inv'
<1>0. TypeOK
  BY DEF Inv
<1>1. /\ UNCHANGED <<mode, wal, replay, poller, conn, row, delay, lists, cancelled, stopping, reload,
                     states>>
  BY Zenon DEF Snapshot, SnapBegin, SnapPrimary, SnapOut, server, polls, control
<1>2. gen' = gen /\ \A b \in Backends : (Listed(b)' <=> Listed(b)) /\ Position(b)' = Position(b)
  BY <1>1, Zenon DEF gen, Listed, Position
<1>3. SUFFICES /\ snap' \in [pc : {"idle", "primary", "out"}, g : 1 .. gen, i : Nat, have : BOOLEAN,
                             lsn : 0 .. MaxWAL, out : Seq(Status)]
               /\ snap'.pc # "idle" => snap'.i \in 1 .. Len(lists[snap'.g])
               /\ snap'.lsn <= wal
               /\ \A i \in 1 .. Len(snap'.out) :
                    /\ snap'.out[i].role \in {"unknown", RoleOf(snap'.out[i].addr)}
                    /\ snap'.out[i].lsn <= Position(snap'.out[i].addr)
                    /\ snap'.out[i].lsn + snap'.out[i].lagBytes <= wal
  <2>1. TypeOK'
    BY <1>0, <1>1, <1>2, <1>3, Zenon DEF TypeOK
  <2>2. Snapped'
    BY <1>1, <1>3, Zenon DEF Snapped, Position, RoleOf
  <2>3. Replicated' /\ Recorded' /\ Launched' /\ BreakerConsistent' /\ DelayBounded' /\ OnlyListedPolled'
    <3>1. Replicated' /\ Launched'
      BY <1>1, <1>2, Zenon DEF Inv, Replicated, Launched
    <3>2. Recorded' /\ BreakerConsistent'
      BY <1>1, <1>2 DEF Inv, Recorded, BreakerConsistent
    <3>3. DelayBounded' /\ OnlyListedPolled'
      BY <1>1, <1>2, Zenon DEF Inv, DelayBounded, OnlyListedPolled
    <3>4. QED
      BY <3>1, <3>2, <3>3, Zenon
  <2>4. QED
    BY <2>1, <2>2, <2>3, Zenon DEF Inv
<1>4. snap \in [pc : {"idle", "primary", "out"}, g : 1 .. gen, i : Nat, have : BOOLEAN,
                lsn : 0 .. MaxWAL, out : Seq(Status)]
  BY <1>0 DEF TypeOK
<1>5. wal \in Nat /\ MaxWAL \in Nat /\ wal <= MaxWAL /\ gen \in 1 .. gen
  BY <1>0, Facts
<1>6. CASE SnapBegin
  <2>1. snap' = [NoSnap EXCEPT !.pc = "primary", !.g = gen]
    BY <1>6 DEF SnapBegin
  <2>2. snap' = [pc |-> "primary", g |-> gen, i |-> 1, have |-> FALSE, lsn |-> 0, out |-> <<>>]
    BY <2>1, Zenon DEF NoSnap
  <2>3. lists[gen] \in Seq(Backends) /\ lists[gen] # <<>>
    BY <1>0, <1>5, Facts, Zenon DEF Inv, Launched
  <2>4. 1 \in 1 .. Len(lists[gen])
    BY <2>3
  <2>5. QED
    BY <1>5, <2>2, <2>4
<1>7. ASSUME snap.pc # "idle"
      PROVE  /\ snap.i \in 1 .. Len(lists[snap.g]) /\ Len(lists[snap.g]) \in Nat
             /\ lists[snap.g][snap.i] \in Backends
             /\ states[snap.g][lists[snap.g][snap.i]] \in backendState
             /\ states[snap.g][lists[snap.g][snap.i]].lsn <= Position(lists[snap.g][snap.i])
             /\ states[snap.g][lists[snap.g][snap.i]].role \in {"unknown", RoleOf(lists[snap.g][snap.i])}
  <2>1. snap.i \in 1 .. Len(lists[snap.g])
    BY <1>7 DEF Inv, Snapped
  <2>2. snap.g \in 1 .. gen /\ lists[snap.g] \in Seq(Backends)
        /\ states[snap.g] \in [Backends -> backendState]
    BY <1>0, Facts, Zenon
  <2>3. lists[snap.g][snap.i] \in Backends /\ Len(lists[snap.g]) \in Nat
    BY <2>1, <2>2
  <2>4. QED
    BY <2>1, <2>2, <2>3, Zenon DEF Inv, Recorded
<1>8. CASE SnapPrimary
  <2> DEFINE list == lists[snap.g]
             st == states[snap.g][list[snap.i]]
             found == st.role = "primary" /\ st.healthy
             have == snap.have \/ found
             lsn == IF found THEN st.lsn ELSE snap.lsn
             pc == IF snap.i = Len(list) THEN "out" ELSE snap.pc
             i == IF snap.i = Len(list) THEN 1 ELSE snap.i + 1
  <2>1. /\ snap.pc = "primary"
        /\ snap' = [snap EXCEPT !.have = have, !.lsn = lsn, !.pc = pc, !.i = i]
    BY <1>8, Zenon DEF SnapPrimary
  <2>2. have \in BOOLEAN
    OBVIOUS
  <2>3. lsn \in 0 .. MaxWAL /\ lsn <= wal
    <3>1. snap.lsn \in 0 .. MaxWAL /\ snap.lsn <= wal
      BY <1>4 DEF Inv, Snapped
    <3>2. st.lsn \in 0 .. MaxWAL /\ st.lsn <= wal
      <4>1. st \in backendState /\ list[snap.i] \in Backends /\ st.lsn <= Position(list[snap.i])
        BY <1>7, <2>1, Zenon
      <4>2. Position(list[snap.i]) <= wal /\ Position(list[snap.i]) \in Nat
        BY <4>1, InWal, Zenon DEF Inv
      <4>3. st.lsn \in 0 .. MaxWAL
        BY <4>1, Zenon DEF backendState
      <4> HIDE DEF st, list
      <4>4. QED
        BY <1>5, <4>1, <4>2, <4>3
    <3>3. QED
      BY <3>1, <3>2, Zenon
  <2>4. pc \in {"primary", "out"} /\ i \in 1 .. Len(list) /\ i \in Nat
    <3> DEFINE k == snap.i
               n == Len(list)
    <3>1. k \in 1 .. n /\ n \in Nat
      BY <1>7, <2>1, Zenon
    <3>2. pc = (IF k = n THEN "out" ELSE "primary") /\ i = IF k = n THEN 1 ELSE k + 1
      BY <2>1, Zenon
    <3> HIDE DEF k, n, pc, i
    <3>3. pc \in {"primary", "out"} /\ i \in 1 .. n /\ i \in Nat
      BY <3>1, <3>2
    <3>4. QED
      BY <3>3 DEF n
  <2> HIDE DEF have, lsn, pc, i, found, st
  <2>5. /\ snap' \in [pc : {"idle", "primary", "out"}, g : 1 .. gen, i : Nat, have : BOOLEAN,
                       lsn : 0 .. MaxWAL, out : Seq(Status)]
        /\ snap'.i = i /\ snap'.g = snap.g /\ snap'.lsn = lsn /\ snap'.out = snap.out
    BY <1>4, <2>1, <2>2, <2>3, <2>4, Zenon
  <2>6. QED
    BY <2>3, <2>4, <2>5, Zenon DEF Inv, Snapped
<1>9. CASE SnapOut
  <2> DEFINE list == lists[snap.g]
             b == list[snap.i]
             st == states[snap.g][b]
             lag == LagBytes(st, snap.have, snap.lsn)
             s == [addr |-> b, role |-> st.role, healthy |-> st.healthy, lsn |-> st.lsn, lagBytes |-> lag]
             pc == IF snap.i = Len(list) THEN "idle" ELSE snap.pc
  <2>1. /\ snap.pc = "out"
        /\ snap' = [snap EXCEPT !.out = Append(snap.out, s), !.pc = pc, !.i = snap.i + 1]
    BY <1>9, Zenon DEF SnapOut
  <2>2. /\ b \in Backends /\ st \in backendState /\ st.lsn <= Position(b)
        /\ st.role \in {"unknown", RoleOf(b)} /\ snap.i \in 1 .. Len(list) /\ Len(list) \in Nat
    BY <1>7, <2>1, Zenon
  <2>3. Position(b) <= wal /\ Position(b) \in Nat
    BY <2>2, InWal, Zenon DEF Inv
  <2>4. snap.lsn \in 0 .. MaxWAL /\ snap.lsn <= wal
    BY <1>4 DEF Inv, Snapped
  <2>5. pc \in {"idle", "out"} /\ (pc # "idle" => snap.i + 1 \in 1 .. Len(list)) /\ snap.i + 1 \in Nat
    <3> DEFINE k == snap.i
               n == Len(list)
    <3>1. k \in 1 .. n /\ n \in Nat /\ pc = IF k = n THEN "idle" ELSE "out"
      BY <2>1, <2>2, Zenon
    <3> HIDE DEF k, n, pc
    <3>2. pc \in {"idle", "out"} /\ (pc # "idle" => k + 1 \in 1 .. n) /\ k + 1 \in Nat
      BY <3>1
    <3>3. QED
      BY <3>2 DEF k, n
  <2> HIDE DEF st, b, list, pc
  <2>6. st.lsn \in 0 .. MaxWAL
    BY <2>2 DEF backendState
  <2>7. lag \in 0 .. MaxWAL /\ st.lsn + lag <= wal
    BY <1>5, <2>2, <2>3, <2>4, <2>6 DEF LagBytes
  <2> HIDE DEF lag
  <2>8. s \in Status /\ s.addr = b /\ s.role = st.role /\ s.lsn = st.lsn /\ s.lagBytes = lag
    BY <2>2, <2>6, <2>7 DEF Status, backendState
  <2> HIDE DEF s
  <2>9. /\ snap' \in [pc : {"idle", "primary", "out"}, g : 1 .. gen, i : Nat, have : BOOLEAN,
                       lsn : 0 .. MaxWAL, out : Seq(Status)]
        /\ snap'.pc = pc /\ snap'.i = snap.i + 1 /\ snap'.g = snap.g /\ snap'.lsn = snap.lsn
        /\ snap'.out = Append(snap.out, s)
    <3>1. Append(snap.out, s) \in Seq(Status)
      BY <1>4, <2>8
    <3>2. QED
      BY <1>4, <2>1, <2>5, <3>1, Zenon
  <2>10. ASSUME NEW i \in 1 .. Len(snap'.out)
         PROVE  /\ snap'.out[i].role \in {"unknown", RoleOf(snap'.out[i].addr)}
                /\ snap'.out[i].lsn <= Position(snap'.out[i].addr)
                /\ snap'.out[i].lsn + snap'.out[i].lagBytes <= wal
    <3>1. snap.out \in Seq(Status) /\ Len(snap.out) \in Nat
      BY <1>4
    <3>2. CASE i = Len(snap.out) + 1
      <4>1. snap'.out[i] = s
        BY <2>9, <3>1, <3>2
      <4>2. QED
        BY <2>2, <2>7, <2>8, <4>1
    <3>3. CASE i # Len(snap.out) + 1
      <4>1. i \in 1 .. Len(snap.out) /\ snap'.out[i] = snap.out[i]
        BY <2>8, <2>9, <3>1, <3>3, SMTT(30)
      <4>2. QED
        BY <4>1, Zenon DEF Inv, Snapped
    <3>4. QED
      BY <3>2, <3>3, Zenon
  <2>11. QED
    BY <2>4, <2>5, <2>9, <2>10, Zenon DEF list
<1>10. QED
  BY <1>6, <1>8, <1>9, Zenon DEF Snapshot
-----------------------------------------------------------------------------
(* The theorems *)

\* The invariant holds in every reachable state of the registry.
LEMMA RegistryInvariant == Spec => []Inv
<1>1. Inv /\ [Next]_vars => Inv'
  <2> SUFFICES ASSUME Inv, [Next]_vars PROVE Inv'
    OBVIOUS
  <2>1. ASSUME NEW b \in Backends, Poll(b) PROVE Inv'
    BY <2>1, PollStep, RecordStep DEF Poll
  <2>2. CASE WalGrows \/ (\E r \in Replicas : Replays(r)) \/ (\E b \in Backends : ServerTurns(b))
    BY <2>2, ServerStep
  <2>3. CASE ReloadBegin \/ ReloadLaunch \/ Shutdown
    BY <2>3, ControlStep
  <2>4. CASE Snapshot
    BY <2>4, SnapStep
  <2>5. CASE UNCHANGED vars
    <3>1. UNCHANGED <<mode, wal, replay, lists, states, snap, poller, conn, row, delay, cancelled,
                      stopping, reload>>
      BY <2>5 DEF vars, server, polls, control
    <3>2. reload # <<>> => gen <= MaxReloads
      BY DEF Inv, Launched
    <3>3. QED
      BY <3>1, <3>2, QuietKeeps, Zenon DEF Inv, TypeOK, Recorded
  <2>6. QED
    BY <2>1, <2>2, <2>3, <2>4, <2>5 DEF Next
<1>2. QED
  BY <1>1, InvInit, PTL DEF Spec

\* For any backends, lists and bounds, every variable of the registry keeps its
\* type; in particular a failure count never passes where it saturates.
THEOREM RegistryTyped == Spec => []TypeOK
<1>1. Inv => TypeOK
  BY DEF Inv
<1>2. QED
  BY <1>1, RegistryInvariant, PTL

\* The breaker and its counter agree, for any threshold (recordSuccess,
\* recordFailure, launch).
THEOREM RegistryBreaker == Spec => []BreakerConsistent
<1>1. Inv => BreakerConsistent
  BY DEF Inv
<1>2. QED
  BY <1>1, RegistryInvariant, PTL

\* The wait after a failure is between 1 and MaxBackoff for any base, maximum,
\* shift and word width, overflow included (Backoff).
THEOREM RegistryDelay == Spec => []DelayBounded
<1>1. Inv => DelayBounded
  BY DEF Inv
<1>2. QED
  BY <1>1, RegistryInvariant, PTL

\* Only backends of the current list are polled, whatever the reloads.
THEOREM RegistryOnlyListed == Spec => []OnlyListedPolled
<1>1. Inv => OnlyListedPolled
  BY DEF Inv
<1>2. QED
  BY <1>1, RegistryInvariant, PTL

\* Nothing Snapshot puts out is ahead of the truth, however its reads interleave
\* with the pollers' writes and with reloads.
THEOREM RegistrySnapshotSound == Spec => []SnapshotSound
<1>1. Inv => SnapshotSound
  <2> SUFFICES ASSUME Inv, NEW i \in 1 .. Len(snap.out)
               PROVE  /\ snap.out[i].role = "replica" => snap.out[i].lsn <= replay[snap.out[i].addr]
                      /\ snap.out[i].lsn + snap.out[i].lagBytes <= wal
    BY Zenon DEF SnapshotSound
  <2>1. /\ snap.out[i].role \in {"unknown", RoleOf(snap.out[i].addr)}
        /\ snap.out[i].lsn <= Position(snap.out[i].addr)
        /\ snap.out[i].lsn + snap.out[i].lagBytes <= wal
    BY Zenon DEF Inv, Snapped
  <2>2. snap.out[i].role = "replica" => snap.out[i].addr # Primary
    BY <2>1 DEF RoleOf
  <2>3. QED
    BY <2>1, <2>2, Zenon DEF Position
<1>2. QED
  BY <1>1, RegistryInvariant, PTL
-----------------------------------------------------------------------------
(* The registry implements HealthView *)

\* What the router sees of a replica; the refinement mapping.
Seen(r) == [role |-> states[gen][r].role, healthy |-> states[gen][r].healthy,
            lsn |-> states[gen][r].lsn]
Sight == [r \in Replicas |-> Seen(r)]

\* A record of b changes the router's view of b alone, and nothing if b is the
\* primary.
LEMMA SightChanges ==
    ASSUME TypeOK, NEW b \in Backends, NEW st \in backendState,
           states' = [states EXCEPT ![gen][b] = st], UNCHANGED lists
    PROVE  Sight' = IF b \in Replicas
                    THEN [Sight EXCEPT ![b] = [role |-> st.role, healthy |-> st.healthy, lsn |-> st.lsn]]
                    ELSE Sight
<1>1. gen' = gen
  BY DEF gen
<1>2. gen \in 1 .. gen
  BY Facts
<1>3. /\ states'[gen][b] = st
      /\ \A c \in Backends : c # b => states'[gen][c] = states[gen][c]
  <2>1. /\ states'[gen][b] = st
        /\ \A g \in 1 .. gen, c \in Backends : g # gen \/ c # b => states'[g][c] = states[g][c]
    BY Overwritten, Zenon
  <2>2. QED
    BY <1>2, <2>1
<1>4. Sight' = [r \in Replicas |-> Seen(r)']
  BY DEF Sight
<1>5. ASSUME NEW r \in Replicas
      PROVE  Seen(r)' = IF r = b THEN [role |-> st.role, healthy |-> st.healthy, lsn |-> st.lsn]
                        ELSE Seen(r)
  BY <1>1, <1>3, Zenon DEF Seen, Backends
<1>6. QED
  BY <1>4, <1>5, Zenon DEF Sight

\* Every step of the registry is a step of HealthView or leaves the view alone.
LEMMA ViewStep ==
    ASSUME Inv, [Next]_vars
    PROVE  [View!ViewNext]_(View!viewVars)
<1>0. TypeOK
  BY DEF Inv
<1>1. ASSUME UNCHANGED <<wal, replay, lists, states>> PROVE UNCHANGED View!viewVars
  <2>1. gen' = gen
    BY <1>1 DEF gen
  <2>2. QED
    BY <1>1, <2>1 DEF View!viewVars
<1>2. CASE WalGrows
  <2>1. UNCHANGED <<replay, lists, states>> /\ wal < MaxWAL /\ wal' = wal + 1
    BY <1>2 DEF WalGrows, control
  <2>2. gen' = gen
    BY <2>1 DEF gen
  <2>3. View!WalGrows
    BY <2>1, <2>2 DEF View!WalGrows
  <2>4. QED
    BY <2>3 DEF View!ViewNext
<1>3. ASSUME NEW r \in Replicas, Replays(r) PROVE [View!ViewNext]_(View!viewVars)
  <2>1. UNCHANGED <<wal, lists, states>> /\ \E p \in replay[r] + 1 .. wal : replay' = [replay EXCEPT ![r] = p]
    BY <1>3, Zenon DEF Replays, control
  <2>2. gen' = gen
    BY <2>1 DEF gen
  <2>3. View!Replays(r)
    BY <2>1, <2>2, Zenon DEF View!Replays
  <2>4. QED
    BY <2>3 DEF View!ViewNext
<1>4. ASSUME NEW b \in Backends, recordSuccess(b) PROVE [View!ViewNext]_(View!viewVars)
  <2> DEFINE st == [role |-> row[b].role, healthy |-> TRUE, lsn |-> row[b].lsn, failures |-> 0]
  <2>1. /\ states' = [states EXCEPT ![gen][b] = st] /\ UNCHANGED <<wal, replay, lists>>
        /\ poller[b] = "row" /\ row[b].role = RoleOf(b) /\ row[b].lsn <= Position(b)
    BY <1>4, Zenon DEF recordSuccess, server, control, Inv, Recorded
  <2>2. row[b].role \in {"unknown", "primary", "replica"} /\ row[b].lsn \in 0 .. MaxWAL
    BY <1>0, Zenon DEF TypeOK
  <2>3. st \in backendState /\ st.role = RoleOf(b) /\ st.healthy = TRUE /\ st.lsn = row[b].lsn
    BY <2>1, <2>2, RegistryAssumption DEF backendState
  <2> HIDE DEF st
  <2>4. CASE b \in Replicas
    <3>1. Sight' = [Sight EXCEPT ![b] = [role |-> "replica", healthy |-> TRUE, lsn |-> st.lsn]]
      BY <1>0, <2>1, <2>3, <2>4, SightChanges, RegistryAssumption, Zenon DEF RoleOf
    <3>2. st.lsn \in 0 .. replay[b]
      <4>1. Position(b) = replay[b]
        BY <2>4, RegistryAssumption DEF Position
      <4>2. Position(b) \in Nat
        BY <1>0, Facts
      <4>3. row[b].lsn \in 0 .. MaxWAL /\ MaxWAL \in Nat /\ row[b].lsn <= Position(b)
        BY <2>1, <2>2, RegistryAssumption, Zenon
      <4>4. QED
        BY <2>3, <4>1, <4>2, <4>3
    <3>3. View!PollSucceeds(b)
      BY <2>1, <3>1, <3>2, Zenon DEF View!PollSucceeds, Sight, Seen
    <3>4. QED
      BY <2>4, <3>3 DEF View!ViewNext
  <2>5. CASE b \notin Replicas
    <3>1. Sight' = Sight
      BY <1>0, <2>1, <2>3, <2>5, SightChanges, Zenon
    <3>2. QED
      BY <2>1, <3>1, Zenon DEF View!viewVars, Sight, Seen
  <2>6. QED
    BY <2>4, <2>5
<1>5. ASSUME NEW b \in Backends, recordFailure(b) PROVE [View!ViewNext]_(View!viewVars)
  <2> DEFINE old == states[gen][b]
             st == Failed(old)
  <2>1. UNCHANGED <<wal, replay, lists>>
    BY <1>5 DEF recordFailure, server, control
  <2>2. states' = [states EXCEPT ![gen][b] = st]
    <3>1. states' = [states EXCEPT ![gen][b] = Failed(@)]
      BY <1>5 DEF recordFailure
    <3>2. gen \in DOMAIN states /\ states[gen] \in [Backends -> backendState]
      BY <1>0, Facts, Zenon
    <3>3. QED
      BY <3>1, <3>2
  <2>3. old \in backendState /\ old.healthy \in BOOLEAN
    BY <1>0, Facts, Zenon DEF backendState
  <2>4. /\ st \in backendState /\ st.role = old.role /\ st.lsn = old.lsn
        /\ st.healthy \in {FALSE, old.healthy}
    BY <2>3, FailedType, Zenon
  <2> HIDE DEF st
  <2>5. CASE b \in Replicas
    <3>1. Sight[b] = [role |-> old.role, healthy |-> old.healthy, lsn |-> old.lsn] /\ DOMAIN Sight = Replicas
      BY <2>5 DEF Sight, Seen
    <3>2. Sight' = [Sight EXCEPT ![b] = [role |-> old.role, healthy |-> st.healthy, lsn |-> old.lsn]]
      BY <1>0, <2>1, <2>2, <2>4, <2>5, SightChanges, Zenon
    <3>3. CASE st.healthy = FALSE
      <4> HIDE DEF old
      <4>1. [Sight[b] EXCEPT !.healthy = FALSE] = [role |-> old.role, healthy |-> FALSE, lsn |-> old.lsn]
        <5> DEFINE e == Sight[b]
                   a == old.role
                   h == old.healthy
                   c == old.lsn
                   f == FALSE
        <5>1. e = [role |-> a, healthy |-> h, lsn |-> c]
          BY <3>1, Zenon
        <5> HIDE DEF e, a, h, c, f
        <5>2. [e EXCEPT !.healthy = f] = [role |-> a, healthy |-> f, lsn |-> c]
          BY <5>1
        <5>3. QED
          BY <5>2, Zenon DEF e, a, c, f
      <4>2. Sight' = [Sight EXCEPT ![b] = [Sight[b] EXCEPT !.healthy = FALSE]]
        BY <3>2, <3>3, <4>1, Zenon
      <4>3. Sight' = [Sight EXCEPT ![b].healthy = FALSE]
        BY <2>5, <3>1, <4>2
      <4>4. View!Trips(b)
        BY <2>1, <4>3 DEF View!Trips, Sight, Seen
      <4>5. QED
        BY <2>5, <4>4 DEF View!ViewNext
    <3>4. CASE st.healthy = old.healthy
      <4>1. Sight' = Sight
        BY <3>1, <3>2, <3>4, Zenon DEF Sight
      <4>2. QED
        BY <2>1, <4>1, Zenon DEF View!viewVars, Sight, Seen
    <3>5. QED
      BY <2>4, <3>3, <3>4, Zenon
  <2>6. CASE b \notin Replicas
    <3>1. Sight' = Sight
      BY <1>0, <2>1, <2>2, <2>4, <2>6, SightChanges, Zenon
    <3>2. QED
      BY <2>1, <3>1 DEF View!viewVars, Sight, Seen
  <2>7. QED
    BY <2>5, <2>6
<1>6. CASE ReloadLaunch
  <2> DEFINE new == [b \in Backends |-> Fresh]
  <2>1. /\ UNCHANGED <<wal, replay>> /\ lists' = Append(lists, reload)
        /\ states' = Append(states, new) /\ \A r \in Replicas : new[r] = Fresh
    BY <1>6, Zenon DEF ReloadLaunch, server, Backends
  <2> HIDE DEF new
  <2>2. gen' = gen + 1 /\ gen \in Nat /\ Len(states) = gen /\ states \in Seq([Backends -> backendState])
    <3>1. gen \in Nat /\ Len(states) = gen /\ states \in Seq([Backends -> backendState])
      BY <1>0, Facts, Zenon DEF TypeOK
    <3>2. lists \in Seq(Seq(Backends))
      BY <1>0, Zenon DEF TypeOK
    <3>3. Len(lists') = Len(lists) + 1
      BY <2>1, <3>2
    <3>4. QED
      BY <3>1, <3>3, Zenon DEF gen
  <2>3. states'[gen'] = new
    BY <2>1, <2>2
  <2>4. ASSUME NEW r \in Replicas
        PROVE  Seen(r)' = [role |-> "unknown", healthy |-> FALSE, lsn |-> 0]
    <3>1. states'[gen'][r] = Fresh
      BY <2>1, <2>3
    <3>2. QED
      BY <3>1 DEF Seen, Fresh
  <2>5. Sight' = [r \in Replicas |-> [role |-> "unknown", healthy |-> FALSE, lsn |-> 0]]
    BY <2>4 DEF Sight
  <2>6. View!Reloads
    BY <2>1, <2>5, Zenon DEF View!Reloads, View!Unpolled, Sight, Seen
  <2>7. QED
    BY <2>6 DEF View!ViewNext
<1>7. ASSUME NEW b \in Backends, Begin(b) \/ Stop(b) \/ DialOK(b) \/ Answer(b) \/ ServerTurns(b)
      PROVE  UNCHANGED <<wal, replay, lists, states>>
  BY <1>7, Zenon DEF Begin, Stop, DialOK, Answer, ServerTurns, server, control
<1>8. ASSUME ReloadBegin \/ Shutdown \/ Snapshot \/ UNCHANGED vars
      PROVE  UNCHANGED <<wal, replay, lists, states>>
  BY <1>8, Zenon DEF ReloadBegin, Shutdown, Snapshot, SnapBegin, SnapPrimary, SnapOut, vars, server, control
<1>9. QED
  BY <1>1, <1>2, <1>3, <1>4, <1>5, <1>6, <1>7, <1>8 DEF Next, Poll

\* The registry implements HealthView: to the router every poll, breaker trip and
\* reload is a step of the abstract view, for any replicas, lists and bounds.
\* RoutingProofs takes it from there: RoutingSession's registry is HealthView.
THEOREM RegistryRefines == Spec => ImplementsHealthView
<1>1. Init => View!ViewInit
  <2> SUFFICES ASSUME Init PROVE View!ViewInit
    OBVIOUS
  <2>1. gen = 1 /\ states[1] = [b \in Backends |-> Fresh] /\ wal = 0 /\ replay = [r \in Replicas |-> 0]
    BY DEF Init, gen
  <2>2. QED
    BY <2>1, SMTT(30) DEF View!ViewInit, View!Unpolled, Fresh, Backends
<1>2. Inv /\ [Next]_vars => [View!ViewNext]_(View!viewVars)
  BY ViewStep
<1>3. QED
  BY <1>1, <1>2, RegistryInvariant, PTL DEF Spec, ImplementsHealthView, View!ViewSpec
=============================================================================
