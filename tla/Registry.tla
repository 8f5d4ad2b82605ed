------------------------------ MODULE Registry ------------------------------
(***************************************************************************)
(* The health registry of internal/registry/registry.go: one poller        *)
(* goroutine per backend with a circuit breaker and a backoff, reloads of  *)
(* the backend list, shutdown, and Snapshot, which locks the backends one  *)
(* by one in two passes while the pollers write them.                      *)
(***************************************************************************)
EXTENDS Integers, Sequences

CONSTANTS Primary, Replicas,
          FirstList,          \* backends at Start, the primary first
          ReloadLists,        \* lists a SIGHUP may bring
          MaxReloads,         \* bound on reloads
          MaxWAL,             \* bound on the primary's WAL position
          MaxFailures,        \* where the count of failed polls saturates
          FailureThreshold, Interval, BaseBackoff, MaxBackoff,
          MaxShift, Width,    \* 30 and 64 in the code
          Hangs,              \* a backend may accept and never answer
          Reads               \* someone calls Snapshot

Backends == {Primary} \cup Replicas

ASSUME RegistryAssumption ==
    /\ MaxReloads \in Nat /\ MaxWAL \in Nat /\ MaxFailures \in Nat
    /\ FailureThreshold \in Nat \ {0} /\ Interval \in Nat \ {0}
    /\ BaseBackoff \in Nat \ {0} /\ MaxBackoff \in Nat \ {0}
    /\ MaxShift \in 0 .. MaxFailures - 1 /\ FailureThreshold <= MaxFailures
    /\ Width \in Nat \ {0} /\ 2^Width > 0 /\ Hangs \in BOOLEAN /\ Reads \in BOOLEAN
    /\ Primary \notin Replicas
    /\ {FirstList} \cup ReloadLists \subseteq Seq(Backends) \ {<<>>}

VARIABLES mode,       \* mode[b]: the server is "up", "down" or "hung"
          wal, replay,\* WAL position of the primary, replayed by each replica
          lists,      \* the backend lists launched so far; the last is current
          states,     \* states[g][b]: the backendState of launch g
          poller,     \* where b's poller goroutine is
          conn,       \* the poller's connection: "nil", "ok" or "broken"
          row,        \* the answer a poller has received and not yet recorded
          delay,      \* what b's last pollOnce returned
          cancelled,  \* the pollers' context is done
          stopping,   \* the Start context is done
          reload,     \* the list Reconfigure is about to launch, or <<>>
          snap        \* the progress of one caller of Snapshot

server == <<mode, wal, replay>>
polls == <<poller, conn, row, delay>>
control == <<lists, cancelled, stopping, reload>>
vars == <<server, polls, control, states, snap>>

gen == Len(lists)
Listed(b) == \E i \in DOMAIN lists[gen] : lists[gen][i] = b

Fresh == [role |-> "unknown", healthy |-> FALSE, lsn |-> 0, failures |-> 0]
NoRow == [role |-> "unknown", lsn |-> 0]
NoSnap == [pc |-> "idle", g |-> 1, i |-> 1, have |-> FALSE, lsn |-> 0, out |-> <<>>]

backendState == [role : {"unknown", "primary", "replica"}, healthy : BOOLEAN,
                 lsn : 0 .. MaxWAL, failures : 0 .. MaxFailures]

Status == [addr : Backends, role : {"unknown", "primary", "replica"}, healthy : BOOLEAN,
           lsn : 0 .. MaxWAL, lagBytes : 0 .. MaxWAL]

TypeOK ==
    /\ mode \in [Backends -> {"up", "down", "hung"}]
    /\ wal \in 0 .. MaxWAL /\ replay \in [Replicas -> 0 .. MaxWAL]
    /\ lists \in Seq(Seq(Backends)) /\ gen \in 1 .. MaxReloads + 1
    /\ states \in Seq([Backends -> backendState]) /\ Len(states) = gen
    /\ poller \in [Backends -> {"sleep", "dial", "query", "row", "done"}]
    /\ conn \in [Backends -> {"nil", "ok", "broken"}]
    /\ row \in [Backends -> [role : {"unknown", "primary", "replica"}, lsn : 0 .. MaxWAL]]
    /\ delay \in [Backends -> 0 .. IF Interval > MaxBackoff THEN Interval ELSE MaxBackoff]
    /\ cancelled \in BOOLEAN /\ stopping \in BOOLEAN
    /\ reload \in ReloadLists \cup {<<>>}
    /\ snap \in [pc : {"idle", "primary", "out"}, g : 1 .. gen, i : Nat, have : BOOLEAN,
                lsn : 0 .. MaxWAL, out : Seq(Status)]

\* launch: new states and a poller for each listed backend.
Pollers(list) == [b \in Backends |->
    IF \E i \in DOMAIN list : list[i] = b THEN "sleep" ELSE "done"]

Init ==
    /\ mode = [b \in Backends |-> "up"]
    /\ wal = 0 /\ replay = [r \in Replicas |-> 0]
    /\ lists = <<FirstList>>
    /\ states = <<[b \in Backends |-> Fresh]>>
    /\ poller = Pollers(FirstList)
    /\ conn = [b \in Backends |-> "nil"]
    /\ row = [b \in Backends |-> NoRow]
    /\ delay = [b \in Backends |-> 0]
    /\ cancelled = FALSE /\ stopping = FALSE /\ reload = <<>>
    /\ snap = NoSnap
-----------------------------------------------------------------------------
(* The servers, external to the program *)

WalGrows ==
    /\ wal < MaxWAL /\ wal' = wal + 1
    /\ UNCHANGED <<mode, replay, polls, control, states, snap>>

Replays(r) ==
    /\ \E p \in replay[r] + 1 .. wal : replay' = [replay EXCEPT ![r] = p]
    /\ UNCHANGED <<mode, wal, polls, control, states, snap>>

\* A server stops, hangs or comes back; stopping severs its connections.
ServerTurns(b) ==
    /\ \E m \in {"up", "down"} \cup IF Hangs THEN {"hung"} ELSE {} :
        /\ m # mode[b]
        /\ mode' = [mode EXCEPT ![b] = m]
        /\ conn' = IF m = "down" /\ conn[b] = "ok"
                   THEN [conn EXCEPT ![b] = "broken"] ELSE conn
    /\ UNCHANGED <<wal, replay, poller, row, delay, control, states, snap>>
-----------------------------------------------------------------------------
(* pollLoop and pollOnce *)

\* The timer fires; pollOnce dials if it has no connection.  With ctx done too,
\* select may still take this case.
Begin(b) ==
    /\ poller[b] = "sleep"
    /\ poller' = [poller EXCEPT ![b] = IF conn[b] = "nil" THEN "dial" ELSE "query"]
    /\ UNCHANGED <<server, conn, row, delay, control, states, snap>>

\* Mutant: the loop looks at ctx only after a successful poll.
StopHealthy(b) ==
    /\ poller[b] = "sleep" /\ cancelled /\ states[gen][b].failures = 0
    /\ poller' = [poller EXCEPT ![b] = "done"]
    /\ conn' = [conn EXCEPT ![b] = "nil"]
    /\ UNCHANGED <<server, row, delay, control, states, snap>>

\* ctx.Done: the loop returns and closes its connection.
Stop(b) ==
    /\ poller[b] = "sleep" /\ cancelled
    /\ poller' = [poller EXCEPT ![b] = "done"]
    /\ conn' = [conn EXCEPT ![b] = "nil"]
    /\ UNCHANGED <<server, row, delay, control, states, snap>>

DialOK(b) ==
    /\ poller[b] = "dial" /\ mode[b] = "up"
    /\ poller' = [poller EXCEPT ![b] = "query"]
    /\ conn' = [conn EXCEPT ![b] = "ok"]
    /\ UNCHANGED <<server, row, delay, control, states, snap>>

\* Mutant: a standby reports what it has received, not what it has replayed.
AnswerReceived(b) ==
    /\ poller[b] = "query" /\ conn[b] = "ok" /\ mode[b] = "up"
    /\ poller' = [poller EXCEPT ![b] = "row"]
    /\ row' = [row EXCEPT ![b] =
                [role |-> IF b = Primary THEN "primary" ELSE "replica", lsn |-> wal]]
    /\ UNCHANGED <<server, conn, delay, control, states, snap>>

\* The server evaluates healthQuery.
Answer(b) ==
    /\ poller[b] = "query" /\ conn[b] = "ok" /\ mode[b] = "up"
    /\ poller' = [poller EXCEPT ![b] = "row"]
    /\ row' = [row EXCEPT ![b] =
                IF b = Primary THEN [role |-> "primary", lsn |-> wal]
                               ELSE [role |-> "replica", lsn |-> replay[b]]]
    /\ UNCHANGED <<server, conn, delay, control, states, snap>>

recordSuccess(b) ==
    /\ poller[b] = "row"
    /\ states' = [states EXCEPT ![gen][b] =
                    [role |-> row[b].role, healthy |-> TRUE, lsn |-> row[b].lsn,
                     failures |-> 0]]
    /\ poller' = [poller EXCEPT ![b] = "sleep"]
    /\ row' = [row EXCEPT ![b] = NoRow]
    /\ delay' = [delay EXCEPT ![b] = Interval]
    /\ UNCHANGED <<server, conn, control, snap>>

\* Two's complement reading of n in Width bits.
Wrap(n) == LET m == n % 2^Width IN IF m >= 2^(Width - 1) THEN m - 2^Width ELSE m

\* Mutant: the shifted value is only compared with the maximum.
BackoffUnguarded(failures) ==
    LET shift == IF failures - 1 > MaxShift THEN MaxShift ELSE failures - 1
        backoff == Wrap(BaseBackoff * 2^shift)
    IN  IF backoff > MaxBackoff THEN MaxBackoff ELSE backoff

Backoff(failures) ==
    LET shift == IF failures - 1 > MaxShift THEN MaxShift ELSE failures - 1
        backoff == Wrap(BaseBackoff * 2^shift)
    IN  IF backoff <= 0 \/ backoff > MaxBackoff THEN MaxBackoff ELSE backoff

\* failures++, up to MaxFailures: from FailureThreshold and MaxShift + 1 on, no
\* branch of the code tells counts apart.
Count(n) == IF n < MaxFailures THEN n + 1 ELSE n

\* Mutant: the breaker trips one failure late.
FailedLate(st) ==
    [st EXCEPT !.failures = Count(@),
               !.healthy = @ /\ st.failures < FailureThreshold]

\* The backendState after one more failed poll.
Failed(st) ==
    [st EXCEPT !.failures = Count(@),
               !.healthy = @ /\ Count(st.failures) < FailureThreshold]

\* Mutant: pollOnce keeps the connection its query failed on.
recordFailureKeepsConn(b) ==
    /\ \/ poller[b] = "dial" /\ (mode[b] = "down" \/ (cancelled /\ mode[b] = "up"))
       \/ poller[b] = "query" /\ (conn[b] = "broken" \/ mode[b] = "down")
    /\ states' = [states EXCEPT ![gen][b] = Failed(@)]
    /\ poller' = [poller EXCEPT ![b] = "sleep"]
    /\ delay' = [delay EXCEPT ![b] = Backoff(Count(states[gen][b].failures))]
    /\ UNCHANGED <<server, conn, row, control, snap>>

\* A dial or a query on a dead connection fails; pollOnce drops the connection.
\* A done ctx fails a TCP connect; without a deadline nothing after it looks at ctx.
recordFailure(b) ==
    /\ \/ poller[b] = "dial" /\ (mode[b] = "down" \/ (cancelled /\ mode[b] = "up"))
       \/ poller[b] = "query" /\ (conn[b] = "broken" \/ mode[b] = "down")
    /\ states' = [states EXCEPT ![gen][b] = Failed(@)]
    /\ poller' = [poller EXCEPT ![b] = "sleep"]
    /\ conn' = [conn EXCEPT ![b] = "nil"]
    /\ delay' = [delay EXCEPT ![b] = Backoff(Count(states[gen][b].failures))]
    /\ UNCHANGED <<server, row, control, snap>>
-----------------------------------------------------------------------------
(* Start, Reconfigure, shutdown *)

\* Reconfigure: stopPollers cancels ...
ReloadBegin ==
    /\ reload = <<>> /\ gen <= MaxReloads
    /\ reload' \in ReloadLists
    /\ cancelled' = TRUE
    /\ UNCHANGED <<server, polls, states, lists, stopping, snap>>

\* Mutant: Reconfigure does not wait for the old pollers.
ReloadLaunchEarly ==
    /\ reload # <<>>
    /\ lists' = Append(lists, reload)
    /\ states' = Append(states, [b \in Backends |-> Fresh])
    /\ poller' = [b \in Backends |-> IF poller[b] \in {"sleep", "done"}
                                     THEN Pollers(reload)[b] ELSE poller[b]]
    /\ cancelled' = stopping
    /\ reload' = <<>>
    /\ UNCHANGED <<server, conn, row, delay, stopping, snap>>

\* ... waits for every poller, and launch starts the new ones.
ReloadLaunch ==
    /\ reload # <<>>
    /\ \A b \in Backends : poller[b] = "done"
    /\ lists' = Append(lists, reload)
    /\ states' = Append(states, [b \in Backends |-> Fresh])
    /\ poller' = Pollers(reload)
    /\ cancelled' = stopping
    /\ reload' = <<>>
    /\ UNCHANGED <<server, conn, row, delay, stopping, snap>>

Shutdown ==
    /\ ~stopping
    /\ stopping' = TRUE /\ cancelled' = TRUE
    /\ UNCHANGED <<server, polls, states, lists, reload, snap>>
-----------------------------------------------------------------------------
(* Snapshot, by one caller at a time *)

\* Take the current backend slice.
SnapBegin ==
    /\ Reads /\ snap.pc = "idle"
    /\ snap' = [NoSnap EXCEPT !.pc = "primary", !.g = gen]
    /\ UNCHANGED <<server, polls, control, states>>

\* First pass, one backend: remember a healthy primary's position.
SnapPrimary ==
    /\ snap.pc = "primary"
    /\ LET list == lists[snap.g]
           st == states[snap.g][list[snap.i]]
           found == st.role = "primary" /\ st.healthy
           last == snap.i = Len(list)
       IN  snap' = [snap EXCEPT
                      !.have = @ \/ found,
                      !.lsn = IF found THEN st.lsn ELSE @,
                      !.pc = IF last THEN "out" ELSE @,
                      !.i = IF last THEN 1 ELSE @ + 1]
    /\ UNCHANGED <<server, polls, control, states>>

\* Mutant: the subtraction is not guarded; uint64 wraps to a huge lag.
LagBytesUnguarded(st, have, lsn) ==
    IF st.role = "replica" /\ have THEN (lsn - st.lsn) % 2^Width ELSE 0

LagBytes(st, have, lsn) ==
    IF st.role = "replica" /\ have /\ lsn > st.lsn THEN lsn - st.lsn ELSE 0

\* Second pass, one backend: its status with the lag in bytes.
SnapOut ==
    /\ snap.pc = "out"
    /\ LET list == lists[snap.g]
           st == states[snap.g][list[snap.i]]
           s == [addr |-> list[snap.i], role |-> st.role, healthy |-> st.healthy,
                 lsn |-> st.lsn, lagBytes |-> LagBytes(st, snap.have, snap.lsn)]
       IN  snap' = [snap EXCEPT !.out = Append(@, s),
                                !.pc = IF snap.i = Len(list) THEN "idle" ELSE @,
                                !.i = @ + 1]
    /\ UNCHANGED <<server, polls, control, states>>
-----------------------------------------------------------------------------
Poll(b) == Begin(b) \/ Stop(b) \/ DialOK(b) \/ Answer(b) \/ recordSuccess(b)
           \/ recordFailure(b)

Snapshot == SnapBegin \/ SnapPrimary \/ SnapOut

Next ==
    \/ \E b \in Backends : Poll(b) \/ ServerTurns(b)
    \/ \E r \in Replicas : Replays(r)
    \/ WalGrows \/ ReloadBegin \/ ReloadLaunch \/ Shutdown \/ Snapshot

Spec == Init /\ [][Next]_vars

\* Pollers run, select does not take the timer's case for ever when ctx is done
\* too, and a reload that can launch does.  Nothing else has to happen.
FairSpec ==
    /\ Spec /\ WF_vars(ReloadLaunch)
    /\ \A b \in Backends : WF_vars(Poll(b)) /\ SF_vars(Stop(b))
-----------------------------------------------------------------------------
(* Properties *)

\* The breaker and its counter agree in every state: a backend counts as healthy
\* only once it has answered, and only while fewer than FailureThreshold polls
\* have failed since it last did.
BreakerConsistent ==
    \A g \in 1 .. gen, b \in Backends :
        LET st == states[g][b]
        IN  st.healthy <=> st.role # "unknown" /\ st.failures < FailureThreshold

\* The wait before the next poll is positive and bounded even when the shift
\* overflows, so a dead backend is neither hammered nor forgotten.
DelayBounded ==
    \A b \in Backends :
        poller[b] = "sleep" /\ states[gen][b].failures > 0 =>
            delay[b] \in 1 .. MaxBackoff

\* Nothing Snapshot reports is ahead of the truth, although it reads backends
\* one by one while pollers write them: a reported position has been replayed,
\* and position plus lag is a position the primary has reached.
SnapshotSound ==
    \A i \in 1 .. Len(snap.out) :
        LET s == snap.out[i]
        IN  /\ s.role = "replica" => s.lsn <= replay[s.addr]
            /\ s.lsn + s.lagBytes <= wal

\* Reconfigure waits for the old pollers, so a poller of the current launch is
\* only ever running for a backend in the current list, and a backend dropped
\* by a reload is no longer polled.
OnlyListedPolled == \A b \in Backends : poller[b] # "done" => Listed(b)

\* A backend that is down for good is taken out of rotation, and one that is up
\* for good comes back: unless pollers are told to stop.
BreakerConverges ==
    \A b \in Backends :
        /\ <>[](mode[b] = "down" /\ ~cancelled /\ Listed(b)) =>
             <>[](~states[gen][b].healthy)
        /\ <>[](mode[b] = "up" /\ ~cancelled /\ Listed(b)) =>
             <>[](states[gen][b].healthy)

\* README: the registry "trips a per-backend circuit breaker ... when a backend
\* stops responding".
TripsWhenUnresponsive ==
    \A b \in Backends :
        <>[](mode[b] = "hung" /\ ~cancelled /\ Listed(b)) =>
            <>[](~states[gen][b].healthy)

\* Reconfigure and shutdown do not get stuck: cancelled pollers are replaced, or
\* have all returned.
PollersStop == cancelled ~> (~cancelled \/ \A b \in Backends : poller[b] = "done")

\* The router's view of the registry, as HealthView promises it.
View == INSTANCE HealthView WITH
    status <- [r \in Replicas |->
        [role |-> states[gen][r].role, healthy |-> states[gen][r].healthy,
         lsn |-> states[gen][r].lsn]]

\* Every step of the registry is a step the router's abstraction allows.
ImplementsHealthView == View!ViewSpec
=============================================================================
