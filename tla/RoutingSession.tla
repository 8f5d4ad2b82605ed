--------------------------- MODULE RoutingSession ---------------------------
(***************************************************************************)
(* Client sessions in routing mode: serve and serveRouting of              *)
(* internal/proxy/session.go, with dispatchRead, selectReadTarget,         *)
(* replicaEligible and primaryLSN, above the abstract health view.         *)
(*                                                                         *)
(* The manager's pools appear as lent, the connections that are out of     *)
(* each backend's pool, and AcquireAt as succeeding or failing; the policy *)
(* as its in-flight counts and the choice of any candidate.                *)
(***************************************************************************)
EXTENDS HealthView, FiniteSets

CONSTANTS Sessions,   \* client connections
          Primary,    \* address of the primary
          None,       \* no connection held, no target chosen
          Mode        \* fencing mode: "strict", "bounded" or "relaxed"

Backends == {Primary} \cup Replicas

ASSUME RoutingAssumption ==
    /\ Primary \notin Replicas /\ None \notin Backends
    /\ Mode \in {"strict", "bounded", "relaxed"} /\ IsFiniteSet(Sessions)

VARIABLES sess,      \* sess[s]: the local state of s's goroutine
          lent,      \* lent[b]: connections to b that are out of its pool
          inFlight,  \* inFlight[r]: the policy's count of reads on r
          up         \* the servers that are running

vars == <<viewVars, sess, lent, inFlight, up>>

\* What a client sends, as Classify and BreaksTxPooling tell statements apart:
\* "read" is class Read, the rest are class Write; "set" breaks pooling;
\* "extended" is any message other than Query and Terminate.
Statements == {"read", "write", "begin", "end", "set", "extended"}

Session ==
    [pc : {"done", "startup", "idle", "select", "acquire", "write", "sent",
           "relay", "lsn", "pinned"},
     stmt : Statements,
     held : Backends \cup {None},     \* held, heldAddr
     broken : BOOLEAN,                \* the server side of held is gone
     tx : {"I", "T", "W", "E"},       \* W: in transaction, with a write
     wrote : BOOLEAN,                 \* wroteThisTx
     fence : Nat,
     target : Backends \cup {None},   \* routedAddr, when it is a replica
     exclude : SUBSET Replicas,
     lastWrite : Nat,                 \* position of the session's last commit
     blind : BOOLEAN]                 \* reading the position of it failed

NoSession ==
    [pc |-> "done", stmt |-> "read", held |-> None, broken |-> FALSE, tx |-> "I",
     wrote |-> FALSE, fence |-> 0, target |-> None, exclude |-> {},
     lastWrite |-> 0, blind |-> FALSE]

TypeOK ==
    /\ ViewTypeOK
    /\ sess \in [Sessions -> Session]
    /\ lent \in [Backends -> Int]
    /\ inFlight \in [Replicas -> Nat]
    /\ up \in SUBSET Backends

Init ==
    /\ ViewInit
    /\ sess = [s \in Sessions |-> NoSession]
    /\ lent = [b \in Backends |-> 0]
    /\ inFlight = [r \in Replicas |-> 0]
    /\ up = Backends
-----------------------------------------------------------------------------
(* The servers, external to the program *)

View == ViewNext /\ UNCHANGED <<sess, lent, inFlight, up>>

\* A server stops, which severs its connections, or starts again.
Fails(b) ==
    /\ b \in up /\ up' = up \ {b}
    /\ sess' = [s \in Sessions |-> [sess[s] EXCEPT !.broken = @ \/ sess[s].held = b]]
    /\ UNCHANGED <<viewVars, lent, inFlight>>

Recovers(b) ==
    /\ b \notin up /\ up' = up \cup {b}
    /\ UNCHANGED <<viewVars, sess, lent, inFlight>>

\* How a statement of kind k can end in a transaction state t: the new state and
\* whether it committed a write.
Outcomes(t, k) ==
    CASE k = "write" -> IF t = "I" THEN {"I"} \X BOOLEAN
                        ELSE {IF t = "E" THEN "E" ELSE "W", "E"} \X {FALSE}
      [] k = "begin" -> {<<IF t = "I" THEN "T" ELSE t, FALSE>>}
      [] k = "end"   -> {"I"} \X {FALSE, t = "W"}
      [] OTHER       -> {t, IF t = "I" THEN "I" ELSE "E"} \X {FALSE}

\* What a backend shows: the primary every commit, a replica what it replayed.
Position(b) == IF b = Primary THEN wal ELSE replay[b]
-----------------------------------------------------------------------------
(* The calls the session makes *)

\* Manager.ReleaseAt or DiscardAt: the connection leaves the session's hands.
GiveBack(b) == lent' = [lent EXCEPT ![b] = @ - 1]

\* policy.Choose, and Release of what it chose.
Choose(r) == inFlight' = [inFlight EXCEPT ![r] = @ + 1]

PolicyRelease(t) ==
    inFlight' = IF t \in Replicas
                THEN [inFlight EXCEPT ![t] = IF @ <= 1 THEN 0 ELSE @ - 1]
                ELSE inFlight

\* Mutant: an error path forgets held = nil, and the deferred DiscardAt returns
\* the connection again.
EndTwice(s) ==
    /\ sess' = [sess EXCEPT ![s] = NoSession]
    /\ IF sess[s].held # None
       THEN lent' = [lent EXCEPT ![sess[s].held] =
                       @ - IF sess[s].pc \in {"sent", "relay"} THEN 2 ELSE 1]
       ELSE UNCHANGED lent

\* serveRouting returns; a connection still held is discarded.
End(s) ==
    /\ sess' = [sess EXCEPT ![s] = NoSession]
    /\ IF sess[s].held # None THEN GiveBack(sess[s].held) ELSE UNCHANGED lent
-----------------------------------------------------------------------------
(* Startup *)

\* A client authenticates; serve acquires a primary connection for its startup.
Connect(s) ==
    /\ sess[s].pc = "done" /\ Primary \in up
    /\ sess' = [sess EXCEPT ![s] = [NoSession EXCEPT !.pc = "startup",
                                                     !.held = Primary]]
    /\ lent' = [lent EXCEPT ![Primary] = @ + 1]
    /\ UNCHANGED <<viewVars, inFlight, up>>

\* completeStartup; the startup connection goes back to its pool.
CompleteStartup(s) ==
    /\ sess[s].pc = "startup"
    /\ sess' = [sess EXCEPT ![s] = [NoSession EXCEPT !.pc = "idle"]]
    /\ GiveBack(sess[s].held)
    /\ UNCHANGED <<viewVars, inFlight, up>>

\* The client is gone (or Terminates): end of the session.
ClientGone(s) ==
    /\ sess[s].pc \in {"startup", "idle"}
    /\ End(s)
    /\ UNCHANGED <<viewVars, inFlight, up>>
-----------------------------------------------------------------------------
(* One statement *)

\* Mutant: BEGIN is dispatched like a read.
QueryBeginAsRead(s, k) ==
    /\ sess[s].pc = "idle"
    /\ sess' = [sess EXCEPT
          ![s].stmt = k,
          ![s].target = IF sess[s].held = None /\ k \notin {"read", "begin"}
                        THEN Primary ELSE None,
          ![s].exclude = {},
          ![s].pc = IF sess[s].held # None THEN "write"
                    ELSE IF k \in {"read", "begin"} THEN "select" ELSE "acquire"]
    /\ UNCHANGED <<viewVars, lent, inFlight, up>>

\* A message arrives: on a held connection it is sent there; a fresh read is
\* dispatched; anything else goes to the primary.
Query(s, k) ==
    /\ sess[s].pc = "idle"
    /\ sess' = [sess EXCEPT
          ![s].stmt = k,
          ![s].target = IF sess[s].held = None /\ k # "read" THEN Primary ELSE None,
          ![s].exclude = {},
          ![s].pc = IF sess[s].held # None THEN "write"
                    ELSE IF k = "read" THEN "select" ELSE "acquire"]
    /\ UNCHANGED <<viewVars, lent, inFlight, up>>

\* replicaEligible: strict by position; bounded by the polled lag in time, which
\* says nothing of positions, so any replicas may pass.
Eligible(s) ==
    CASE Mode = "strict"  -> {{r \in Replicas : status[r].lsn >= sess[s].fence}}
      [] Mode = "relaxed" -> {Replicas}
      [] Mode = "bounded" -> SUBSET Replicas

\* selectReadTarget: the policy's choice among the eligible replicas not yet
\* tried, else the primary.
Select(s) ==
    /\ sess[s].pc = "select"
    /\ \E eligible \in Eligible(s) :
        LET candidates == {r \in eligible \ sess[s].exclude :
                             status[r].role = "replica" /\ status[r].healthy}
        IN  \E t \in IF candidates = {} THEN {Primary} ELSE candidates :
              /\ sess' = [sess EXCEPT ![s].pc = "acquire", ![s].target = t]
              /\ IF t = Primary THEN UNCHANGED inFlight ELSE Choose(t)
    /\ UNCHANGED <<viewVars, lent, up>>

AcquireOK(s) ==
    /\ sess[s].pc = "acquire" /\ sess[s].target \in up
    /\ sess' = [sess EXCEPT ![s].pc = "write", ![s].held = sess[s].target,
                            ![s].broken = FALSE]
    /\ lent' = [lent EXCEPT ![sess[s].target] = @ + 1]
    /\ UNCHANGED <<viewVars, inFlight, up>>

\* Mutant: a failed replica stays a candidate.
TryAgain(s) ==
    sess' = [sess EXCEPT ![s].pc = "select", ![s].target = None, ![s].held = None]

\* A replica failed: never try it again for this statement.
TryNext(s) ==
    sess' = [sess EXCEPT ![s].pc = "select", ![s].target = None, ![s].held = None,
                         ![s].exclude = @ \cup {sess[s].target}]

\* AcquireAt fails (no server, pool exhausted, timeout): a routed read fails
\* over; anything else is rejected.
AcquireFail(s) ==
    /\ sess[s].pc = "acquire"
    /\ PolicyRelease(sess[s].target)
    /\ IF sess[s].target \in Replicas
       THEN TryNext(s) /\ UNCHANGED lent
       ELSE End(s)
    /\ UNCHANGED <<viewVars, up>>

\* The message is written; a severed connection may still take it.  An extended
\* message hands over to relayPooled.
WriteOK(s) ==
    /\ sess[s].pc = "write"
    /\ sess' = [sess EXCEPT
          ![s].pc = IF sess[s].stmt = "extended" THEN "pinned" ELSE "sent",
          ![s].wrote = @ \/ (sess[s].stmt # "read" /\ sess[s].held = Primary)]
    /\ UNCHANGED <<viewVars, lent, inFlight, up>>

\* Mutant: the failover forgets the policy's Release.
WriteFailNoRelease(s) ==
    /\ sess[s].pc = "write" /\ sess[s].broken
    /\ IF sess[s].target \in Replicas
       THEN TryNext(s) /\ GiveBack(sess[s].held)
       ELSE End(s)
    /\ UNCHANGED <<viewVars, inFlight, up>>

WriteFail(s) ==
    /\ sess[s].pc = "write" /\ sess[s].broken
    /\ PolicyRelease(sess[s].target)
    /\ IF sess[s].target \in Replicas
       THEN TryNext(s) /\ GiveBack(sess[s].held)
       ELSE End(s)
    /\ UNCHANGED <<viewVars, up>>

\* The server runs the statement and begins to answer.
Respond(s) ==
    /\ sess[s].pc = "sent" /\ ~sess[s].broken
    /\ \E o \in Outcomes(sess[s].tx, sess[s].stmt) :
        /\ o[2] => wal < MaxWAL
        /\ wal' = IF o[2] THEN wal + 1 ELSE wal
        /\ sess' = [sess EXCEPT
              ![s].pc = "relay",
              ![s].tx = o[1],
              ![s].lastWrite = IF o[2] THEN wal + 1 ELSE @]
    /\ UNCHANGED <<replay, status, lent, inFlight, up>>

\* The connection goes back to its pool and the session waits for a message.
Released(s) ==
    [sess[s] EXCEPT !.pc = "idle", !.stmt = "read", !.held = None, !.broken = FALSE,
                    !.wrote = FALSE, !.target = None, !.exclude = {}]

\* ReadyForQuery has been relayed: pin, stay in the transaction, read the
\* primary's position, or release.
RelayDone(s) ==
    /\ sess[s].pc = "relay"
    /\ PolicyRelease(sess[s].target)
    /\ \/ /\ sess[s].stmt = "set"
          /\ sess' = [sess EXCEPT ![s].pc = "pinned", ![s].target = None]
          /\ UNCHANGED lent
       \/ /\ sess[s].stmt # "set" /\ sess[s].tx # "I"
          /\ sess' = [sess EXCEPT ![s].pc = "idle", ![s].stmt = "read",
                                  ![s].target = None]
          /\ UNCHANGED lent
       \/ /\ sess[s].stmt # "set" /\ sess[s].tx = "I"
          /\ sess[s].held = Primary /\ sess[s].wrote
          /\ sess' = [sess EXCEPT ![s].pc = "lsn", ![s].target = None]
          /\ UNCHANGED lent
       \/ /\ sess[s].stmt # "set" /\ sess[s].tx = "I"
          /\ ~(sess[s].held = Primary /\ sess[s].wrote)
          /\ sess' = [sess EXCEPT ![s] = Released(s)]
          /\ GiveBack(sess[s].held)
    /\ UNCHANGED <<viewVars, up>>

\* relayResponse fails: the backend is gone, or the client once there is
\* something to tell it.
RelayFail(s) ==
    /\ sess[s].pc \in {"sent", "relay"}
    /\ sess[s].broken \/ sess[s].pc = "relay"
    /\ PolicyRelease(sess[s].target)
    /\ End(s)
    /\ UNCHANGED <<viewVars, up>>

\* Mutant: the fence moves only if this statement was the write itself, not when
\* it commits a transaction that wrote.
AdvanceFenceOnWrite(s) ==
    /\ sess[s].pc = "lsn" /\ ~sess[s].broken
    /\ sess' = [sess EXCEPT ![s] =
          [Released(s) EXCEPT !.blind = FALSE,
                              !.fence = IF sess[s].stmt = "write" THEN wal ELSE @]]
    /\ GiveBack(sess[s].held)
    /\ UNCHANGED <<viewVars, inFlight, up>>

\* primaryLSN answers: the fence advances, the connection is released.
AdvanceFence(s) ==
    /\ sess[s].pc = "lsn" /\ ~sess[s].broken
    /\ sess' = [sess EXCEPT ![s] =
          [Released(s) EXCEPT !.blind = FALSE, !.fence = IF wal > @ THEN wal ELSE @]]
    /\ GiveBack(sess[s].held)
    /\ UNCHANGED <<viewVars, inFlight, up>>

\* primaryLSN fails or times out: the fence stays, the connection is released.
FenceUnread(s) ==
    /\ sess[s].pc = "lsn"
    /\ sess' = [sess EXCEPT ![s] = [Released(s) EXCEPT !.blind = TRUE]]
    /\ GiveBack(sess[s].held)
    /\ UNCHANGED <<viewVars, inFlight, up>>

\* relayPooled on the held connection for the rest of the session's life: of what
\* the client does there only its commits change anything here. Then
\* finishBackendAt resets and releases, or discards.
PinnedCommit(s) ==
    /\ sess[s].pc = "pinned" /\ ~sess[s].broken /\ wal < MaxWAL
    /\ wal' = wal + 1
    /\ sess' = [sess EXCEPT ![s].lastWrite = wal + 1]
    /\ UNCHANGED <<replay, status, lent, inFlight, up>>

PinnedEnds(s) ==
    /\ sess[s].pc = "pinned"
    /\ End(s)
    /\ UNCHANGED <<viewVars, inFlight, up>>
-----------------------------------------------------------------------------
\* The steps of dispatching a statement, which the session takes on its own.
Dispatch(s) == Select(s) \/ AcquireOK(s) \/ AcquireFail(s) \/ WriteOK(s) \/ WriteFail(s)

SessionNext(s) ==
    \/ Connect(s) \/ CompleteStartup(s) \/ ClientGone(s)
    \/ \E k \in Statements : Query(s, k)
    \/ Dispatch(s)
    \/ Respond(s) \/ RelayDone(s) \/ RelayFail(s)
    \/ AdvanceFence(s) \/ FenceUnread(s)
    \/ PinnedCommit(s) \/ PinnedEnds(s)

Next ==
    \/ View
    \/ \E b \in Backends : Fails(b) \/ Recovers(b)
    \/ \E s \in Sessions : SessionNext(s)

Spec == Init /\ [][Next]_vars

\* A session that is dispatching goes on: the wait for a connection ends by its
\* timeout, and a server that is asked answers or its connection fails (Dial and
\* Ping have no deadline of their own, see StartupEnds).
FairSpec == Spec /\ \A s \in Sessions : WF_vars(Dispatch(s))
-----------------------------------------------------------------------------
(* Properties *)

\* This step shows session s the result of a read.
Shown(s) == /\ sess[s].pc = "sent" /\ sess'[s].pc = "relay"
            /\ sess[s].stmt = "read" /\ sess'[s].tx # "E"

\* Read-your-writes, as the code delivers it in strict mode: whatever backend a
\* read lands on, through failover, stale health data and reloads, it shows the
\* session's own last commit, unless reading the primary's position after that
\* commit failed.
SeenOwnWrites ==
    [][Mode = "strict" => \A s \in Sessions :
          Shown(s) => Position(sess[s].held) >= sess[s].lastWrite \/ sess[s].blind]_vars

\* Each connection a session takes from a pool goes back exactly once, on every
\* path out of serveRouting, dispatchRead and serve: the connections out of b's
\* pool are those the sessions hold.
LentOnce ==
    \A b \in Backends : lent[b] = Cardinality({s \in Sessions : sess[s].held = b})

\* Every Choose is paired with exactly one Release: the in-flight counts that
\* load-aware policies decide by are the reads actually placed on each replica.
InFlightExact ==
    \A r \in Replicas :
        inFlight[r] = Cardinality({s \in Sessions : sess[s].target = r})

\* A transaction, and a session that left state behind, never moves: what a
\* session holds between statements, or pins, is the primary, and only reads
\* outside a transaction are ever sent to a replica.
PinnedToPrimary ==
    \A s \in Sessions :
        /\ sess[s].pc \in {"idle", "lsn", "pinned"} => sess[s].held \in {Primary, None}
        /\ sess[s].tx # "I" => sess[s].held = Primary
        /\ sess[s].held \in Replicas => sess[s].stmt = "read"

\* Failover ends: however servers and their health flap, a statement stops
\* looking for a backend, because a replica that failed is not tried again.
DispatchEnds ==
    \A s \in Sessions :
        sess[s].pc = "select" ~> sess[s].pc \notin {"select", "acquire", "write"}
=============================================================================
