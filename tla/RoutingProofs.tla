--------------------------- MODULE RoutingProofs ----------------------------
(***************************************************************************)
(* Proofs about RoutingSession, for any finite number of sessions, any     *)
(* replicas and every fencing mode.  The inductive invariant says of every *)
(* place in serveRouting and dispatchRead which connection is held and     *)
(* which replica is chosen (Placed), and how the session's last commit,    *)
(* its fence and what its target has replayed are ordered (Fenced); the    *)
(* counts of LentOnce and InFlightExact rest on Placed.                    *)
(***************************************************************************)
EXTENDS RoutingSession, Counting

\* What session s holds and has chosen, by where it is.
Placed(s) ==
    /\ sess[s].pc = "done" => sess[s].held = None /\ sess[s].target = None
    /\ sess[s].pc = "startup" => sess[s].held = Primary /\ sess[s].target = None
    /\ sess[s].pc = "idle" => sess[s].held \in {Primary, None} /\ sess[s].target = None
    /\ sess[s].pc \in {"select", "acquire"} => sess[s].held = None
    /\ sess[s].pc = "select" => sess[s].target = None /\ sess[s].stmt = "read"
    /\ sess[s].pc = "acquire" =>
         sess[s].target = Primary \/ (sess[s].target \in Replicas /\ sess[s].stmt = "read")
    /\ sess[s].pc \in {"write", "sent", "relay"} =>
         \/ sess[s].held = Primary /\ sess[s].target \in {Primary, None}
         \/ /\ sess[s].held \in Replicas /\ sess[s].target = sess[s].held
            /\ sess[s].stmt = "read"
    /\ sess[s].pc \in {"lsn", "pinned"} =>
         sess[s].held = Primary /\ sess[s].target \in {Primary, None}
    /\ sess[s].pc = "lsn" => sess[s].tx = "I"
    /\ sess[s].tx # "I" => sess[s].held = Primary

\* How positions are ordered for session s: its last commit is behind its fence,
\* or the fence is about to advance, or could not; and in strict mode the replica
\* it has chosen has replayed the fence.
Fenced(s) ==
    /\ sess[s].fence <= wal /\ sess[s].lastWrite <= wal
    /\ \/ sess[s].lastWrite <= sess[s].fence
       \/ sess[s].blind
       \/ sess[s].pc = "pinned" \/ sess[s].pc = "lsn"
       \/ /\ sess[s].pc = "relay" /\ sess[s].held = Primary /\ sess[s].wrote
          /\ sess[s].tx = "I" /\ sess[s].stmt # "set"
    /\ sess[s].pc = "sent" /\ sess[s].held = Primary /\ sess[s].stmt # "read"
         => sess[s].wrote
    /\ Mode = "strict" /\ sess[s].target \in Replicas
         => sess[s].fence <= replay[sess[s].target]

Local(s) == Placed(s) /\ Fenced(s)

Inv == /\ TypeOK /\ ViewSound
       /\ \A s \in Sessions : Local(s)
       /\ LentOnce /\ InFlightExact
-----------------------------------------------------------------------------
(* What a session's step does to the shared state *)

\* s moves on by itself: its counts follow what it holds and has chosen, and
\* positions do not go back.
Moves(s) ==
    /\ sess' \in [Sessions -> Session]
    /\ \A t \in Sessions \ {s} : sess'[t] = sess[t]
    /\ lent' \in [Backends -> Int]
    /\ \A b \in Backends :
         lent'[b] = lent[b] + Is(sess'[s].held, b) - Is(sess[s].held, b)
    /\ inFlight' \in [Replicas -> Nat]
    /\ \A r \in Replicas :
         inFlight'[r] = inFlight[r] + Is(sess'[s].target, r) - Is(sess[s].target, r)
    /\ wal' \in Nat /\ wal <= wal' /\ UNCHANGED <<replay, status, up>>

\* What a session must show for a move of its own to keep the invariant.
LEMMA MovesKeeps ==
    ASSUME Inv, NEW s \in Sessions, Moves(s), Local(s)'
    PROVE  Inv'
<1> USE RoutingAssumption
<1>1. TypeOK' /\ ViewSound'
  BY DEF Inv, TypeOK, ViewTypeOK, ViewSound, Moves, Status
<1>2. ASSUME NEW t \in Sessions PROVE Local(t)'
  <2>1. CASE t = s
    BY <2>1
  <2>2. CASE t # s
    <3>1. sess'[t] = sess[t] /\ wal <= wal' /\ wal' \in Nat /\ replay' = replay
      BY <2>2 DEF Moves
    <3>2. sess[t] \in Session /\ wal \in Nat
      BY DEF Inv, TypeOK, ViewTypeOK
    <3>3. Local(t)
      BY DEF Inv
    <3>4. Placed(t)'
      BY <3>1, <3>3 DEF Local, Placed
    <3>5. Fenced(t)'
      BY <3>1, <3>2, <3>3 DEF Local, Fenced, Session
    <3>6. QED
      BY <3>4, <3>5 DEF Local
  <2>3. QED
    BY <2>1, <2>2
<1>3. LentOnce'
  <2> SUFFICES ASSUME NEW b \in Backends
               PROVE lent'[b] = Cardinality({t \in Sessions : sess'[t].held = b})
    BY DEF LentOnce
  <2> DEFINE f == [t \in Sessions |-> sess[t].held]
             g == [t \in Sessions |-> sess'[t].held]
  <2>1. \A t \in Sessions \ {s} : g[t] = f[t]
    BY DEF Moves
  <2>2. Count(Sessions, g, b) = Count(Sessions, f, b) + Is(g[s], b) - Is(f[s], b)
    <3> HIDE DEF f, g
    <3>1. IsFiniteSet(Sessions)
      OBVIOUS
    <3>2. QED
      BY <2>1, <3>1, Recount
  <2>3. /\ Count(Sessions, g, b) = Cardinality({t \in Sessions : sess'[t].held = b})
        /\ Count(Sessions, f, b) = Cardinality({t \in Sessions : sess[t].held = b})
        /\ g[s] = sess'[s].held /\ f[s] = sess[s].held
    <3>1. /\ {t \in Sessions : g[t] = b} = {t \in Sessions : sess'[t].held = b}
          /\ {t \in Sessions : f[t] = b} = {t \in Sessions : sess[t].held = b}
          /\ g[s] = sess'[s].held /\ f[s] = sess[s].held
      OBVIOUS
    <3>2. QED
      BY <3>1, Zenon DEF Count
  <2>4. /\ lent[b] = Cardinality({t \in Sessions : sess[t].held = b})
        /\ lent'[b] = lent[b] + Is(sess'[s].held, b) - Is(sess[s].held, b)
    BY DEF Inv, LentOnce, Moves
  <2> HIDE DEF f, g
  <2>5. QED
    BY <2>2, <2>3, <2>4
<1>4. InFlightExact'
  <2> SUFFICES ASSUME NEW r \in Replicas
               PROVE inFlight'[r] = Cardinality({t \in Sessions : sess'[t].target = r})
    BY DEF InFlightExact
  <2> DEFINE f == [t \in Sessions |-> sess[t].target]
             g == [t \in Sessions |-> sess'[t].target]
  <2>1. \A t \in Sessions \ {s} : g[t] = f[t]
    BY DEF Moves
  <2>2. Count(Sessions, g, r) = Count(Sessions, f, r) + Is(g[s], r) - Is(f[s], r)
    <3> HIDE DEF f, g
    <3>1. IsFiniteSet(Sessions)
      OBVIOUS
    <3>2. QED
      BY <2>1, <3>1, Recount
  <2>3. /\ Count(Sessions, g, r) = Cardinality({t \in Sessions : sess'[t].target = r})
        /\ Count(Sessions, f, r) = Cardinality({t \in Sessions : sess[t].target = r})
        /\ g[s] = sess'[s].target /\ f[s] = sess[s].target
    <3>1. /\ {t \in Sessions : g[t] = r} = {t \in Sessions : sess'[t].target = r}
          /\ {t \in Sessions : f[t] = r} = {t \in Sessions : sess[t].target = r}
          /\ g[s] = sess'[s].target /\ f[s] = sess[s].target
      OBVIOUS
    <3>2. QED
      BY <3>1, Zenon DEF Count
  <2>4. /\ inFlight[r] = Cardinality({t \in Sessions : sess[t].target = r})
        /\ inFlight'[r] = inFlight[r] + Is(sess'[s].target, r) - Is(sess[s].target, r)
    BY DEF Inv, InFlightExact, Moves
  <2> HIDE DEF f, g
  <2>5. QED
    BY <2>2, <2>3, <2>4
<1>5. QED
  BY <1>1, <1>2, <1>3, <1>4 DEF Inv

\* A replica that a session has chosen is counted.
LEMMA ChosenCounted ==
    ASSUME Inv, NEW s \in Sessions, sess[s].target \in Replicas
    PROVE  inFlight[sess[s].target] >= 1
<1> DEFINE f == [t \in Sessions |-> sess[t].target]
           r == sess[s].target
<1>1. f[s] = r /\ {t \in Sessions : f[t] = r} = {t \in Sessions : sess[t].target = r}
  OBVIOUS
<1>2. inFlight[r] = Cardinality({t \in Sessions : sess[t].target = r})
  BY DEF Inv, InFlightExact
<1> HIDE DEF f, r
<1>3. Count(Sessions, f, r) >= 1
  <2>1. IsFiniteSet(Sessions)
    BY RoutingAssumption
  <2>2. \A t \in Sessions \ {s} : f[t] = f[t]
    OBVIOUS
  <2>3. QED
    BY <1>1, <2>1, <2>2, Recount, Zenon
<1>4. QED
  BY <1>1, <1>2, <1>3, Zenon DEF r, Count
-----------------------------------------------------------------------------
(* The inductive invariant *)

\* The invariant holds before any session has sent a statement.
LEMMA InvInit == Init => Inv
<1> SUFFICES ASSUME Init PROVE Inv
  OBVIOUS
<1> USE RoutingAssumption
<1>1. NoSession \in Session /\ NoSession.held = None /\ NoSession.target = None
  BY DEF NoSession, Session, Statements
<1>2. TypeOK /\ ViewSound
  BY <1>1 DEF Init, ViewInit, TypeOK, ViewTypeOK, ViewSound, Status, Unpolled
<1>3. ASSUME NEW s \in Sessions PROVE Local(s)
  BY <1>3 DEF Init, ViewInit, NoSession, Local, Placed, Fenced, Backends
<1>4. LentOnce
  <2> SUFFICES ASSUME NEW b \in Backends
               PROVE lent[b] = Cardinality({s \in Sessions : sess[s].held = b})
    BY DEF LentOnce
  <2>1. {s \in Sessions : sess[s].held = b} = {} /\ lent[b] = 0
    BY <1>1 DEF Init
  <2>2. QED
    BY <2>1, FS_EmptySet
<1>5. InFlightExact
  <2> SUFFICES ASSUME NEW r \in Replicas
               PROVE inFlight[r] = Cardinality({s \in Sessions : sess[s].target = r})
    BY Zenon DEF InFlightExact
  <2>1. {s \in Sessions : sess[s].target = r} = {} /\ inFlight[r] = 0
    BY <1>1 DEF Init, Backends
  <2>2. QED
    BY <2>1, FS_EmptySet
<1>6. QED
  BY <1>2, <1>3, <1>4, <1>5 DEF Inv

\* What the invariant says of one session, in the form the steps use.
Facts(s) ==
    /\ sess \in [Sessions -> Session] /\ sess[s] \in Session
    /\ lent \in [Backends -> Int] /\ inFlight \in [Replicas -> Nat]
    /\ wal \in Nat /\ replay \in [Replicas -> Nat]
    /\ Placed(s) /\ Fenced(s)
    /\ Primary \in Backends /\ Primary \notin Replicas /\ None \notin Backends
    /\ Replicas \subseteq Backends /\ Backends = {Primary} \cup Replicas
    /\ sess[s].target \in Replicas => inFlight[sess[s].target] >= 1

\* What the invariant says of one session, in the form the steps use.
LEMMA SessionFacts ==
    ASSUME Inv, NEW s \in Sessions
    PROVE  Facts(s)
<1>1. Placed(s) /\ Fenced(s) /\ TypeOK
  BY DEF Inv, Local
<1>2. QED
  BY <1>1, RoutingAssumption, ChosenCounted DEF Facts, TypeOK, ViewTypeOK, Backends

\* Releasing what the policy chose, as the session's target is cleared.
LEMMA PolicyReleaseFacts ==
    ASSUME Inv, NEW s \in Sessions, PolicyRelease(sess[s].target), NEW v, v \notin Replicas
    PROVE  /\ inFlight' \in [Replicas -> Nat]
           /\ \A r \in Replicas : inFlight'[r] = inFlight[r] + Is(v, r) - Is(sess[s].target, r)
<1>1. CASE sess[s].target \in Replicas
  BY <1>1, SessionFacts DEF Facts, PolicyRelease, Is
<1>2. CASE sess[s].target \notin Replicas
  BY <1>2, SessionFacts DEF Facts, PolicyRelease, Is
<1>3. QED
  BY <1>1, <1>2

\* A session that has chosen no replica leaves the counts alone.
LEMMA NoChoiceFacts ==
    ASSUME Inv, NEW s \in Sessions, UNCHANGED inFlight, NEW v, v \notin Replicas,
           sess[s].target \notin Replicas
    PROVE  /\ inFlight' \in [Replicas -> Nat]
           /\ \A r \in Replicas : inFlight'[r] = inFlight[r] + Is(v, r) - Is(sess[s].target, r)
BY SessionFacts DEF Facts, Is

\* Giving back what the session holds, as it comes to hold nothing.
LEMMA GiveBackFacts ==
    ASSUME Inv, NEW s \in Sessions, sess[s].held # None, GiveBack(sess[s].held)
    PROVE  /\ lent' \in [Backends -> Int]
           /\ \A b \in Backends : lent'[b] = lent[b] + Is(None, b) - Is(sess[s].held, b)
BY SessionFacts DEF Facts, GiveBack, Is, Session

\* The session is over, on whatever path.
LEMMA EndKeeps ==
    ASSUME Inv, NEW s \in Sessions, End(s), UNCHANGED <<viewVars, up>>,
           PolicyRelease(sess[s].target) \/ (UNCHANGED inFlight /\ sess[s].target \notin Replicas)
    PROVE  Inv'
<1>0. Facts(s)
  BY SessionFacts
<1> USE <1>0 DEF Facts
<1>1. NoSession \in Session /\ NoSession.held = None /\ NoSession.target = None
  BY DEF NoSession, Session, Statements
<1>2. sess' \in [Sessions -> Session] /\ sess'[s] = NoSession
      /\ \A t \in Sessions \ {s} : sess'[t] = sess[t]
  BY <1>1 DEF End
<1>3. lent' \in [Backends -> Int]
      /\ \A b \in Backends : lent'[b] = lent[b] + Is(None, b) - Is(sess[s].held, b)
  <2>1. CASE sess[s].held # None
    BY <2>1, GiveBackFacts DEF End
  <2>2. CASE sess[s].held = None
    BY <2>2 DEF End, Is
  <2>3. QED
    BY <2>1, <2>2
<1>4. inFlight' \in [Replicas -> Nat]
      /\ \A r \in Replicas : inFlight'[r] = inFlight[r] + Is(None, r) - Is(sess[s].target, r)
  BY PolicyReleaseFacts, NoChoiceFacts
<1>5. Moves(s)
  BY <1>1, <1>2, <1>3, <1>4 DEF Moves, viewVars
<1>6. Local(s)'
  BY <1>1, <1>2 DEF Local, Placed, Fenced, NoSession, viewVars
<1>7. QED
  BY <1>5, <1>6, MovesKeeps

\* The counts follow a session whose local state becomes R.
LentFor(s, R) ==
    /\ lent' \in [Backends -> Int]
    /\ \A b \in Backends : lent'[b] = lent[b] + Is(R.held, b) - Is(sess[s].held, b)

InFlightFor(s, R) ==
    /\ inFlight' \in [Replicas -> Nat]
    /\ \A r \in Replicas : inFlight'[r] = inFlight[r] + Is(R.target, r) - Is(sess[s].target, r)

\* A step that holds what it held, and one that has chosen what it had.
LEMMA HeldSame ==
    ASSUME Inv, NEW s \in Sessions, NEW R, R.held = sess[s].held, UNCHANGED lent
    PROVE  LentFor(s, R)
BY SessionFacts DEF Facts, LentFor, Is

\* A step that neither enters nor leaves a replica needs no change of its count.
LEMMA ChosenSame ==
    ASSUME Inv, NEW s \in Sessions, NEW R, UNCHANGED inFlight,
           \/ R.target = sess[s].target
           \/ R.target \notin Replicas /\ sess[s].target \notin Replicas
    PROVE  InFlightFor(s, R)
BY SessionFacts DEF Facts, InFlightFor, Is

\* The local state of s becomes R, and the counts follow.
LEMMA BecomesKeeps ==
    ASSUME Inv, NEW s \in Sessions, NEW R \in Session, sess' = [sess EXCEPT ![s] = R],
           LentFor(s, R), InFlightFor(s, R), wal' \in Nat, wal <= wal',
           UNCHANGED <<replay, status, up>>, Local(s)'
    PROVE  Inv'
<1>1. sess'[s] = R /\ sess' \in [Sessions -> Session]
      /\ \A t \in Sessions \ {s} : sess'[t] = sess[t]
  BY SessionFacts DEF Facts
<1>2. Moves(s)
  BY <1>1 DEF Moves, LentFor, InFlightFor
<1>3. QED
  BY <1>2, MovesKeeps

\* What a statement can do: only a write, or the end of a transaction that wrote,
\* commits; only BEGIN opens a transaction.
LEMMA OutcomeFacts ==
    ASSUME NEW t \in {"I", "T", "W", "E"}, NEW k \in Statements, NEW o \in Outcomes(t, k)
    PROVE  /\ o[1] \in {"I", "T", "W", "E"} /\ o[2] \in BOOLEAN
           /\ o[2] => o[1] = "I" /\ k \in {"write", "end"}
           /\ o[1] # "I" => t # "I" \/ k = "begin"
<1>1. CASE k = "write"
  BY <1>1, Zenon DEF Outcomes
<1>2. CASE k = "begin"
  <2> DEFINE x == IF t = "I" THEN "T" ELSE t
  <2>1. o = <<x, FALSE>>
    BY <1>2, Zenon DEF Outcomes
  <2>2. x \in {"I", "T", "W", "E"}
    OBVIOUS
  <2> HIDE DEF x
  <2>3. QED
    BY <1>2, <2>1, <2>2
<1>3. CASE k = "end"
  BY <1>3, Zenon DEF Outcomes
<1>4. CASE k \notin {"write", "begin", "end"}
  BY <1>4, Zenon DEF Outcomes
<1>5. QED
  BY <1>1, <1>2, <1>3, <1>4

\* The session after its connection went back to the pool.
LEMMA ReleasedFacts ==
    ASSUME Inv, NEW s \in Sessions
    PROVE  /\ Released(s) \in Session /\ Released(s).pc = "idle"
           /\ Released(s).held = None /\ Released(s).target = None
           /\ Released(s).tx = sess[s].tx /\ Released(s).fence = sess[s].fence
           /\ Released(s).lastWrite = sess[s].lastWrite
           /\ Released(s).blind = sess[s].blind
<1>1. sess[s] \in Session /\ "read" \in Statements /\ {} \in SUBSET Replicas
  BY SessionFacts DEF Facts, Statements
<1>2. QED
  BY <1>1, Zenon DEF Released, Session

\* A step of session s.
LEMMA SessionStep ==
    ASSUME Inv, NEW s \in Sessions, SessionNext(s)
    PROVE  Inv'
<1>0. Facts(s)
  BY SessionFacts
<1> USE <1>0 DEF Facts
<1>1. CASE Connect(s)
  <2> DEFINE R == [NoSession EXCEPT !.pc = "startup", !.held = Primary]
  <2>1. R \in Session /\ R.held = Primary /\ R.target = None /\ R.pc = "startup"
        /\ R.tx = "I" /\ R.fence = 0 /\ R.lastWrite = 0
    BY ZenonT(40) DEF NoSession, Session, Statements
  <2>2. sess' = [sess EXCEPT ![s] = R] /\ sess[s].held = None /\ sess[s].target = None
    BY <1>1 DEF Connect, Placed, NoSession
  <2>3. Moves(s)
    BY <1>1, <2>1, <2>2 DEF Connect, Moves, Is, viewVars
  <2>4. Local(s)'
    BY <1>1, <2>1, <2>2 DEF Connect, Local, Placed, Fenced, viewVars
  <2>5. QED
    BY <2>3, <2>4, MovesKeeps
<1>2. CASE CompleteStartup(s)
  <2> DEFINE R == [NoSession EXCEPT !.pc = "idle"]
  <2>1. R \in Session /\ R.held = None /\ R.target = None /\ R.pc = "idle"
        /\ R.tx = "I" /\ R.fence = 0 /\ R.lastWrite = 0
    BY ZenonT(40) DEF NoSession, Session, Statements
  <2>2. sess' = [sess EXCEPT ![s] = R] /\ sess[s].held = Primary /\ sess[s].target = None
    BY <1>2 DEF CompleteStartup, Placed
  <2>3. Moves(s)
    BY <1>2, <2>1, <2>2, GiveBackFacts, NoChoiceFacts
    DEF CompleteStartup, Moves, viewVars
  <2>4. Local(s)'
    BY <1>2, <2>1, <2>2 DEF CompleteStartup, Local, Placed, Fenced, viewVars
  <2>5. QED
    BY <2>3, <2>4, MovesKeeps
<1>3. CASE ClientGone(s)
  BY <1>3, EndKeeps DEF ClientGone, Placed
<1>4. ASSUME NEW k \in Statements, Query(s, k) PROVE Inv'
  <2> DEFINE t == IF sess[s].held = None /\ k # "read" THEN Primary ELSE None
             p == IF sess[s].held # None THEN "write"
                  ELSE IF k = "read" THEN "select" ELSE "acquire"
             R == [sess[s] EXCEPT !.stmt = k, !.target = t, !.exclude = {}, !.pc = p]
  <2>1. /\ t \in Backends \cup {None} /\ t \notin Replicas
        /\ p \in {"write", "select", "acquire"} /\ {} \in SUBSET Replicas
        /\ p = "write" => sess[s].held # None /\ t = None
        /\ p = "select" => sess[s].held = None /\ t = None /\ k = "read"
        /\ p = "acquire" => sess[s].held = None /\ t = Primary
    OBVIOUS
  <2>2. sess' = [sess EXCEPT ![s] = R]
    BY <1>4, Zenon DEF Query
  <2>3. sess[s].target = None /\ sess[s].held \in {Primary, None}
        /\ (sess[s].lastWrite <= sess[s].fence \/ sess[s].blind)
        /\ UNCHANGED <<wal, replay, status, lent, inFlight, up>>
    BY <1>4 DEF Query, Placed, Fenced, viewVars
  <2> HIDE DEF t, p
  <2>4. /\ R \in Session /\ R.held = sess[s].held /\ R.stmt = k
        /\ R.target = t /\ R.pc = p
        /\ R.tx = sess[s].tx /\ R.fence = sess[s].fence /\ R.lastWrite = sess[s].lastWrite
        /\ R.blind = sess[s].blind
    BY <2>1, ZenonT(40) DEF Session
  <2> HIDE DEF R
  <2>5. sess'[s] = R
    BY <2>2
  <2>6. Placed(s)'
    BY <2>1, <2>3, <2>4, <2>5, Zenon DEF Placed
  <2>7. Fenced(s)'
    BY <2>1, <2>3, <2>4, <2>5, Zenon DEF Fenced
  <2>8. LentFor(s, R) /\ InFlightFor(s, R)
    BY <2>1, <2>3, <2>4, HeldSame, ChosenSame, Zenon
  <2>9. wal' \in Nat /\ wal <= wal' /\ Local(s)'
    BY <2>3, <2>6, <2>7 DEF Local
  <2>10. QED
    BY <2>2, <2>3, <2>4, <2>8, <2>9, BecomesKeeps, Zenon
<1>5. CASE Select(s)
  <2> DEFINE candidates(e) == {r \in e \ sess[s].exclude :
                                 status[r].role = "replica" /\ status[r].healthy}
  <2>0. PICK eligible \in Eligible(s) :
          \E t \in IF candidates(eligible) = {} THEN {Primary} ELSE candidates(eligible) :
            /\ sess' = [sess EXCEPT ![s].pc = "acquire", ![s].target = t]
            /\ IF t = Primary THEN UNCHANGED inFlight ELSE Choose(t)
    BY <1>5, Zenon DEF Select
  <2>1. PICK t \in IF candidates(eligible) = {} THEN {Primary} ELSE candidates(eligible) :
            /\ sess' = [sess EXCEPT ![s].pc = "acquire", ![s].target = t]
            /\ IF t = Primary THEN UNCHANGED inFlight ELSE Choose(t)
    BY <2>0, Zenon
  <2>2. eligible \subseteq Replicas
        /\ (Mode = "strict" => \A r \in eligible : status[r].lsn >= sess[s].fence)
    BY RoutingAssumption DEF Eligible
  <2>3. /\ t = Primary \/ t \in Replicas
        /\ Mode = "strict" /\ t \in Replicas => status[t].lsn >= sess[s].fence
    BY <2>2
  <2>4. \A r \in Replicas : status[r].lsn <= replay[r] /\ status[r].lsn \in Nat
                            /\ replay[r] \in Nat
    BY Zenon DEF Inv, ViewSound, TypeOK, ViewTypeOK, Status
  <2> DEFINE R == [sess[s] EXCEPT !.pc = "acquire", !.target = t]
  <2>5. /\ R \in Session /\ R.held = sess[s].held /\ R.stmt = sess[s].stmt
        /\ R.target = t /\ R.pc = "acquire"
        /\ R.tx = sess[s].tx /\ R.fence = sess[s].fence /\ R.lastWrite = sess[s].lastWrite
        /\ R.blind = sess[s].blind
    BY <2>3, ZenonT(40) DEF Session
  <2>6. sess' = [sess EXCEPT ![s] = R]
    BY <2>1, Zenon
  <2>7. sess[s].target = None /\ sess[s].held = None /\ sess[s].stmt = "read"
        /\ (sess[s].lastWrite <= sess[s].fence \/ sess[s].blind)
    BY <1>5 DEF Select, Placed, Fenced
  <2> HIDE DEF R
  <2>8. UNCHANGED <<wal, replay, status, lent, up>> /\ sess'[s] = R
    BY <1>5, <2>6, Zenon DEF Select, viewVars
  <2>9. InFlightFor(s, R)
    BY <2>1, <2>3, <2>5, <2>7 DEF Choose, Is, InFlightFor
  <2>10. sess[s].fence \in Nat
    BY DEF Session
  <2>11. Placed(s)'
    BY <2>3, <2>5, <2>7, <2>8, Zenon DEF Placed
  <2>12. Fenced(s)'
    BY <2>3, <2>4, <2>5, <2>7, <2>8, <2>10 DEF Fenced
  <2>13. LentFor(s, R)
    BY <2>5, <2>8, HeldSame, Zenon
  <2>14. wal' \in Nat /\ wal <= wal' /\ Local(s)'
    BY <2>8, <2>11, <2>12 DEF Local
  <2>15. QED
    BY <2>5, <2>6, <2>8, <2>9, <2>13, <2>14, BecomesKeeps, Zenon
<1>6. CASE AcquireOK(s)
  <2> DEFINE R == [sess[s] EXCEPT !.pc = "write", !.held = sess[s].target, !.broken = FALSE]
  <2>1. /\ R \in Session /\ R.held = sess[s].target /\ R.stmt = sess[s].stmt
        /\ R.target = sess[s].target /\ R.pc = "write"
        /\ R.tx = sess[s].tx /\ R.fence = sess[s].fence /\ R.lastWrite = sess[s].lastWrite
        /\ R.blind = sess[s].blind
    BY ZenonT(40) DEF Session
  <2>2. sess' = [sess EXCEPT ![s] = R]
    BY <1>6, Zenon DEF AcquireOK
  <2>3. /\ sess[s].held = None /\ sess[s].target \in Backends
        /\ sess[s].target = Primary \/ (sess[s].target \in Replicas /\ sess[s].stmt = "read")
        /\ sess[s].lastWrite <= sess[s].fence \/ sess[s].blind
    BY <1>6 DEF AcquireOK, Placed, Fenced
  <2> HIDE DEF R
  <2>4. UNCHANGED <<wal, replay, status, inFlight, up>> /\ sess'[s] = R
    BY <1>6, <2>2, Zenon DEF AcquireOK, viewVars
  <2>5. LentFor(s, R)
    BY <1>6, <2>1, <2>3 DEF AcquireOK, LentFor, Is
  <2>6. Placed(s)'
    BY <2>1, <2>3, <2>4, Zenon DEF Placed
  <2>7. Fenced(s)'
    BY <2>1, <2>3, <2>4, Zenon DEF Fenced
  <2>8. InFlightFor(s, R)
    BY <2>1, <2>4, ChosenSame
  <2>9. wal' \in Nat /\ wal <= wal' /\ Local(s)'
    BY <2>4, <2>6, <2>7 DEF Local
  <2>10. QED
    BY <2>1, <2>2, <2>4, <2>5, <2>8, <2>9, BecomesKeeps, Zenon
<1>7. ASSUME PolicyRelease(sess[s].target), sess[s].target \in Replicas, TryNext(s),
             sess[s].pc \in {"acquire", "write"}, UNCHANGED <<viewVars, up>>,
             \/ sess[s].held = None /\ UNCHANGED lent
             \/ sess[s].held # None /\ GiveBack(sess[s].held)
      PROVE  Inv'
  <2> DEFINE R == [sess[s] EXCEPT !.pc = "select", !.target = None, !.held = None,
                                  !.exclude = @ \cup {sess[s].target}]
  <2>1. /\ R \in Session /\ R.held = None /\ R.stmt = sess[s].stmt
        /\ R.target = None /\ R.pc = "select"
        /\ R.tx = sess[s].tx /\ R.fence = sess[s].fence /\ R.lastWrite = sess[s].lastWrite
        /\ R.blind = sess[s].blind
    BY <1>7, Zenon DEF Session
  <2>2. sess' = [sess EXCEPT ![s] = R]
    BY <1>7, Zenon DEF TryNext
  <2>3. /\ sess[s].stmt = "read" /\ sess[s].tx = "I"
        /\ sess[s].lastWrite <= sess[s].fence \/ sess[s].blind
    BY <1>7, Zenon DEF Placed, Fenced
  <2> HIDE DEF R
  <2>4. lent' \in [Backends -> Int]
        /\ \A b \in Backends : lent'[b] = lent[b] + Is(None, b) - Is(sess[s].held, b)
    BY <1>7, GiveBackFacts DEF Is
  <2>5. Moves(s)
    BY <1>7, <2>1, <2>2, <2>4, PolicyReleaseFacts DEF Moves, viewVars
  <2>6. Local(s)'
    BY <1>7, <2>1, <2>2, <2>3, Zenon DEF Local, Placed, Fenced, viewVars
  <2>7. QED
    BY <2>5, <2>6, MovesKeeps
<1>8. CASE AcquireFail(s)
  <2>1. sess[s].held = None
    BY <1>8, Zenon DEF AcquireFail, Placed
  <2>2. CASE sess[s].target \in Replicas
    BY <1>7, <1>8, <2>1, <2>2, Zenon DEF AcquireFail
  <2>3. CASE sess[s].target \notin Replicas
    BY <1>8, <2>3, EndKeeps DEF AcquireFail
  <2>4. QED
    BY <2>2, <2>3
<1>9. CASE WriteFail(s)
  <2>1. sess[s].held # None
    BY <1>9, Zenon DEF WriteFail, Placed
  <2>2. CASE sess[s].target \in Replicas
    BY <1>7, <1>9, <2>1, <2>2, Zenon DEF WriteFail
  <2>3. CASE sess[s].target \notin Replicas
    BY <1>9, <2>3, EndKeeps DEF WriteFail
  <2>4. QED
    BY <2>2, <2>3
<1>10. CASE WriteOK(s)
  <2> DEFINE p == IF sess[s].stmt = "extended" THEN "pinned" ELSE "sent"
             w == sess[s].wrote \/ (sess[s].stmt # "read" /\ sess[s].held = Primary)
             R == [sess[s] EXCEPT !.pc = p, !.wrote = w]
  <2>1. sess' = [sess EXCEPT ![s] = R]
    BY <1>10, Zenon DEF WriteOK
  <2>2. /\ p \in {"pinned", "sent"} /\ w \in BOOLEAN
        /\ p = "pinned" => sess[s].stmt = "extended"
        /\ sess[s].stmt # "read" /\ sess[s].held = Primary => w
    OBVIOUS
  <2> HIDE DEF p, w
  <2>3. /\ R \in Session /\ R.held = sess[s].held /\ R.target = sess[s].target
        /\ R.stmt = sess[s].stmt /\ R.pc = p /\ R.wrote = w
        /\ R.tx = sess[s].tx /\ R.fence = sess[s].fence /\ R.lastWrite = sess[s].lastWrite
        /\ R.blind = sess[s].blind
    BY <2>2, ZenonT(40) DEF Session
  <2> HIDE DEF R
  <2>4. /\ UNCHANGED <<wal, replay, status, lent, inFlight, up>> /\ sess'[s] = R
        /\ sess[s].pc = "write"
    BY <1>10, <2>1, Zenon DEF WriteOK, viewVars
  <2>5. Placed(s)'
    BY <2>2, <2>3, <2>4, Zenon DEF Placed
  <2>6. Fenced(s)'
    BY <2>2, <2>3, <2>4, Zenon DEF Fenced
  <2>7. LentFor(s, R) /\ InFlightFor(s, R)
    BY <2>3, <2>4, HeldSame, ChosenSame
  <2>8. wal' \in Nat /\ wal <= wal' /\ Local(s)'
    BY <2>4, <2>5, <2>6 DEF Local
  <2>9. QED
    BY <2>1, <2>3, <2>4, <2>7, <2>8, BecomesKeeps, Zenon
<1>11. CASE Respond(s)
  <2>1. PICK o \in Outcomes(sess[s].tx, sess[s].stmt) :
          /\ wal' = IF o[2] THEN wal + 1 ELSE wal
          /\ sess' = [sess EXCEPT ![s].pc = "relay", ![s].tx = o[1],
                                  ![s].lastWrite = IF o[2] THEN wal + 1 ELSE @]
    BY <1>11, Zenon DEF Respond
  <2>2. /\ o[1] \in {"I", "T", "W", "E"} /\ o[2] \in BOOLEAN
        /\ o[2] => o[1] = "I" /\ sess[s].stmt \in {"write", "end"}
        /\ o[1] # "I" => sess[s].tx # "I" \/ sess[s].stmt = "begin"
    <3>1. sess[s].tx \in {"I", "T", "W", "E"} /\ sess[s].stmt \in Statements
      BY DEF Session
    <3>2. QED
      BY <3>1, OutcomeFacts
  <2> DEFINE l == IF o[2] THEN wal + 1 ELSE sess[s].lastWrite
             x == o[1]
             R == [sess[s] EXCEPT !.pc = "relay", !.tx = x, !.lastWrite = l]
  <2>3. /\ R \in Session /\ R.held = sess[s].held /\ R.target = sess[s].target
        /\ R.stmt = sess[s].stmt /\ R.pc = "relay" /\ R.wrote = sess[s].wrote
        /\ R.tx = x /\ R.fence = sess[s].fence /\ R.lastWrite = l
        /\ R.blind = sess[s].blind
    <3>1. l \in Nat /\ x \in {"I", "T", "W", "E"}
      BY <2>2 DEF Session
    <3> HIDE DEF l, x
    <3>2. QED
      BY <3>1, ZenonT(40) DEF Session
  <2>4. sess' = [sess EXCEPT ![s] = R]
    BY <2>1, Zenon
  <2> HIDE DEF R
  <2>5. wal' \in Nat /\ wal <= wal'
    BY <2>1
  <2>6. Placed(s)'
    BY <1>11, <2>2, <2>3, <2>4, Zenon DEF Respond, Placed
  <2>7. Fenced(s)'
    <3>1. sess[s].pc = "sent" /\ replay' = replay
          /\ (sess[s].held \in Replicas => sess[s].stmt = "read")
          /\ sess[s].held \in {Primary} \cup Replicas
      BY <1>11 DEF Respond, Placed
    <3>2. sess[s].fence \in Nat /\ sess[s].lastWrite \in Nat
      BY DEF Session
    <3>3. CASE o[2]
      BY <2>1, <2>2, <2>3, <2>4, <2>5, <3>1, <3>2, <3>3 DEF Fenced
    <3>4. CASE ~o[2]
      BY <2>1, <2>2, <2>3, <2>4, <2>5, <3>1, <3>2, <3>4 DEF Fenced
    <3>5. QED
      BY <3>3, <3>4
  <2>8. LentFor(s, R) /\ InFlightFor(s, R)
    BY <1>11, <2>3, HeldSame, ChosenSame DEF Respond
  <2>9. QED
    BY <1>11, <2>3, <2>4, <2>5, <2>6, <2>7, <2>8, BecomesKeeps, Zenon DEF Respond, Local
<1>12. CASE RelayDone(s)
  <2>1. UNCHANGED <<viewVars, up>> /\ PolicyRelease(sess[s].target) /\ sess[s].pc = "relay"
        /\ sess[s].held \in Backends
    BY <1>12 DEF RelayDone, Placed
  <2>2. ASSUME sess[s].stmt = "set" \/ sess[s].tx # "I" \/ (sess[s].held = Primary /\ sess[s].wrote),
               NEW p \in {"pinned", "idle", "lsn"}, NEW k \in Statements,
               sess' = [sess EXCEPT ![s] = [sess[s] EXCEPT !.pc = p, !.stmt = k,
                                                           !.target = None]],
               p = "idle" => sess[s].stmt # "set" /\ sess[s].tx # "I",
               p = "lsn" => sess[s].tx = "I",
               UNCHANGED lent
        PROVE  Inv'
    <3> DEFINE R == [sess[s] EXCEPT !.pc = p, !.stmt = k, !.target = None]
    <3>1. /\ R \in Session /\ R.held = sess[s].held /\ R.target = None /\ R.pc = p
          /\ R.tx = sess[s].tx /\ R.fence = sess[s].fence
          /\ R.lastWrite = sess[s].lastWrite /\ R.blind = sess[s].blind
      BY Zenon DEF Session
    <3>2. sess' = [sess EXCEPT ![s] = R]
      BY <2>2
    <3> HIDE DEF R
    <3>3. sess[s].held = Primary
      BY <2>1, <2>2 DEF Placed
    <3>4. Moves(s)
      BY <2>1, <2>2, <3>1, <3>2, PolicyReleaseFacts DEF Moves, Is, viewVars
    <3>5. Placed(s)'
      BY <2>1, <2>2, <3>1, <3>2, <3>3, Zenon DEF Placed
    <3>6. Fenced(s)'
      BY <2>1, <2>2, <3>1, <3>2, <3>3 DEF Fenced, viewVars
    <3>7. QED
      BY <3>4, <3>5, <3>6, MovesKeeps DEF Local
  <2>3. CASE sess[s].stmt # "set" /\ sess[s].tx = "I"
             /\ ~(sess[s].held = Primary /\ sess[s].wrote)
             /\ sess' = [sess EXCEPT ![s] = Released(s)] /\ GiveBack(sess[s].held)
    <3>1. /\ Released(s) \in Session /\ Released(s).held = None
          /\ Released(s).target = None /\ Released(s).pc = "idle"
          /\ Released(s).tx = sess[s].tx /\ Released(s).fence = sess[s].fence
          /\ Released(s).lastWrite = sess[s].lastWrite
          /\ Released(s).blind = sess[s].blind
      BY ReleasedFacts, Zenon
    <3>2. Moves(s)
      BY <2>1, <2>3, <3>1, GiveBackFacts, PolicyReleaseFacts DEF Moves, viewVars
    <3>3. Local(s)'
      BY <2>1, <2>3, <3>1, Zenon DEF Local, Placed, Fenced, viewVars
    <3>4. QED
      BY <3>2, <3>3, MovesKeeps
  <2>4. sess[s].stmt \in Statements /\ "read" \in Statements
        /\ [sess[s] EXCEPT !.stmt = sess[s].stmt] = sess[s]
    BY DEF Session, Statements
  <2>5. CASE /\ sess[s].stmt = "set" /\ UNCHANGED lent
             /\ sess' = [sess EXCEPT ![s].pc = "pinned", ![s].target = None]
    <3>1. [sess[s] EXCEPT !.pc = "pinned", !.target = None]
            = [sess[s] EXCEPT !.pc = "pinned", !.stmt = sess[s].stmt, !.target = None]
      BY Zenon DEF Session
    <3>2. sess' = [sess EXCEPT ![s] = [sess[s] EXCEPT !.pc = "pinned", !.target = None]]
      BY <2>5, Zenon
    <3>3. QED
      BY <2>2, <2>4, <2>5, <3>1, <3>2, ZenonT(40)
  <2>6. CASE /\ sess[s].stmt # "set" /\ sess[s].tx # "I" /\ UNCHANGED lent
             /\ sess' = [sess EXCEPT ![s].pc = "idle", ![s].stmt = "read", ![s].target = None]
    BY <2>2, <2>4, <2>6, Zenon
  <2>7. CASE /\ sess[s].stmt # "set" /\ sess[s].tx = "I" /\ UNCHANGED lent
             /\ sess[s].held = Primary /\ sess[s].wrote
             /\ sess' = [sess EXCEPT ![s].pc = "lsn", ![s].target = None]
    <3>1. [sess[s] EXCEPT !.pc = "lsn", !.target = None]
            = [sess[s] EXCEPT !.pc = "lsn", !.stmt = sess[s].stmt, !.target = None]
      BY Zenon DEF Session
    <3>2. sess' = [sess EXCEPT ![s] = [sess[s] EXCEPT !.pc = "lsn", !.target = None]]
      BY <2>7, Zenon
    <3>3. QED
      BY <2>2, <2>4, <2>7, <3>1, <3>2, Zenon
  <2>8. QED
    BY <1>12, <2>3, <2>5, <2>6, <2>7, Zenon DEF RelayDone
<1>13. CASE RelayFail(s)
  BY <1>13, EndKeeps DEF RelayFail
<1>14. ASSUME NEW f \in Nat, NEW bl \in BOOLEAN, sess[s].pc = "lsn",
              sess' = [sess EXCEPT ![s] = [Released(s) EXCEPT !.blind = bl, !.fence = f]],
              GiveBack(sess[s].held), UNCHANGED <<viewVars, inFlight, up>>,
              f <= wal, bl \/ sess[s].lastWrite <= f
       PROVE  Inv'
  <2> DEFINE Q == Released(s)
             R == [Q EXCEPT !.blind = bl, !.fence = f]
  <2>1. /\ R \in Session /\ R.held = None /\ R.target = None /\ R.pc = "idle"
        /\ R.tx = sess[s].tx /\ R.fence = f /\ R.lastWrite = sess[s].lastWrite
        /\ R.blind = bl
    <3>1. f \in Nat /\ bl \in BOOLEAN
      BY <1>14
    <3>2. Q \in Session /\ Q.held = None /\ Q.target = None /\ Q.pc = "idle"
          /\ Q.tx = sess[s].tx /\ Q.lastWrite = sess[s].lastWrite
      BY ReleasedFacts
    <3> HIDE DEF Q
    <3>3. R \in Session
      BY <3>1, <3>2, ZenonT(40) DEF Session
    <3>4. QED
      BY <3>1, <3>2, ZenonT(40) DEF Session
  <2>2. sess' = [sess EXCEPT ![s] = R]
    BY <1>14
  <2> HIDE DEF R
  <2>3. sess[s].held = Primary /\ sess[s].target \notin Replicas /\ sess[s].tx = "I"
    BY <1>14 DEF Placed
  <2>4. UNCHANGED <<wal, replay, status, inFlight, up>> /\ sess'[s] = R
    BY <1>14, <2>2 DEF viewVars
  <2>5. LentFor(s, R) /\ InFlightFor(s, R)
    <3>1. LentFor(s, R)
      BY <1>14, <2>1, <2>3, GiveBackFacts DEF LentFor
    <3>2. R.target \notin Replicas
      BY <2>1
    <3>3. InFlightFor(s, R)
      BY <2>3, <2>4, <3>2, ChosenSame, Zenon
    <3>4. QED
      BY <3>1, <3>3
  <2>6. Local(s)'
    BY <1>14, <2>1, <2>3, <2>4, Zenon DEF Local, Placed, Fenced
  <2>7. wal' \in Nat /\ wal <= wal'
    BY <2>4
  <2>8. QED
    BY <2>1, <2>2, <2>4, <2>5, <2>6, <2>7, BecomesKeeps, Zenon
<1>15. CASE AdvanceFence(s)
  <2> DEFINE f == IF wal > sess[s].fence THEN wal ELSE sess[s].fence
  <2>1. f \in Nat /\ f <= wal /\ sess[s].lastWrite <= f
    BY DEF Session, Fenced
  <2>2. [Released(s) EXCEPT !.blind = FALSE, !.fence = IF wal > @ THEN wal ELSE @]
          = [Released(s) EXCEPT !.blind = FALSE, !.fence = f]
    BY ReleasedFacts, Zenon DEF Session
  <2>3. QED
    BY <1>14, <1>15, <2>1, <2>2, Zenon DEF AdvanceFence
<1>16. CASE FenceUnread(s)
  <2>1. sess[s].fence \in Nat /\ sess[s].fence <= wal
    BY DEF Session, Fenced
  <2>2. [Released(s) EXCEPT !.blind = TRUE]
          = [Released(s) EXCEPT !.blind = TRUE, !.fence = sess[s].fence]
    BY ReleasedFacts, ZenonT(40) DEF Session
  <2>3. QED
    BY <1>14, <1>16, <2>1, <2>2, Zenon DEF FenceUnread
<1>17. CASE PinnedCommit(s)
  <2> DEFINE R == [sess[s] EXCEPT !.lastWrite = wal + 1]
  <2>1. /\ R \in Session /\ R.held = sess[s].held /\ R.target = sess[s].target
        /\ R.pc = sess[s].pc /\ R.tx = sess[s].tx /\ R.fence = sess[s].fence
        /\ R.lastWrite = wal + 1
    BY DEF Session
  <2>2. sess' = [sess EXCEPT ![s] = R] /\ wal' = wal + 1 /\ sess[s].pc = "pinned"
    BY <1>17 DEF PinnedCommit
  <2> HIDE DEF R
  <2>3. Placed(s)'
    BY <2>1, <2>2, Zenon DEF Placed
  <2>4. Fenced(s)'
    <3>1. sess[s].fence \in Nat
      BY DEF Session
    <3>2. QED
      BY <1>17, <2>1, <2>2, <3>1 DEF PinnedCommit, Placed, Fenced
  <2>5. LentFor(s, R) /\ InFlightFor(s, R)
    BY <1>17, <2>1, HeldSame, ChosenSame DEF PinnedCommit
  <2>6. wal' \in Nat /\ wal <= wal' /\ Local(s)' /\ UNCHANGED <<replay, status, up>>
    BY <1>17, <2>2, <2>3, <2>4 DEF PinnedCommit, Local
  <2>7. QED
    BY <2>1, <2>2, <2>5, <2>6, BecomesKeeps, Zenon
<1>18. CASE PinnedEnds(s)
  BY <1>18, EndKeeps, Zenon DEF PinnedEnds, Placed
<1>19. QED
  BY <1>1, <1>2, <1>3, <1>4, <1>5, <1>6, <1>8, <1>9, <1>10, <1>11, <1>12, <1>13,
     <1>15, <1>16, <1>17, <1>18 DEF SessionNext, Dispatch

\* A step of the servers and of the health data, which the sessions only see.
LEMMA ServerStep ==
    ASSUME Inv, View \/ (\E b \in Backends : Fails(b) \/ Recovers(b))
    PROVE  Inv'
<1>1. CASE View
  <2>1. /\ ViewTypeOK' /\ ViewSound' /\ wal <= wal'
        /\ \A r \in Replicas : replay[r] <= replay'[r]
    <3> USE DEF Inv, TypeOK, ViewTypeOK, ViewSound, Status
    <3>1. CASE WalGrows
      BY <3>1 DEF WalGrows
    <3>2. CASE Reloads
      BY <3>2 DEF Reloads, Unpolled
    <3>3. ASSUME NEW r \in Replicas, Replays(r)
          PROVE  ViewTypeOK' /\ ViewSound' /\ wal <= wal'
                 /\ \A q \in Replicas : replay[q] <= replay'[q]
      BY <3>3 DEF Replays
    <3>4. ASSUME NEW r \in Replicas, PollSucceeds(r)
          PROVE  ViewTypeOK' /\ ViewSound' /\ wal <= wal'
                 /\ \A q \in Replicas : replay[q] <= replay'[q]
      BY <3>4 DEF PollSucceeds
    <3>5. ASSUME NEW r \in Replicas, Trips(r)
          PROVE  ViewTypeOK' /\ ViewSound' /\ wal <= wal'
                 /\ \A q \in Replicas : replay[q] <= replay'[q]
      <4>1. status' = [status EXCEPT ![r] = [status[r] EXCEPT !.healthy = FALSE]]
        BY <3>5 DEF Trips
      <4>2. [status[r] EXCEPT !.healthy = FALSE] \in Status
            /\ [status[r] EXCEPT !.healthy = FALSE].lsn = status[r].lsn
        BY Zenon
      <4>3. QED
        BY <3>5, <4>1, <4>2 DEF Trips
    <3>6. QED
      BY <1>1, <3>1, <3>2, <3>3, <3>4, <3>5, Zenon DEF View, ViewNext
  <2>2. UNCHANGED <<sess, lent, inFlight, up>>
    BY <1>1 DEF View
  <2>3. ASSUME NEW s \in Sessions PROVE Local(s)'
    <3>1. Placed(s) /\ Fenced(s) /\ sess[s] \in Session /\ wal \in Nat /\ wal' \in Nat
          /\ replay \in [Replicas -> Nat] /\ replay' \in [Replicas -> Nat]
      BY <2>1 DEF Inv, Local, TypeOK, ViewTypeOK
    <3>2. Placed(s)'
      BY <2>2, <3>1, Zenon DEF Placed
    <3>3. Fenced(s)'
      BY <2>1, <2>2, <3>1 DEF Fenced, Session
    <3>4. QED
      BY <3>2, <3>3 DEF Local
  <2>4. QED
    BY <2>1, <2>2, <2>3 DEF Inv, TypeOK, LentOnce, InFlightExact
<1>2. ASSUME NEW b \in Backends, Fails(b) PROVE Inv'
  <2>1. \A s \in Sessions : sess[s] \in Session
    BY DEF Inv, TypeOK
  <2>2. ASSUME NEW s \in Sessions
        PROVE  /\ sess'[s] = [sess[s] EXCEPT !.broken = @ \/ sess[s].held = b]
               /\ sess'[s] \in Session
               /\ sess'[s].pc = sess[s].pc /\ sess'[s].stmt = sess[s].stmt
               /\ sess'[s].held = sess[s].held /\ sess'[s].tx = sess[s].tx
               /\ sess'[s].wrote = sess[s].wrote /\ sess'[s].fence = sess[s].fence
               /\ sess'[s].target = sess[s].target
               /\ sess'[s].lastWrite = sess[s].lastWrite /\ sess'[s].blind = sess[s].blind
    <3>1. sess'[s] = [sess[s] EXCEPT !.broken = @ \/ sess[s].held = b]
      BY <1>2 DEF Fails
    <3>2. (sess[s].broken \/ sess[s].held = b) \in BOOLEAN
      OBVIOUS
    <3>3. QED
      BY <2>1, <3>1, <3>2, ZenonT(40) DEF Session
  <2>3. UNCHANGED <<viewVars, lent, inFlight>> /\ up' = up \ {b}
    BY <1>2 DEF Fails
  <2>4. sess' \in [Sessions -> Session]
    BY <1>2, <2>2 DEF Fails
  <2>5. TypeOK' /\ ViewSound'
    BY <2>3, <2>4 DEF Inv, TypeOK, ViewTypeOK, ViewSound, viewVars
  <2>6. ASSUME NEW s \in Sessions PROVE Local(s)'
    <3>1. Placed(s) /\ Fenced(s)
      BY DEF Inv, Local
    <3>2. Placed(s)'
      BY <2>2, <3>1, Zenon DEF Placed
    <3>3. Fenced(s)'
      BY <2>2, <2>3, <3>1, Zenon DEF Fenced, viewVars
    <3>4. QED
      BY <3>2, <3>3 DEF Local
  <2>7. LentOnce' /\ InFlightExact'
    <3>1. \A c \in Backends :
            {s \in Sessions : sess'[s].held = c} = {s \in Sessions : sess[s].held = c}
      BY <2>2, Zenon
    <3>2. \A r \in Replicas :
            {s \in Sessions : sess'[s].target = r} = {s \in Sessions : sess[s].target = r}
      BY <2>2, Zenon
    <3>3. QED
      BY <2>3, <3>1, <3>2 DEF Inv, LentOnce, InFlightExact
  <2>8. QED
    BY <2>5, <2>6, <2>7 DEF Inv
<1>3. ASSUME NEW b \in Backends, Recovers(b) PROVE Inv'
  <2>1. UNCHANGED <<viewVars, sess, lent, inFlight>> /\ up' = up \cup {b}
    BY <1>3 DEF Recovers
  <2>2. TypeOK' /\ ViewSound'
    BY <2>1 DEF Inv, TypeOK, ViewTypeOK, ViewSound, viewVars
  <2>3. ASSUME NEW s \in Sessions PROVE Local(s)'
    BY <2>1, Zenon DEF Inv, Local, Placed, Fenced, viewVars
  <2>4. QED
    BY <2>1, <2>2, <2>3 DEF Inv, LentOnce, InFlightExact
<1>4. QED
  BY <1>1, <1>2, <1>3

\* A stuttering step keeps the invariant.
LEMMA StutterKeeps ==
    ASSUME Inv, UNCHANGED vars
    PROVE  Inv'
<1>1. UNCHANGED <<wal, replay, status, sess, lent, inFlight, up>>
  BY Zenon DEF vars, viewVars
<1>2. TypeOK' /\ ViewSound'
  BY <1>1, Zenon DEF Inv, TypeOK, ViewTypeOK, ViewSound
<1>3. ASSUME NEW s \in Sessions PROVE Local(s)'
  BY <1>1, Zenon DEF Inv, Local, Placed, Fenced
<1>4. LentOnce' /\ InFlightExact'
  BY <1>1, Zenon DEF Inv, LentOnce, InFlightExact
<1>5. QED
  BY <1>2, <1>3, <1>4, Zenon DEF Inv

\* Inv is inductive.
LEMMA RoutingInvariant == Spec => []Inv
<1>1. Inv /\ [Next]_vars => Inv'
  BY SessionStep, ServerStep, StutterKeeps DEF Next
<1>2. QED
  BY <1>1, InvInit, PTL DEF Spec
-----------------------------------------------------------------------------
(* The theorems *)

\* Every session's local state, the pools' and the policy's counts and the health
\* data keep their types, however many sessions and replicas there are.
THEOREM RoutingTyped == Spec => []TypeOK
<1>1. Inv => TypeOK
  BY DEF Inv
<1>2. QED
  BY <1>1, RoutingInvariant, PTL

\* serveRouting and dispatchRead return each connection exactly once, for any
\* number of sessions that share the pools.
THEOREM RoutingLentOnce == Spec => []LentOnce
<1>1. Inv => LentOnce
  BY DEF Inv
<1>2. QED
  BY <1>1, RoutingInvariant, PTL

\* The policy's in-flight counts are exact for any number of sessions.
THEOREM RoutingInFlight == Spec => []InFlightExact
<1>1. Inv => InFlightExact
  BY DEF Inv
<1>2. QED
  BY <1>1, RoutingInvariant, PTL

\* A transaction, a position read and a pinned session stay on the primary.
THEOREM RoutingPinned == Spec => []PinnedToPrimary
<1>1. Inv => PinnedToPrimary
  <2> SUFFICES ASSUME Inv, NEW s \in Sessions
               PROVE  /\ sess[s].pc \in {"idle", "lsn", "pinned"} => sess[s].held \in {Primary, None}
                      /\ sess[s].tx # "I" => sess[s].held = Primary
                      /\ sess[s].held \in Replicas => sess[s].stmt = "read"
    BY DEF PinnedToPrimary
  <2>1. QED
    BY SessionFacts DEF Facts, Placed, Session, NoSession
<1>2. QED
  BY <1>1, RoutingInvariant, PTL

\* Read-your-writes in strict mode, for any number of sessions and replicas and
\* any amount of WAL: a session that reads sees its last commit, unless the
\* primary's position could not be read after it.
THEOREM RoutingReadsOwnWrites == Spec => SeenOwnWrites
<1>1. ASSUME Inv, [Next]_vars
      PROVE  [Mode = "strict" => \A s \in Sessions :
                Shown(s) => Position(sess[s].held) >= sess[s].lastWrite \/ sess[s].blind]_vars
  <2> SUFFICES ASSUME Mode = "strict", NEW s \in Sessions, Shown(s), ~sess[s].blind
               PROVE  Position(sess[s].held) >= sess[s].lastWrite
    BY <1>1, Zenon
  <2>0. Facts(s)
    BY <1>1, SessionFacts
  <2> USE <2>0 DEF Facts
  <2>1. sess[s].fence \in Nat /\ sess[s].lastWrite \in Nat /\ wal \in Nat
        /\ sess[s].lastWrite <= sess[s].fence /\ sess[s].lastWrite <= wal
    BY Zenon DEF Shown, Fenced, Session
  <2>2. CASE sess[s].held = Primary
    BY <2>1, <2>2, Zenon DEF Position
  <2>3. CASE sess[s].held \in Replicas
    <3>1. sess[s].target = sess[s].held
      BY <2>3, Zenon DEF Shown, Placed
    <3>2. sess[s].fence <= replay[sess[s].held] /\ replay[sess[s].held] \in Nat
      BY <2>3, <3>1, Zenon DEF Fenced
    <3>3. QED
      BY <2>1, <2>3, <3>2, RoutingAssumption DEF Position, Backends
  <2>4. QED
    BY <2>2, <2>3, Zenon DEF Shown, Placed
<1>2. QED
  BY <1>1, RoutingInvariant, PTL DEF Spec, SeenOwnWrites
=============================================================================
