---------------------------- MODULE BackendConn -----------------------------
(***************************************************************************)
(* One pooled backend connection, its server session and the answers in    *)
(* its socket (internal/backend/backend.go), as clients borrow it in turn: *)
(* the pool's Ping, the client's queries, and what the session does before *)
(* it gives the connection back (internal/proxy/session.go, all modes).    *)
(* A session either sends one message at a time and relays its answer      *)
(* (relayResponse), or copies both ways at once (relayPooled).             *)
(*                                                                         *)
(* The server answers in order; an answer ends in ReadyForQuery.  A reader *)
(* takes the first answer in the socket for its own.                       *)
(***************************************************************************)
EXTENDS Integers, Sequences

CONSTANTS Clients,
          Modes,       \* pooling modes: "session", "transaction", "routing"
          MaxPending   \* bound on unread answers when a query or a Ping is sent

ASSUME BackendConnAssumption ==
    /\ Modes \subseteq {"session", "transaction", "routing"}
    /\ MaxPending \in Nat \ {0} /\ "proxy" \notin Clients

VARIABLES mode,     \* the deployment's pooling mode
          pc,       \* what the connection is being used for
          user,     \* the client that borrows it, "proxy" when none does
          hold,     \* "no": until the transaction ends; "loop": the client keeps it,
                    \* one message at a time; "relay": it keeps it, in relayPooled
          wrote,    \* wroteThisTx
          tx,       \* the server session: idle "I" or in a transaction "T"
          dirty,    \* ... and whether it has temp tables, settings and the like
          pending,  \* answers not yet read, oldest first
          arrived,  \* how many of them are in the socket's buffer
          left      \* history: what earlier borrowers may have left on it, an "answer" to
                    \* a failed position query, the "state" of an undetected statement,
                    \* or what an "early" Terminate did not wait for

session == <<mode, user, hold, wrote>>
vars == <<session, pc, tx, dirty, pending, arrived, left>>

\* An answer, with the status byte of its ReadyForQuery.  An "error" is an
\* ErrorResponse and its ReadyForQuery; "rest" the latter alone.
Answer == [to : Clients \cup {"proxy"}, kind : {"ok", "error", "rest"},
           status : {"I", "T"}]

TypeOK ==
    /\ mode \in Modes
    /\ pc \in {"closed", "pooled", "ping", "given", "reply", "held", "copy", "fence",
               "lsn", "undo", "rollback", "wipe", "discard"}
    /\ user \in Clients \cup {"proxy"}
    /\ hold \in {"no", "loop", "relay"} /\ wrote \in BOOLEAN
    /\ tx \in {"I", "T"} /\ dirty \in BOOLEAN
    /\ pending \in Seq(Answer)
    /\ arrived \in 0 .. Len(pending)
    /\ left \subseteq {"answer", "state", "early"}

Init ==
    /\ mode \in Modes
    /\ pc = "closed" /\ user = "proxy" /\ hold = "no" /\ wrote = FALSE
    /\ tx = "I" /\ dirty = FALSE /\ pending = <<>> /\ arrived = 0
    /\ left = {}

Go(from, to) == pc = from /\ pc' = to

\* A query is written, which the server answers with kind and status.
Send(who, kind, status) ==
    /\ pending' = Append(pending, [to |-> who, kind |-> kind, status |-> status])
    /\ UNCHANGED arrived

\* n answers are taken out of the socket.
Take(n) == /\ pending' = SubSeq(pending, n + 1, Len(pending))
           /\ arrived' = arrived - n

\* runSimple and QueryRow read through a Frontend of their own, which is dropped
\* with what it has buffered.  They return at ReadyForQuery ...
ReadAnswer ==
    /\ arrived > 0 /\ Head(pending).kind # "error"
    /\ \E n \in 1 .. arrived : Take(n)

\* ... and at ErrorResponse, before the ReadyForQuery that follows it.
ReadError ==
    /\ arrived > 0 /\ Head(pending).kind = "error"
    /\ \/ pending' = [pending EXCEPT ![1].kind = "rest"] /\ UNCHANGED arrived
       \/ \E n \in 1 .. arrived : Take(n)

\* The pool takes the connection back.
Release == /\ pc' = "pooled" /\ user' = "proxy"
           /\ hold' = "no" /\ wrote' = FALSE /\ UNCHANGED mode

Arrive ==
    /\ arrived < Len(pending) /\ arrived' = arrived + 1
    /\ UNCHANGED <<session, pc, tx, dirty, pending, left>>

\* The pool closes the connection, and a new one takes its place.
Close ==
    /\ pc' = "closed" /\ user' = "proxy" /\ hold' = "no" /\ wrote' = FALSE
    /\ tx' = "I" /\ dirty' = FALSE /\ pending' = <<>> /\ arrived' = 0
    /\ left' = {} /\ UNCHANGED mode

\* Discard: the server goes away, the session finds its client gone when it reads from
\* or writes to it, or a deadline other than the position query's passes.
Discard == pc # "closed" /\ Close
-----------------------------------------------------------------------------
(* Pool.Acquire *)

Give(c) == /\ user' = c /\ hold' = IF mode = "session" THEN "relay" ELSE "no"
           /\ UNCHANGED <<mode, wrote>>

\* No idle connection: Dial, which reads up to the first ReadyForQuery.
Dial(c) ==
    /\ Go("closed", "given") /\ Give(c)
    /\ UNCHANGED <<tx, dirty, pending, arrived, left>>

\* Ping: run a no-op query and read one answer.
Ping(c) ==
    /\ Go("pooled", "ping") /\ Give(c) /\ Len(pending) < MaxPending
    /\ Send("proxy", "ok", tx)
    /\ UNCHANGED <<tx, dirty, left>>

PingOK ==
    /\ Go("ping", "given") /\ ReadAnswer
    /\ UNCHANGED <<session, tx, dirty, left>>

\* Routing mode gives the startup connection straight back.
StartupRelease ==
    /\ mode = "routing" /\ pc = "given"
    /\ Release
    /\ UNCHANGED <<tx, dirty, pending, arrived, left>>
-----------------------------------------------------------------------------
(* The client's queries *)

\* Statements by class and by what they leave behind; "set" stands for those
\* BreaksTxPooling reports, "quiet" for others that leave session state, and
\* "extended" for an extended-protocol batch up to its Sync.
Statements == {"read", "write", "begin", "end", "set", "quiet", "extended"}

\* Mutant: a statement that leaves session state does not pin.
HoldUnpinned(k) == IF k = "extended" THEN "relay" ELSE hold

\* How the session holds the connection once it has read statement k.
Hold(k) == IF k = "extended" THEN "relay"
           ELSE IF k = "set" /\ hold = "no" THEN "loop" ELSE hold

\* The client sends statement k, and the server runs it.  In relayPooled the
\* client need not wait for the answer to the last one.
Query(k) ==
    /\ pc \in {"given", "held"} \/ (pc = "reply" /\ hold = "relay")
    /\ pc' = "reply" /\ Len(pending) < MaxPending
    /\ \E kind \in {"ok", "error"} :
        /\ tx' = IF kind = "error" THEN tx
                 ELSE IF k = "begin" THEN "T" ELSE IF k = "end" THEN "I" ELSE tx
        /\ dirty' = (dirty \/ (kind = "ok" /\ k \in {"set", "quiet", "extended"}))
        /\ Send(user, kind, tx')
    /\ hold' = Hold(k)
    /\ wrote' = (wrote \/ k # "read")
    /\ left' = left \cup IF k = "quiet" /\ mode = "routing" /\ hold = "no"
                         THEN {"state"} ELSE {}
    /\ UNCHANGED <<mode, user>>

\* COPY FROM STDIN: the server asks for the data before it answers.
Copy ==
    /\ pc \in {"given", "held"} /\ pc' = "copy" /\ wrote' = TRUE
    /\ UNCHANGED <<mode, user, hold, tx, dirty, pending, arrived, left>>

\* The client sends the data.  Only relayPooled reads it: relayResponse goes on
\* waiting for the server, which waits for the data.
CopyData ==
    /\ Go("copy", "reply") /\ hold = "relay"
    /\ \E kind \in {"ok", "error"} : Send(user, kind, tx)
    /\ UNCHANGED <<session, tx, dirty, left>>

\* One answer has been copied to the client.  What follows depends on its status
\* byte: keep the connection, clean it, read the position, release it.
Relay ==
    /\ pc = "reply" /\ arrived > 0
    /\ LET over == Head(pending).status = "I" /\ hold = "no"
       IN  \/ /\ hold = "relay" /\ UNCHANGED session
              /\ pc' = IF Len(pending) = 1 THEN "held" ELSE "reply"
           \/ /\ hold # "relay" /\ ~over /\ pc' = "held"
              /\ hold' = IF mode = "routing" /\ hold = "loop" THEN "relay" ELSE hold
              /\ UNCHANGED <<mode, user, wrote>>
           \/ over /\ mode = "transaction" /\ pc' = "wipe" /\ UNCHANGED session
           \/ over /\ mode = "routing" /\ wrote /\ pc' = "fence" /\ UNCHANGED session
           \/ over /\ mode = "routing" /\ ~wrote /\ Release
    /\ Take(1)
    /\ UNCHANGED <<tx, dirty, left>>

\* primaryLSN: ask the server for its position.
AskLSN ==
    /\ Go("fence", "lsn")
    /\ \E kind \in {"ok", "error"} : Send("proxy", kind, tx)
    /\ UNCHANGED <<session, tx, dirty, left>>

\* The position, an error, or no answer in time: the connection is released.
GotLSN ==
    /\ pc = "lsn" /\ Release
    /\ \/ ReadAnswer /\ UNCHANGED left
       \/ ReadError /\ left' = left \cup {"answer"}
       \/ UNCHANGED <<pending, arrived>> /\ left' = left \cup {"answer"}
    /\ UNCHANGED <<tx, dirty>>
-----------------------------------------------------------------------------
(* Cleaning the connection *)

\* Terminate: relayPooled and transaction mode reset the connection; a routed
\* transaction's is discarded.
Terminate ==
    /\ pc \in {"given", "held"} /\ pc' = "undo"
    /\ hold = "relay" \/ mode = "transaction"
    /\ UNCHANGED <<session, tx, dirty, pending, arrived, left>>

\* relayPooled reads Terminate although answers are under way.  It interrupts the
\* relay, perhaps after part of an answer, and Reset runs on what is left; cut
\* inside a message, Reset cannot parse what follows: that is a Discard.
TerminateEarly ==
    /\ Go("reply", "undo") /\ hold = "relay"
    /\ \/ UNCHANGED pending
       \/ arrived > 0 /\ pending' = [pending EXCEPT ![1].kind = "rest"]
    /\ left' = left \cup {"early"}
    /\ UNCHANGED <<session, tx, dirty, arrived>>

\* Reset: ROLLBACK ...
Rollback ==
    /\ Go("undo", "rollback")
    /\ tx' = "I" /\ Send("proxy", "ok", "I")
    /\ UNCHANGED <<session, dirty, left>>

\* Reset keeps its Frontend, and what that has buffered, for the next query.
RolledBack ==
    /\ Go("rollback", "wipe")
    /\ arrived > 0 /\ Head(pending).kind # "error" /\ Take(1)
    /\ UNCHANGED <<session, tx, dirty, left>>

\* ... and DISCARD ALL, which is also what DiscardAll sends; the server refuses
\* it inside a transaction, and then the connection is discarded.
DiscardAll ==
    /\ Go("wipe", "discard")
    /\ dirty' = (dirty /\ tx = "T")
    /\ Send("proxy", IF tx = "I" THEN "ok" ELSE "error", tx)
    /\ UNCHANGED <<session, tx, left>>

\* Mutant: Reset does not wait for the answer to DISCARD ALL.
CleanedUnread ==
    /\ pc = "discard" /\ Release
    /\ UNCHANGED <<tx, dirty, pending, arrived, left>>

Cleaned ==
    /\ pc = "discard" /\ Release /\ ReadAnswer
    /\ left' = left \ {"state"}
    /\ UNCHANGED <<tx, dirty>>

\* Mutant: Ping skips an ErrorResponse, and waits for the ReadyForQuery it has
\* already dropped.
CleanFailsUnseen ==
    /\ pc \in {"rollback", "discard"}
    /\ arrived > 0 /\ Head(pending).kind = "error"
    /\ Close

\* Ping, Reset or DiscardAll reads an ErrorResponse, or fails before its deadline.
CleanFails ==
    /\ pc \in {"ping", "rollback", "discard"}
    /\ arrived > 0 /\ Head(pending).kind = "error"
    /\ Close
-----------------------------------------------------------------------------
\* What the proxy does on its own.
Housekeeping ==
    \/ PingOK \/ Relay \/ AskLSN \/ GotLSN
    \/ Rollback \/ RolledBack \/ DiscardAll \/ Cleaned \/ CleanFails

Next ==
    \/ Arrive \/ Discard
    \/ \E c \in Clients : Dial(c) \/ Ping(c)
    \/ StartupRelease
    \/ \E k \in Statements : Query(k)
    \/ Copy \/ CopyData \/ Terminate \/ TerminateEarly
    \/ Housekeeping

Spec == Init /\ [][Next]_vars

\* The server answers what it has been sent, a client that has begun a COPY sends
\* its data, and the proxy's goroutine runs.
FairSpec == Spec /\ WF_vars(Arrive) /\ WF_vars(CopyData) /\ WF_vars(Housekeeping)
-----------------------------------------------------------------------------
(* Properties *)

\* A client is answered with the answers to its own queries: while a relay
\* reads, nothing else is or will be in the socket, whatever earlier borrowers,
\* health checks and clean-ups read and left; unless on this connection a
\* position query has failed or a client has not waited for its last answer.
OwnAnswers ==
    pc = "reply" /\ left \cap {"answer", "early"} = {} =>
        /\ pending # <<>>
        /\ \A i \in 1 .. Len(pending) :
              pending[i].to = user /\ pending[i].kind # "rest"

\* A borrowed connection carries nothing of the previous client: no open
\* transaction and no session state. In session and transaction mode this holds
\* after any statement; in routing mode unless a statement that the detector
\* does not know has left state; with the exceptions of OwnAnswers.
CleanHandout ==
    pc = "given" /\ left \cap {"answer", "early"} = {} =>
        tx = "I" /\ (~dirty \/ "state" \in left)

\* Whoever waits for the server gets an answer and goes on, on any connection,
\* stale answers in its socket or not; except for a COPY FROM STDIN outside
\* relayPooled, whose data nobody reads.
NoneStuck ==
    \A p \in {"ping", "copy", "lsn", "rollback", "discard"} :
        pc = p /\ (p = "copy" => hold = "relay") ~> pc # p

\* Ping's comment: it "checks the connection is alive and at a clean
\* ReadyForQuery state".
PingChecksReady == pc = "given" => pending = <<>>
=============================================================================
