------------------------------- MODULE Relay --------------------------------
(***************************************************************************)
(* The continuous relay of a client that keeps its backend connection:     *)
(* relayPooled of internal/proxy/session.go with its two directions        *)
(* (relayFrontend and protocol.Relay), the goroutine that watches for      *)
(* shutdown, and finishBackend.                                            *)
(*                                                                         *)
(* The calling goroutine runs relayFrontend itself; the backend direction  *)
(* and the watcher are goroutines of their own.  Sockets are bounded       *)
(* queues.  Relay reads a message in two parts, header and body, and can   *)
(* be interrupted between them.                                            *)
(***************************************************************************)
EXTENDS Integers, Sequences

CONSTANTS Requests,    \* bound on the messages the client sends
          Notices,     \* bound on messages the server sends unasked
          Cap,         \* capacity of each socket buffer
          Polite       \* the client terminates only after its last answer

ASSUME RelayAssumption ==
    /\ Requests \in Nat /\ Notices \in Nat /\ Cap \in Nat \ {0}
    /\ Polite \in BOOLEAN

VARIABLES peer,      \* the client's socket: "open", "bye" (it sent Terminate), "gone"
          sent,      \* requests the client has sent
          answered,  \* answers the client has received
          toProxy,   \* requests on their way from the client
          toClient,  \* parts of messages on their way to the client
          up,        \* the server's side of the backend connection is open
          toServer,  \* requests on their way to the server
          owed,      \* what the server is about to write
          noticed,   \* notices sent so far
          fromServer,\* parts of messages on their way from the server
          ctx,       \* the server context is done
          caller,    \* where the calling goroutine is
          ended,     \* how relayFrontend returned: "terminated", "eof" or "error"
          clean,     \* what relayPooled returns
          be,        \* where the backend direction is
          part,      \* the part it has in hand
          half,      \* it has read a header and not the body
          watch,     \* where the watcher is
          closed,    \* the proxy has closed the client's socket
          deadline   \* the backend's read deadline has passed

world == <<peer, sent, answered, toProxy, up, owed, noticed, ctx>>
wires == <<toClient, toServer, fromServer>>
goroutines == <<caller, ended, clean, be, part, half, watch>>
relayVars == <<world, wires, goroutines, closed, deadline>>

Parts == [kind : {"answer", "notice"}, body : BOOLEAN]
Message(k) == <<[kind |-> k, body |-> FALSE], [kind |-> k, body |-> TRUE]>>
NoPart == [kind |-> "notice", body |-> FALSE]

Peers == {"open", "bye", "gone"}
Callers == {"read", "write", "select", "interrupt", "judge", "join", "joining", "reset",
            "released", "discarded"}
Endings == {"no", "terminated", "eof", "error"}
Directions == {"read", "write", "closing", "ended"}
Watchers == {"wait", "deadline", "ended"}

RelayTypeOK ==
    /\ peer \in Peers
    /\ sent \in 0 .. Requests /\ answered \in 0 .. Requests
    /\ toProxy \in 0 .. Cap /\ toServer \in 0 .. Cap
    /\ toClient \in Seq(Parts) /\ fromServer \in Seq(Parts) /\ owed \in Seq(Parts)
    /\ Len(toClient) <= Cap /\ Len(fromServer) <= Cap
    /\ noticed \in 0 .. Notices
    /\ caller \in Callers /\ ended \in Endings
    /\ be \in Directions /\ part \in Parts /\ watch \in Watchers
    /\ up \in BOOLEAN /\ ctx \in BOOLEAN /\ clean \in BOOLEAN /\ half \in BOOLEAN
    /\ closed \in BOOLEAN /\ deadline \in BOOLEAN

RelayInit ==
    /\ peer = "open" /\ sent = 0 /\ answered = 0 /\ toProxy = 0 /\ toClient = <<>>
    /\ up = TRUE /\ toServer = 0 /\ owed = <<>> /\ noticed = 0 /\ fromServer = <<>>
    /\ ctx = FALSE /\ caller = "read" /\ ended = "no" /\ clean = FALSE
    /\ be = "read" /\ part = NoPart /\ half = FALSE
    /\ watch = "wait" /\ closed = FALSE /\ deadline = FALSE
-----------------------------------------------------------------------------
(* The client and the server, external to the program *)

Sends ==
    /\ peer = "open" /\ sent < Requests /\ toProxy < Cap
    /\ sent' = sent + 1 /\ toProxy' = toProxy + 1
    /\ UNCHANGED <<peer, answered, up, owed, noticed, ctx, wires, goroutines, closed,
                   deadline>>

Receives ==
    /\ peer # "gone" /\ toClient # <<>>
    /\ toClient' = Tail(toClient)
    /\ answered' = answered + IF Head(toClient) = Message("answer")[2] THEN 1 ELSE 0
    /\ UNCHANGED <<peer, sent, toProxy, up, owed, noticed, ctx, toServer, fromServer,
                   goroutines, closed, deadline>>

SaysBye ==
    /\ peer = "open" /\ (Polite => answered = sent)
    /\ peer' = "bye"
    /\ UNCHANGED <<sent, answered, toProxy, up, owed, noticed, ctx, wires, goroutines,
                   closed, deadline>>

Leaves ==
    /\ peer # "gone" /\ peer' = "gone" /\ toClient' = <<>>
    /\ UNCHANGED <<sent, answered, toProxy, up, owed, noticed, ctx, toServer, fromServer,
                   goroutines, closed, deadline>>

\* The server reads nothing new while it has something to write.
Serves ==
    /\ up /\ owed = <<>> /\ toServer > 0
    /\ toServer' = toServer - 1 /\ owed' = Message("answer")
    /\ UNCHANGED <<peer, sent, answered, toProxy, up, noticed, ctx, toClient, fromServer,
                   goroutines, closed, deadline>>

Notifies ==
    /\ up /\ owed = <<>> /\ noticed < Notices
    /\ noticed' = noticed + 1 /\ owed' = Message("notice")
    /\ UNCHANGED <<peer, sent, answered, toProxy, up, ctx, wires, goroutines, closed,
                   deadline>>

ServerWrites ==
    /\ up /\ owed # <<>> /\ Len(fromServer) < Cap
    /\ fromServer' = Append(fromServer, Head(owed)) /\ owed' = Tail(owed)
    /\ UNCHANGED <<peer, sent, answered, toProxy, up, noticed, ctx, toClient, toServer,
                   goroutines, closed, deadline>>

ServerDies ==
    /\ up /\ up' = FALSE /\ owed' = <<>> /\ toServer' = 0
    /\ UNCHANGED <<peer, sent, answered, toProxy, noticed, ctx, toClient, fromServer,
                   goroutines, closed, deadline>>

Shutdown ==
    /\ ~ctx /\ ctx' = TRUE
    /\ UNCHANGED <<peer, sent, answered, toProxy, up, owed, noticed, wires, goroutines,
                   closed, deadline>>
-----------------------------------------------------------------------------
(* relayFrontend, in the calling goroutine *)

Frontend(from, to) ==
    /\ caller = from /\ caller' = to
    /\ UNCHANGED <<peer, sent, answered, up, owed, noticed, ctx, toClient, fromServer,
                   clean, be, part, half, watch, closed, deadline>>

FeRead ==
    /\ ~closed /\ toProxy > 0
    /\ Frontend("read", "write") /\ toProxy' = toProxy - 1
    /\ UNCHANGED <<toServer, ended>>

FeWrite ==
    /\ up /\ toServer < Cap
    /\ Frontend("write", "read") /\ toServer' = toServer + 1
    /\ UNCHANGED <<toProxy, ended>>

\* Terminate is not forwarded.
FeTerminate ==
    /\ ~closed /\ toProxy = 0 /\ peer = "bye"
    /\ Frontend("read", "select") /\ ended' = "terminated"
    /\ UNCHANGED <<toProxy, toServer>>

\* The client's socket ends, or the proxy has closed it.
FeEOF ==
    /\ closed \/ peer = "gone"
    /\ Frontend("read", "select") /\ ended' = "eof"
    /\ UNCHANGED <<toProxy, toServer>>

\* The backend's socket is gone, or the client's is in the middle of a message
\* whose header has been written.
FeError ==
    /\ ~up \/ (toServer < Cap /\ (closed \/ peer = "gone"))
    /\ Frontend("write", "select") /\ ended' = "error"
    /\ UNCHANGED <<toProxy, toServer>>
-----------------------------------------------------------------------------
(* The backend direction: protocol.Relay, then closing the client *)

Backend(from, to) ==
    /\ be = from /\ be' = to
    /\ UNCHANGED <<world, toServer, caller, ended, clean, watch, deadline>>

BeRead ==
    /\ ~deadline /\ fromServer # <<>>
    /\ Backend("read", "write")
    /\ part' = Head(fromServer) /\ fromServer' = Tail(fromServer)
    /\ half' = ~part'.body
    /\ UNCHANGED <<toClient, closed>>

\* Mutant: the buffered part is written again with the rest of the message.
BeWriteTwice ==
    /\ ~closed /\ peer # "gone" /\ Len(toClient) < Cap
    /\ Backend("write", "read") /\ toClient' = toClient \o <<part, part>>
    /\ UNCHANGED <<fromServer, part, half, closed>>

BeWrite ==
    /\ ~closed /\ peer # "gone" /\ Len(toClient) < Cap
    /\ Backend("write", "read") /\ toClient' = Append(toClient, part)
    /\ UNCHANGED <<fromServer, part, half, closed>>

BeFail ==
    /\ \/ (deadline \/ (~up /\ fromServer = <<>>)) /\ Backend("read", "closing")
       \/ (closed \/ peer = "gone") /\ Backend("write", "closing")
    /\ UNCHANGED <<toClient, fromServer, part, half, closed>>

\* Unblock relayFrontend, and report on beDone.
BeDone ==
    /\ Backend("closing", "ended") /\ closed' = TRUE
    /\ UNCHANGED <<toClient, fromServer, part, half>>
-----------------------------------------------------------------------------
(* The watcher *)

Watcher(from, to) ==
    /\ watch = from /\ watch' = to
    /\ UNCHANGED <<world, wires, caller, ended, clean, be, part, half>>

WatchCtx ==
    /\ ctx /\ Watcher("wait", "deadline") /\ closed' = TRUE /\ UNCHANGED deadline

WatchDeadline ==
    /\ Watcher("deadline", "ended") /\ deadline' = TRUE /\ UNCHANGED closed

\* watchDone is closed; if ctx is done too, select takes either case.
WatchDone ==
    /\ caller = "joining" /\ Watcher("wait", "ended") /\ UNCHANGED <<closed, deadline>>
-----------------------------------------------------------------------------
(* The rest of relayPooled, and finishBackend *)

Main(from, to) ==
    /\ caller = from /\ caller' = to
    /\ UNCHANGED <<world, wires, ended, be, part, half, watch, closed>>

\* The backend direction ended on its own: not reusable.
BackendEnded ==
    /\ be = "ended" /\ Main("select", "join") /\ clean' = FALSE /\ UNCHANGED deadline

Interrupt ==
    /\ be # "ended" /\ Main("select", "interrupt") /\ deadline' = TRUE
    /\ UNCHANGED clean

\* Mutant: relayPooled does not wait for the backend direction.
InterruptedEarly ==
    /\ Main("interrupt", "judge") /\ deadline' = FALSE /\ UNCHANGED clean

\* <-beDone; the deadline is cleared.
Interrupted ==
    /\ be = "ended" /\ Main("interrupt", "judge") /\ deadline' = FALSE
    /\ UNCHANGED clean

Judge ==
    /\ Main("judge", "join") /\ clean' = (ended = "terminated" /\ ~ctx)
    /\ UNCHANGED deadline

\* Mutant: the deferred function forgets close(watchDone).
JoinSilently ==
    /\ Main("join", "join") /\ UNCHANGED <<clean, deadline>>

\* close(watchDone), and wait for the watcher.
Join == Main("join", "joining") /\ UNCHANGED <<clean, deadline>>

Joined ==
    /\ watch = "ended" /\ Main("joining", IF clean THEN "reset" ELSE "discarded")
    /\ UNCHANGED <<clean, deadline>>

\* Mutant: Reset runs without a deadline of its own.
ResetOKUnbounded ==
    /\ up /\ ~half
    /\ caller = "reset" /\ caller' = "released"
    /\ fromServer' = <<>>
    /\ UNCHANGED <<world, toClient, toServer, ended, clean, be, part, half, watch, closed,
                   deadline>>

\* Reset succeeds on a stream that starts at a message; it skips notices.  It
\* sets the connection's deadline and clears it at the end.
ResetOK ==
    /\ up /\ ~half
    /\ caller = "reset" /\ caller' = "released"
    /\ fromServer' = <<>> /\ deadline' = FALSE
    /\ UNCHANGED <<world, toClient, toServer, ended, clean, be, part, half, watch, closed>>

\* Reset fails or times out: Discard.
ResetFail == Main("reset", "discarded") /\ UNCHANGED <<clean, deadline>>
-----------------------------------------------------------------------------
relayFrontend == FeRead \/ FeWrite \/ FeTerminate \/ FeEOF \/ FeError
relayBackend == BeRead \/ BeWrite \/ BeFail \/ BeDone
watcher == WatchCtx \/ WatchDeadline \/ WatchDone
relayPooled == BackendEnded \/ Interrupt \/ Interrupted \/ Judge \/ Join \/ Joined
finishBackend == ResetOK \/ ResetFail
Server == Serves \/ ServerWrites

RelayNext ==
    \/ Sends \/ Receives \/ SaysBye \/ Leaves
    \/ Server \/ Notifies \/ ServerDies \/ Shutdown
    \/ relayFrontend \/ relayBackend \/ watcher \/ relayPooled \/ finishBackend

RelaySpec == RelayInit /\ [][RelayNext]_relayVars

\* The proxy's goroutines run and a server that can go on does; Reset has a
\* deadline.  The client owes nothing.
RelayFairSpec ==
    /\ RelaySpec /\ WF_relayVars(relayFrontend \/ relayPooled \/ finishBackend)
    /\ WF_relayVars(relayBackend) /\ WF_relayVars(watcher) /\ WF_relayVars(Server)
-----------------------------------------------------------------------------
(* Properties *)

Over == caller \in {"released", "discarded"}

\* Requests whose answer has not been taken off the backend connection.
Outstanding ==
    \/ toServer > 0
    \/ \E q \in {owed, fromServer} : \E i \in DOMAIN q : q[i].kind = "answer"

\* A connection that goes back to the pool is at rest, whatever raced with the
\* client's Terminate: no answer of this client is still to come, no message
\* was left half read, and neither the interrupt of the backend read nor the
\* watcher's, which may come after relayPooled has cleared it and has judged
\* the connection clean, leaves a deadline on it.
ReleasedAtRest ==
    caller = "released" => ~Outstanding /\ ~half /\ ~deadline

\* Once relayPooled has returned, no goroutine of it touches the connection.
NoneLeftBehind ==
    caller \in {"reset", "released", "discarded"} => be = "ended" /\ watch = "ended"

\* relayFrontend's write to the backend and the backend's own write wait for each
\* other, and nothing reads from the backend any more.
Jammed ==
    /\ caller = "write" /\ be = "ended" /\ up
    /\ toServer = Cap /\ owed # <<>> /\ Len(fromServer) = Cap

\* Shutdown, or a client that is gone, ends the relay, wherever its goroutines are
\* blocked, but for one case: relayFrontend and the backend are each in a write to
\* the other for ever. relayPooled's comment has its watcher act "so both relay
\* directions unwind", but a read deadline does not interrupt a write.
UnwindsUnlessJammed == ((ctx \/ peer = "gone") ~> Over) \/ <>[]Jammed
=============================================================================
