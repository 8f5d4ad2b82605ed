------------------------------- MODULE Server -------------------------------
(***************************************************************************)
(* The life of the process: run and reloadOnHUP of cmd/pgpilot/main.go,    *)
(* Serve and handle of internal/proxy/proxy.go, and the sessions of        *)
(* session.go as far as they block, watch for shutdown and use the         *)
(* connection manager.                                                     *)
(***************************************************************************)
EXTENDS Manager, FiniteSets

CONSTANTS Clients,
          NoKey,       \* the key of a session that has not authenticated
          Mode,        \* pool.mode, "session" or "transaction"
          MaxReloads   \* bound on SIGHUPs

ASSUME ServerAssumption ==
    /\ Mode \in {"session", "transaction"} /\ MaxReloads \in Nat /\ IsFiniteSet(Clients)
    /\ NoKey \notin Keys

VARIABLES ctx,       \* SIGINT or SIGTERM: the context is done
          listening, \* the listener is open
          main,      \* where run is
          wg,        \* Serve's WaitGroup
          sess,      \* sess[c]: the session of client c
          gone,      \* clients that have closed their socket
          cut,       \* clients whose socket the proxy has closed
          toShut,    \* pools Manager.Close has taken and not yet closed
          pollers,   \* the registry's pollers: "run", "told" to stop, "stopped"
          reload,    \* where reloadOnHUP is
          reloads

serverVars == <<ctx, listening, main, wg, sess, gone, cut, toShut>>
registryVars == <<pollers, reload, reloads>>
vars == <<managerVars, serverVars, registryVars>>

SessionState ==
    [pc : {"new", "queued", "startup", "acquire", "wait", "complete", "ready", "relay",
           "pooled", "reset", "finish", "done"},
     key : Keys \cup {NoKey}, pool : Pools \cup {0}, holds : BOOLEAN, watched : BOOLEAN,
     stalled : BOOLEAN]   \* in a call to a backend that does not go on

TypeOK ==
    /\ ManagerTypeOK
    /\ ctx \in BOOLEAN /\ listening \in BOOLEAN
    /\ main \in {"accept", "drain", "wait", "close", "closing", "stopped"}
    /\ wg \in 0 .. Cardinality(Clients)
    /\ sess \in [Clients -> SessionState]
    /\ gone \subseteq Clients /\ cut \subseteq Clients /\ toShut \subseteq Pools
    /\ pollers \in {"run", "told", "stopped"}
    /\ reload \in {"idle", "stopping", "done"} /\ reloads \in 0 .. MaxReloads

\* run up to Serve: the registry is started and the listener bound.
Init ==
    /\ ManagerInit
    /\ ctx = FALSE /\ listening = TRUE /\ main = "accept" /\ wg = 0
    /\ sess = [c \in Clients |-> [pc |-> "new", key |-> NoKey, pool |-> 0,
                               holds |-> FALSE, watched |-> FALSE, stalled |-> FALSE]]
    /\ gone = {} /\ cut = {} /\ toShut = {}
    /\ pollers = "run" /\ reload = "idle" /\ reloads = 0
-----------------------------------------------------------------------------
(* Clients and signals, external to the program *)

Connect(c) ==
    /\ listening /\ sess[c].pc = "new"
    /\ sess' = [sess EXCEPT ![c].pc = "queued"]
    /\ UNCHANGED <<managerVars, registryVars, ctx, listening, main, wg, gone, cut, toShut>>

Leave(c) ==
    /\ sess[c].pc # "new" /\ c \notin gone /\ gone' = gone \cup {c}
    /\ UNCHANGED <<managerVars, registryVars, ctx, listening, main, wg, sess, cut, toShut>>

\* The registry's context is a child of this one.
Signal ==
    /\ ~ctx /\ ctx' = TRUE
    /\ pollers' = IF pollers = "run" THEN "told" ELSE pollers
    /\ UNCHANGED <<managerVars, reload, reloads, listening, main, wg, sess, gone, cut, toShut>>

\* A backend does not go on with a Dial, a Ping or an answer, asks relayResponse for
\* the data of a COPY, or takes nothing more from relayFrontend. These calls have no
\* deadline, and neither ctx nor the end of the client interrupts them.
Stall(c) ==
    /\ sess[c].pc \in {"wait", "relay", "pooled"}
    /\ sess' = [sess EXCEPT ![c].stalled = TRUE]
    /\ UNCHANGED <<managerVars, registryVars, ctx, listening, main, wg, gone, cut, toShut>>
-----------------------------------------------------------------------------
(* Serve *)

\* The goroutine that closes the listener; connections not yet accepted are lost.
CloseListener ==
    /\ ctx /\ listening /\ listening' = FALSE
    /\ sess' = [c \in Clients |->
                  IF sess[c].pc = "queued" THEN [sess[c] EXCEPT !.pc = "done"] ELSE sess[c]]
    /\ UNCHANGED <<managerVars, registryVars, ctx, main, wg, gone, cut, toShut>>

\* A connection may still be accepted after ctx is done.
Accept(c) ==
    /\ main = "accept" /\ listening /\ sess[c].pc = "queued"
    /\ sess' = [sess EXCEPT ![c].pc = "startup"]
    /\ wg' = wg + 1
    /\ UNCHANGED <<managerVars, registryVars, ctx, listening, main, gone, cut, toShut>>

Main(from, to) ==
    /\ main = from /\ main' = to
    /\ UNCHANGED <<registryVars, ctx, listening, wg, sess, gone, cut>>

AcceptFails ==
    /\ ctx /\ ~listening
    /\ Main("accept", "drain") /\ UNCHANGED <<managerVars, toShut>>

Drained ==
    /\ wg = 0
    /\ Main("drain", "wait") /\ UNCHANGED <<managerVars, toShut>>
-----------------------------------------------------------------------------
(* The rest of run: reg.Wait, and mgr.Close on the way out *)

RegistryStopped ==
    /\ pollers = "stopped"
    /\ Main("wait", "close") /\ UNCHANGED <<managerVars, toShut>>

ManagerClose ==
    /\ Main("close", "closing") /\ CloseTake
    /\ toShut' = {pools[k] : k \in Keys} \ {0}

ManagerClosePool ==
    /\ \/ \E p \in toShut : /\ Main("closing", "closing") /\ ClosePool(p)
                            /\ toShut' = toShut \ {p}
       \/ toShut = {} /\ Main("closing", "stopped") /\ UNCHANGED <<managerVars, toShut>>
-----------------------------------------------------------------------------
(* handle, and what blocks in a session *)

\* A stalled session may take its step too, when the backend goes on after all or
\* its connection breaks.
Session(c, from, to) ==
    /\ sess[c].pc = from
    /\ sess' = [sess EXCEPT ![c] = [to EXCEPT !.stalled = FALSE]]
    /\ UNCHANGED <<registryVars, ctx, listening, main, gone, cut, toShut>>

Done(c) == [sess[c] EXCEPT !.pc = "done", !.holds = FALSE, !.watched = FALSE]

Discard(c) == DiscardAt(sess[c].key, sess[c].pool)

\* negotiateStartup and authenticateClient succeed; nothing watches ctx yet.
Authenticate(c) ==
    /\ c \notin gone
    /\ \E k \in Keys : Session(c, "startup", [sess[c] EXCEPT !.pc = "acquire", !.key = k])
    /\ UNCHANGED <<managerVars, wg>>

\* They fail: the client has gone, asks to cancel, or is rejected.
Refuse(c) ==
    /\ Session(c, "startup", Done(c)) /\ wg' = wg - 1
    /\ UNCHANGED managerVars

\* Acquire: poolFor, then Acquire on the pool it found or made.
FindPool(c) ==
    /\ sess[c].pc = "acquire" /\ poolFor(sess[c].key)
    /\ Session(c, "acquire", [sess[c] EXCEPT !.pc = "wait", !.pool = pools'[sess[c].key]])
    /\ UNCHANGED wg

\* The first acquisition completes the startup, a later one serves a message.
Acquired(c) ==
    /\ sess[c].pc = "wait" /\ AcquireFrom(sess[c].pool)
    /\ \E next \in IF sess[c].watched THEN {"relay", "pooled"} ELSE {"complete"} :
            Session(c, "wait", [sess[c] EXCEPT !.pc = next, !.holds = TRUE])
    /\ UNCHANGED wg

\* Timeout, ctx, no room, a failed dial or a closed pool: the client is rejected.
NotAcquired(c) ==
    /\ Session(c, "wait", Done(c)) /\ wg' = wg - 1
    /\ UNCHANGED managerVars

\* completeStartup, and the mode's loop begins with a watcher of its own.
CompleteStartup(c) ==
    \/ /\ Session(c, "complete",
                  [sess[c] EXCEPT !.pc = IF Mode = "session" THEN "pooled" ELSE "ready",
                                  !.watched = TRUE])
       /\ UNCHANGED <<managerVars, wg>>
    \/ Session(c, "complete", Done(c)) /\ wg' = wg - 1 /\ Discard(c)

\* Mutant: the watcher leaves the client's socket open.
WatchSilently(c) ==
    /\ ctx /\ sess[c].watched /\ c \notin cut
    /\ UNCHANGED vars

\* The watcher of serveTransaction and of relayPooled.
Watch(c) ==
    /\ ctx /\ sess[c].watched /\ c \notin cut
    /\ cut' = cut \cup {c}
    /\ UNCHANGED <<managerVars, registryVars, ctx, listening, main, wg, sess, gone, toShut>>

\* serveTransaction reads a message: a simple query is relayed, any other hands
\* the session to relayPooled; a session without a connection acquires one first.
ReadMessage(c) ==
    /\ c \notin gone \cup cut
    /\ \E next \in IF sess[c].holds THEN {"relay", "pooled"} ELSE {"acquire"} :
            Session(c, "ready", [sess[c] EXCEPT !.pc = next])
    /\ UNCHANGED <<managerVars, wg>>

\* It reads Terminate: the connection it may hold is finished.
Terminate(c) ==
    /\ c \notin gone \cup cut
    /\ IF sess[c].holds
       THEN Session(c, "ready", [sess[c] EXCEPT !.pc = "finish", !.watched = FALSE])
            /\ UNCHANGED wg
       ELSE Session(c, "ready", Done(c)) /\ wg' = wg - 1
    /\ UNCHANGED managerVars

\* Mutant: the connection held between two queries is forgotten.
ReadFailsLeaks(c) ==
    /\ c \in gone \cup cut
    /\ Session(c, "ready", Done(c)) /\ wg' = wg - 1
    /\ UNCHANGED managerVars

\* It reads nothing more: what it holds is discarded.
ReadFails(c) ==
    /\ c \in gone \cup cut
    /\ Session(c, "ready", Done(c)) /\ wg' = wg - 1
    /\ IF sess[c].holds THEN Discard(c) ELSE UNCHANGED managerVars

\* relayResponse succeeds: the session is in a transaction or pinned and keeps the
\* connection, or it is released. A client that has gone may not be noticed yet.
Answer(c) ==
    /\ c \notin cut
    /\ \E next \in {"ready", "reset"} : Session(c, "relay", [sess[c] EXCEPT !.pc = next])
    /\ UNCHANGED <<managerVars, wg>>

\* The backend or the client fails while a response is relayed.
AnswerFails(c) ==
    /\ Session(c, "relay", Done(c)) /\ wg' = wg - 1
    /\ Discard(c)

\* releaseBetweenTransactions, within resetTimeout.
ReleaseBetween(c) ==
    /\ Session(c, "reset", [sess[c] EXCEPT !.pc = "ready", !.holds = FALSE])
    /\ ReleaseAt(sess[c].key, sess[c].pool) \/ Discard(c)
    /\ UNCHANGED wg

\* relayPooled ends after a Terminate, and the backend is clean.
RelayedClean(c) ==
    /\ ~ctx /\ c \notin cut
    /\ Session(c, "pooled", [sess[c] EXCEPT !.pc = "finish", !.watched = FALSE])
    /\ UNCHANGED <<managerVars, wg>>

\* relayPooled ends because either side has, or is closed by the watcher.
RelayedUnclean(c) ==
    /\ Session(c, "pooled", Done(c)) /\ wg' = wg - 1
    /\ Discard(c)

\* finishBackend of a clean connection, within resetTimeout.
Finish(c) ==
    /\ Session(c, "finish", Done(c)) /\ wg' = wg - 1
    /\ ReleaseAt(sess[c].key, sess[c].pool) \/ Discard(c)

IdleReaped == Reap /\ UNCHANGED <<serverVars, registryVars>>
-----------------------------------------------------------------------------
(* The registry's pollers and reloadOnHUP *)

PollersStop ==
    /\ pollers = "told" /\ pollers' = "stopped"
    /\ UNCHANGED <<managerVars, serverVars, reload, reloads>>

\* SIGHUP, which select may prefer to a done ctx: Reconfigure stops the pollers
\* and waits for them ...
ReloadStop ==
    /\ reload = "idle" /\ reloads < MaxReloads
    /\ reload' = "stopping" /\ reloads' = reloads + 1
    /\ pollers' = IF pollers = "run" THEN "told" ELSE pollers
    /\ UNCHANGED <<managerVars, serverVars>>

\* ... and launches new ones, under a context that may be done already.
ReloadLaunch ==
    /\ reload = "stopping" /\ pollers = "stopped"
    /\ reload' = "idle" /\ pollers' = IF ctx THEN "told" ELSE "run"
    /\ UNCHANGED <<managerVars, serverVars, reloads>>

ReloadEnds ==
    /\ reload = "idle" /\ ctx /\ reload' = "done"
    /\ UNCHANGED <<managerVars, serverVars, pollers, reloads>>
-----------------------------------------------------------------------------
run == CloseListener \/ AcceptFails \/ Drained \/ RegistryStopped \/ ManagerClose
       \/ ManagerClosePool

\* What the goroutine of session c does once it need not wait for its client.
serve(c) ==
    \/ FindPool(c) \/ Acquired(c) \/ NotAcquired(c) \/ CompleteStartup(c) \/ ReadFails(c)
    \/ Answer(c) \/ AnswerFails(c) \/ ReleaseBetween(c) \/ Finish(c)

\* The process ends.
Exited == main = "stopped" /\ UNCHANGED vars

Next ==
    \/ Signal \/ run \/ PollersStop \/ ReloadStop \/ ReloadLaunch \/ ReloadEnds
    \/ IdleReaped \/ Exited
    \/ \E c \in Clients :
        \/ Connect(c) \/ Leave(c) \/ Stall(c) \/ Accept(c) \/ Authenticate(c) \/ Refuse(c)
        \/ ReadMessage(c) \/ Terminate(c) \/ RelayedClean(c) \/ RelayedUnclean(c)
        \/ Watch(c) \/ serve(c)

Spec == Init /\ [][Next]_vars

\* Goroutines run; a call that has not stalled returns, Acquire when ctx is done, Reset
\* within resetTimeout, relayPooled when its client is closed.  Neither clients nor
\* backends nor the pollers have to go on.
FairSpec ==
    /\ Spec /\ WF_vars(run) /\ WF_vars(ReloadLaunch)
    /\ \A c \in Clients :
        /\ WF_vars(~sess[c].stalled /\ serve(c)) /\ WF_vars(Watch(c))
        /\ WF_vars(c \in gone \cup cut /\ ~sess[c].stalled /\ RelayedUnclean(c))
        /\ WF_vars(c \in gone /\ Refuse(c))
-----------------------------------------------------------------------------
(* Properties *)

\* Connections find their way home: a connection a session holds came from the
\* pool that is in the map under its key, so ReleaseAt and DiscardAt give it to
\* that pool and to no other, and never meet a pool that Close has taken.
HomePool ==
    \A c \in Clients :
        sess[c].holds => sess[c].pool = pools[sess[c].key] /\ sess[c].pool \notin shut

\* When run returns nothing is left: no session, no connection lent or idle, no
\* pool made after Manager.Close had taken the map.
NothingLeft ==
    main = "stopped" =>
        /\ \A c \in Clients : sess[c].pc \in {"new", "done"}
        /\ shut = 1 .. made
        /\ \A p \in Pools : lent[p] = 0 /\ idle[p] = 0

\* The reads of a session that nothing but their peer ends: the client's part of the
\* startup, and the backend calls of Stall.
Held(c) == sess[c].stalled \/ (sess[c].pc = "startup" /\ c \notin gone)

\* Serve "accepts connections until ctx is cancelled, then drains in-flight sessions
\* and returns", and the process then ends, wherever its sessions are blocked; unless
\* one of them, or a poll, stays for ever in a call that ctx does not interrupt.
ShutsDown ==
    \/ ctx ~> main = "stopped"
    \/ <>[](pollers = "told")
    \/ \E c \in Clients : <>[]Held(c)
=============================================================================
