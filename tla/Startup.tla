------------------------------ MODULE Startup -------------------------------
(***************************************************************************)
(* From the configuration file to a client at work: run's start, and serve *)
(* of internal/proxy/session.go up to the point where a session begins to  *)
(* relay, with both SCRAM exchanges of internal/scram (the client against  *)
(* pgpilot, pgpilot against PostgreSQL) and the pooled connections that    *)
(* outlive a session.                                                      *)
(*                                                                         *)
(* A client knows a password and follows the protocol, sends something the *)
(* proxy does not accept, or goes away.  A SCRAM proof is the password it  *)
(* was made from: it verifies if that is the verifier's.  Sessions come    *)
(* one after the other and share what their predecessors left in the       *)
(* pools; the reaper, which only takes from it, is in Pool.                *)
(***************************************************************************)
EXTENDS Config

CONSTANTS Files,        \* configuration files
          Names,        \* user names clients give; "" in a packet without one
          Passwords,
          Databases,    \* databases clients ask for; "" in a packet without one
          MaxSessions   \* bound on the sessions, one after the other

ASSUME StartupAssumption ==
    /\ MaxSessions \in Nat /\ Files \subseteq File \cup {Invalid}
    /\ Names \cup Passwords \cup Databases \cup {""} \subseteq STRING

VARIABLES main,      \* run: "boot", "up", or "exit" when it returned an error
          cfg,       \* the configuration the process and its sessions use
          sessions,  \* sessions so far
          pc,        \* where serve is; "none" between sessions
          client,    \* whom the client says it is, and the password it knows
          told,      \* the last message the client was sent
          secret,    \* the password scram.Server verifies against
          wire,      \* the exchange of a Dial or Ping: what it waits for
          held,      \* the pooled connection of the session
          idle       \* the connections at rest in the pools

session == <<pc, client, told, secret, wire, held>>
startupVars == <<main, cfg, sessions, session, idle>>

Client == [user : Names, password : Passwords, database : Databases]
NoClient == [user |-> "", password |-> "", database |-> ""]

\* A connection to the primary: the role it logged in as, with which password,
\* and the database; the role and the database are its pool's key.
Conn == [user : STRING, password : STRING, database : STRING]
NoConn == NoClient

StartupTypeOK ==
    /\ main \in {"boot", "up", "exit"}
    /\ cfg \in {Load(f) : f \in Files} \cup {Invalid}
    /\ sessions \in 0 .. MaxSessions
    /\ pc \in {"none", "negotiate", "initial", "final", "acquire", "ping", "dial",
               "complete", "serving", "routing"}
    /\ client \in Client \cup {NoClient}
    /\ told \in {"nothing", "refused", "sasl", "continue", "ok", "ready", "error"}
    /\ secret \in STRING
    /\ wire \in {"none", "start", "first", "final", "ok", "silent"}
    /\ held \in Conn /\ idle \subseteq Conn

StartupInit ==
    /\ main = "boot" /\ cfg = Invalid /\ sessions = 0
    /\ pc = "none" /\ client = NoClient /\ told = "nothing" /\ secret = ""
    /\ wire = "none" /\ held = NoConn /\ idle = {}

\* run: Load, the manager, the registry, router.New and Listen, whose errors end it.
Boot ==
    /\ main = "boot"
    /\ \E f \in Files :
        /\ cfg' = Load(f)
        /\ main' \in IF cfg' # Invalid /\ RouterNew(cfg') THEN {"up", "exit"} ELSE {"exit"}
    /\ UNCHANGED <<sessions, session, idle>>
-----------------------------------------------------------------------------
(* How serve ends, and the steps it is made of *)

\* serve returns; last is the last message to the client.
Ends(last) ==
    /\ pc' = "none" /\ told' = last /\ client' = NoClient /\ secret' = ""
    /\ wire' = "none" /\ held' = NoConn

\* reject: a FATAL ErrorResponse, and the end.
reject == Ends("error") /\ UNCHANGED <<main, cfg, sessions, idle>>

\* An error without a message, because the client is gone or off the protocol.
quit == Ends(told) /\ UNCHANGED <<main, cfg, sessions, idle>>

\* serve goes on at p after it sent m; the rest of the session stays.
Goes(p, m) == /\ pc' = p /\ told' = m
              /\ UNCHANGED <<main, cfg, sessions, client, wire, held, idle>>

Database == IF client.database = "" THEN client.user ELSE client.database

\* The key of the client's pool.
InPool(c) == c.user = client.user /\ c.database = Database
-----------------------------------------------------------------------------
(* The startup packet *)

Connect ==
    /\ main = "up" /\ pc = "none" /\ sessions < MaxSessions
    /\ sessions' = sessions + 1 /\ client' \in Client
    /\ pc' = "negotiate" /\ told' = "nothing"
    /\ UNCHANGED <<main, cfg, secret, wire, held, idle>>

\* SSLRequest or GSSENCRequest: refused, and the next packet is awaited.
RefuseTLS ==
    /\ pc = "negotiate"
    /\ Goes("negotiate", "refused") /\ UNCHANGED secret

\* A CancelRequest, or a length that is out of range.
NoStartup == pc = "negotiate" /\ quit

\* Mutant: an unknown user goes on with the zero User.
StartupMessageAnyone ==
    /\ pc = "negotiate"
    /\ \/ reject
       \/ client.user = "" /\ reject
       \/ /\ client.user # ""
          /\ Goes("initial", "sasl") /\ secret' = User(cfg, client.user).password

\* Mutant: the offer is not flushed.
StartupMessageUnflushed ==
    /\ pc = "negotiate"
    /\ \/ reject
       \/ (client.user = "" \/ Listed(cfg, client.user) = {}) /\ reject
       \/ /\ client.user # "" /\ Listed(cfg, client.user) # {}
          /\ Goes("initial", told) /\ secret' = User(cfg, client.user).password

\* The startup message: parameters that do not parse, no user or an unknown one
\* are rejected; a known user is offered SCRAM, with a server for its password.
StartupMessage ==
    /\ pc = "negotiate"
    /\ \/ reject
       \/ (client.user = "" \/ Listed(cfg, client.user) = {}) /\ reject
       \/ /\ client.user # "" /\ Listed(cfg, client.user) # {}
          /\ Goes("initial", "sasl") /\ secret' = User(cfg, client.user).password
-----------------------------------------------------------------------------
(* authenticateClient *)

\* SASLInitialResponse: another message ends the session; another mechanism, or a
\* client-first message that HandleClientFirst refuses, is rejected.
SASLInitialResponse ==
    /\ pc = "initial" /\ told = "sasl"
    /\ \/ quit
       \/ reject
       \/ Goes("final", "continue") /\ UNCHANGED secret

\* HandleClientFinal: the proof verifies.
Verifies(proof, password) == proof = password

\* SASLResponse: likewise; then AuthenticationOk.
SASLResponse ==
    /\ pc = "final" /\ told = "continue"
    /\ \/ quit
       \/ reject
       \/ /\ Verifies(client.password, secret)
          /\ Goes("acquire", "ok") /\ UNCHANGED secret

\* The client disconnects. Between AuthenticationOk and ReadyForQuery nobody
\* reads from it or writes to it, so that only the latter fails.
ClientGone ==
    /\ pc \in {"negotiate", "initial", "final", "complete"}
    /\ quit
-----------------------------------------------------------------------------
(* Manager.Acquire, and Dial *)

\* A connection of the pool is taken out and pinged ...
Reuse ==
    /\ pc = "acquire"
    /\ \E c \in {d \in idle : InPool(d)} :
         held' = c /\ idle' = idle \ {c}
    /\ pc' = "ping" /\ wire' = "ok"
    /\ UNCHANGED <<main, cfg, sessions, client, told, secret>>

PingOK ==
    /\ pc = "ping" /\ wire = "ok"
    /\ pc' = "complete" /\ wire' = "none"
    /\ UNCHANGED <<main, cfg, sessions, client, told, secret, held, idle>>

\* ... and closed if that fails; Acquire tries again.
PingFails ==
    /\ pc = "ping" /\ wire = "ok"
    /\ pc' = "acquire" /\ wire' = "none" /\ held' = NoConn
    /\ UNCHANGED <<main, cfg, sessions, client, told, secret, idle>>

\* None is idle: Dial sends the startup message.
Dial ==
    /\ pc = "acquire" /\ {d \in idle : InPool(d)} = {}
    /\ pc' = "dial" /\ wire' = "start"
    /\ UNCHANGED <<main, cfg, sessions, client, told, secret, held, idle>>

\* Pool.Acquire or the TCP connection fails, or the wait for a connection that
\* other sessions have times out; a waiter may also be refused.
AcquireFails == pc = "acquire" /\ reject

\* The server asks for SCRAM, or for nothing ("trust").
Offered ==
    /\ pc = "dial" /\ wire = "start"
    /\ wire' \in {"first", "ok"}
    /\ UNCHANGED <<main, cfg, sessions, pc, client, told, secret, held, idle>>

\* AuthenticationSASLContinue, on which the proof is sent.
Continued ==
    /\ pc = "dial" /\ wire = "first" /\ wire' = "final"
    /\ UNCHANGED <<main, cfg, sessions, pc, client, told, secret, held, idle>>

\* The server accepts the proof, and its signature passes HandleServerFinal.
Proved ==
    /\ pc = "dial" /\ wire = "final" /\ wire' = "ok"
    /\ UNCHANGED <<main, cfg, sessions, pc, client, told, secret, held, idle>>

\* ReadyForQuery.
Dialled ==
    /\ pc = "dial" /\ wire = "ok"
    /\ pc' = "complete" /\ wire' = "none"
    /\ held' = [user |-> client.user, password |-> ManagerPassword(cfg, client.user),
                database |-> Database]
    /\ UNCHANGED <<main, cfg, sessions, client, told, secret, idle>>

\* ErrorResponse (the role's password in PostgreSQL is another), a mechanism other
\* than SCRAM, a message out of place, or the connection is lost.
DialFails == pc = "dial" /\ wire # "silent" /\ reject

\* The server is there but stops answering; Dial and Ping run without a deadline.
FallsSilent ==
    /\ pc \in {"ping", "dial"} /\ wire' = "silent"
    /\ UNCHANGED <<main, cfg, sessions, pc, client, told, secret, held, idle>>
-----------------------------------------------------------------------------
(* completeStartup and the session proper *)

\* ReadyForQuery; routing mode gives the connection back.
CompleteStartup ==
    /\ pc = "complete" /\ told' = "ready"
    /\ IF cfg.replicas > 0
       THEN pc' = "routing" /\ idle' = idle \cup {held} /\ held' = NoConn
       ELSE pc' = "serving" /\ UNCHANGED <<idle, held>>
    /\ UNCHANGED <<main, cfg, sessions, client, secret, wire>>

\* The session is over: its connection goes back to its pool or is closed.
SessionOver ==
    /\ pc \in {"serving", "routing"} /\ Ends("ready")
    /\ idle' \in {idle, IF held = NoConn THEN idle ELSE idle \cup {held}}
    /\ UNCHANGED <<main, cfg, sessions>>
-----------------------------------------------------------------------------
\* What a client or PostgreSQL sends next, and what serve does on its own.
Handshake ==
    \/ RefuseTLS \/ NoStartup \/ StartupMessage \/ SASLInitialResponse \/ SASLResponse
    \/ Reuse \/ PingOK \/ PingFails \/ Dial \/ AcquireFails
    \/ Offered \/ Continued \/ Proved \/ Dialled \/ DialFails
    \/ CompleteStartup

StartupNext == Boot \/ Connect \/ Handshake \/ ClientGone \/ FallsSilent \/ SessionOver

StartupSpec == StartupInit /\ [][StartupNext]_startupVars
-----------------------------------------------------------------------------
(* Properties *)

Inside == {"acquire", "ping", "dial", "complete", "serving", "routing"}

\* Only a configured user whose client knows its password gets as far as a
\* backend connection, whatever was sent on the way and by whoever came before;
\* and it is told of success before.
Admitted ==
    pc \in Inside =>
        /\ told \in {"ok", "ready"}
        /\ \E i \in DOMAIN cfg.users :
             cfg.users[i] = [name |-> client.user, password |-> client.password]

\* Every connection, the session's or one left in a pool by an earlier session,
\* has logged in as the role its pool is for, with the password that clients of
\* that pool have to prove: a client never works with another role's rights, nor
\* under a password it did not show.
OneRole ==
    /\ \A c \in idle : c.user # "" /\ c.password = User(cfg, c.user).password
    /\ held # NoConn => InPool(held) /\ held.password = client.password

\* A configuration that Load accepts never fails later: the pools, the policy and
\* the registry can be made from it, with the positive sizes and delays that
\* their own correctness assumes.
AssumptionsMet ==
    main # "boot" /\ cfg # Invalid =>
        /\ PoolNew(cfg) /\ RouterNew(cfg)
        /\ cfg.users # <<>> /\ cfg.fencing \in Fences
        /\ \A f \in DOMAIN RegistryNew(cfg) : RegistryNew(cfg)[f] > 0

\* A client that goes on talking, and not only asks for TLS again, is served or told
\* to go: past its own silence a session is stuck only on a server that has accepted
\* a connection and fallen silent, because Dial and Ping have no deadline.
StartupEnds ==
    pc \notin {"none", "serving", "routing"} ~>
        pc \in {"none", "serving", "routing"} \/ wire = "silent"
=============================================================================
