--------------------------- MODULE SessionProofs ----------------------------
(***************************************************************************)
(* Proofs about what happens to one client: Startup, which admits it,      *)
(* Classify, which decides where its queries go, and Relay, which serves   *)
(* it on a connection of its own.                                          *)
(*                                                                         *)
(* Startup's invariant follows the exchange: from the offer on, the secret *)
(* is the listed user's; from AuthenticationOk on, the client's password   *)
(* is the secret; and what validate says of duplicates makes the entry     *)
(* that Config.User finds the one in the manager's map.                    *)
(*                                                                         *)
(* Classify's theorems are inductions over parse trees of any depth.  The  *)
(* functions that walk a tree are shown to exist first: each level of the  *)
(* trees is put together from earlier ones.                                *)
(*                                                                         *)
(* Relay's keeps an account: every request sent is answered, or in one of  *)
(* the queues and hands between the client's write and its read, or lost,  *)
(* and counted once.  A client that has had all its answers when it says   *)
(* goodbye has therefore left nothing on the connection.                   *)
(***************************************************************************)
EXTENDS FrontEnd, Relay, Counting

\* Load returns an error, or a validated configuration with fields of their types.
LEMMA LoadFacts ==
    ASSUME NEW f \in Files, Load(f) # Invalid
    PROVE  /\ validate(Load(f)) /\ Load(f).users \in Seq(Entry)
           /\ Load(f).maxSize \in Int /\ Load(f).interval \in Int
           /\ Load(f).failureThreshold \in Int
           /\ Load(f).baseBackoff \in Int /\ Load(f).maxBackoff \in Int
<1>1. f \in File
  BY StartupAssumption, Zenon DEF Load
<1>2. Load(f) = applyDefaults(f) /\ validate(applyDefaults(f))
  BY DEF Load
<1>3. /\ applyDefaults(f).users = f.users
      /\ applyDefaults(f).maxSize \in Int /\ applyDefaults(f).interval \in Int
      /\ applyDefaults(f).failureThreshold \in Int
      /\ applyDefaults(f).baseBackoff \in Int /\ applyDefaults(f).maxBackoff \in Int
  <2>1. /\ f.maxSize \in Int /\ f.interval \in Int /\ f.failureThreshold \in Int
        /\ f.baseBackoff \in Int /\ f.maxBackoff \in Int
    BY <1>1 DEF File
  <2>2. {"users", "maxSize", "interval", "failureThreshold", "baseBackoff", "maxBackoff"}
          \subseteq DOMAIN f
    BY <1>1 DEF File
  <2>3. \A x \in DOMAIN f : applyDefaults(f)[x] \in {f[x], Defaults[x]}
                            /\ (x \notin DOMAIN Zero => applyDefaults(f)[x] = f[x])
    BY DEF applyDefaults
  <2>4. "users" \notin DOMAIN Zero
    BY DEF Zero
  <2>5. /\ Defaults.maxSize \in Int /\ Defaults.interval \in Int
        /\ Defaults.failureThreshold \in Int
        /\ Defaults.baseBackoff \in Int /\ Defaults.maxBackoff \in Int
    BY DEF Defaults
  <2>6. applyDefaults(f).users = f.users
    BY <2>2, <2>3, <2>4
  <2>7. QED
    BY <2>1, <2>2, <2>3, <2>5, <2>6
<1>4. f.users \in Seq(Entry)
  BY <1>1 DEF File
<1>5. QED
  BY <1>2, <1>3, <1>4

\* In a validated configuration a listed name has one entry: Config.User and the
\* manager's map find it both.
LEMMA OneEntry ==
    ASSUME NEW c, validate(c), c.users \in Seq(Entry), NEW name, Listed(c, name) # {}
    PROVE  \E i \in DOMAIN c.users :
             /\ c.users[i] = User(c, name) /\ User(c, name).name = name
             /\ ManagerPassword(c, name) = User(c, name).password
             /\ c.users[i] \in Entry
<1>1. PICK i \in Listed(c, name) : TRUE
  OBVIOUS
<1>2. i \in DOMAIN c.users /\ c.users[i].name = name /\ c.users[i] \in Entry
      /\ DOMAIN c.users \subseteq Nat
  BY DEF Listed
<1>3. \A j \in Listed(c, name) : j = i
  <2> SUFFICES ASSUME NEW j \in Listed(c, name), j # i PROVE FALSE
    OBVIOUS
  <2>1. j \in DOMAIN c.users /\ c.users[j].name = name /\ j \in Nat /\ j >= 1 /\ i >= 1 /\ i \in Nat
    BY <1>2 DEF Listed
  <2>2. j \in 1 .. i - 1 \/ i \in 1 .. j - 1
    BY <2>1
  <2>3. QED
    BY <1>2, <2>1, <2>2, Zenon DEF validate
<1>4. Listed(c, name) = {i}
  BY <1>3
<1>5. /\ (CHOOSE k \in Listed(c, name) : \A j \in Listed(c, name) : k <= j) = i
      /\ (CHOOSE k \in Listed(c, name) : \A j \in Listed(c, name) : j <= k) = i
  BY <1>2, <1>4
<1>6. User(c, name) = c.users[i] /\ ManagerPassword(c, name) = c.users[i].password
  BY <1>5, Zenon DEF User, ManagerPassword
<1>7. QED
  BY <1>2, <1>6
-----------------------------------------------------------------------------
(* Startup: the inductive invariant *)

\* The process: nothing happens before a valid configuration is loaded.
Booted ==
    /\ main # "up" => pc = "none" /\ idle = {} /\ held = NoConn
    /\ main = "up" => cfg # Invalid
    /\ cfg # Invalid => \E f \in Files : cfg = Load(f)

\* The session: what has been established by each point of serve.
Known ==
    /\ pc # "none" => client \in Client
    /\ pc \in {"initial", "final"} \cup Inside =>
         client.user # "" /\ Listed(cfg, client.user) # {}
         /\ secret = User(cfg, client.user).password
    /\ pc \in Inside => client.password = secret /\ told \in {"ok", "ready"}
    /\ held # NoConn => pc \in {"ping", "complete", "serving"}
    /\ pc \in {"ping", "complete", "serving"} => held.user = client.user /\ InPool(held)

StartupInv == StartupTypeOK /\ Booted /\ Known /\ OneRole

\* The absence of a connection is typed as one, of a user that no file lists.
LEMMA NoConnFacts == NoConn \in Conn /\ NoConn.user = ""
<1>1. "" \in STRING
  BY StartupAssumption, Zenon
<1>2. QED
  BY <1>1, Zenon DEF NoConn, NoClient, Conn

\* The bound on sessions is a natural number.
LEMMA SessionsBound == MaxSessions \in Nat
BY StartupAssumption, Zenon

\* The invariant holds before run has loaded a file.
LEMMA StartupInvInit == StartupInit => StartupInv
<1> SUFFICES ASSUME StartupInit PROVE StartupInv
  OBVIOUS
<1>1. "" \in STRING
  BY StartupAssumption, Zenon
<1>2. 0 \in 0 .. MaxSessions
  BY SessionsBound
<1>3. StartupTypeOK
  BY <1>1, <1>2, NoConnFacts, Zenon DEF StartupInit, StartupTypeOK
<1>4. Booted /\ Known /\ OneRole
  BY Zenon DEF StartupInit, Booted, Known, OneRole, Inside
<1>5. QED
  BY <1>3, <1>4 DEF StartupInv

\* What the invariant gives a step of serve.
LEMMA UpFacts ==
    ASSUME StartupInv, main = "up"
    PROVE  validate(cfg) /\ cfg.users \in Seq(Entry)
<1>1. PICK f \in Files : cfg = Load(f) /\ cfg # Invalid
  BY DEF StartupInv, Booted
<1>2. QED
  BY <1>1, LoadFacts

\* The end of a session keeps the invariant, whatever it leaves idle of its own.
LEMMA EndsKeeps ==
    ASSUME StartupInv, NEW m,
           m \in {"nothing", "refused", "sasl", "continue", "ok", "ready", "error"},
           Ends(m), UNCHANGED <<main, cfg, sessions>>,
           idle' = idle \/ (held # NoConn /\ idle' = idle \cup {held} /\ pc \in Inside)
    PROVE  StartupInv'
<1>1. StartupTypeOK'
  <2>1. "" \in STRING
    BY StartupAssumption, Zenon
  <2>2. QED
    BY <2>1, NoConnFacts, Zenon DEF StartupInv, StartupTypeOK, Ends
<1>2. Booted'
  BY Zenon DEF StartupInv, Booted, Ends
<1>3. Known'
  BY Zenon DEF StartupInv, Known, Ends, Inside
<1>4. OneRole'
  <2>1. ASSUME held # NoConn, pc \in Inside
        PROVE  held.user # "" /\ held.password = User(cfg, held.user).password
    BY <2>1, Zenon DEF StartupInv, OneRole, Known, InPool
  <2>2. QED
    BY <2>1, Zenon DEF StartupInv, OneRole, Ends
<1>5. QED
  BY <1>1, <1>2, <1>3, <1>4 DEF StartupInv

\* Every step of run, of a client and of PostgreSQL keeps the invariant.
LEMMA StartupInvStep ==
    ASSUME StartupInv, StartupNext
    PROVE  StartupInv'
<1>1. CASE Boot
  <2>1. PICK f \in Files : cfg' = Load(f)
                           /\ main' \in IF cfg' # Invalid /\ RouterNew(cfg') THEN {"up", "exit"}
                                       ELSE {"exit"}
    BY <1>1 DEF Boot
  <2>2. main' = "up" => cfg' # Invalid
    BY <2>1
  <2>3. main = "boot" /\ UNCHANGED <<sessions, pc, client, told, secret, wire, held, idle>>
    BY <1>1 DEF Boot, session
  <2>4. pc = "none" /\ idle = {} /\ held = NoConn
    BY <2>3 DEF StartupInv, Booted
  <2>5. StartupTypeOK'
    BY <2>1, <2>3 DEF StartupInv, StartupTypeOK
  <2>6. Booted'
    BY <2>1, <2>2, <2>3, <2>4 DEF Booted
  <2>7. Known' /\ OneRole'
    BY <2>3, <2>4 DEF Known, OneRole, Inside
  <2>8. QED
    BY <2>5, <2>6, <2>7 DEF StartupInv
<1>2. CASE Connect
  <2>1. StartupTypeOK'
    BY <1>2, SessionsBound DEF Connect, StartupInv, StartupTypeOK
  <2>2. Booted' /\ Known' /\ OneRole'
    BY <1>2, Zenon DEF Connect, StartupInv, Booted, Known, OneRole, Inside
  <2>3. QED
    BY <2>1, <2>2 DEF StartupInv
<1>3. ASSUME quit \/ reject PROVE StartupInv'
  BY <1>3, EndsKeeps DEF quit, reject, StartupInv, StartupTypeOK
<1>4. CASE SessionOver
  BY <1>4, EndsKeeps DEF SessionOver, Inside
<1>5. CASE RefuseTLS
  <2>1. /\ pc = "negotiate" /\ pc' = "negotiate" /\ told' = "refused"
        /\ UNCHANGED <<main, cfg, sessions, client, wire, held, idle, secret>>
    BY <1>5 DEF RefuseTLS, Goes
  <2>2. QED
    BY <2>1, Zenon DEF StartupInv, StartupTypeOK, Booted, Known, OneRole, Inside, InPool, Database
<1>6. CASE /\ pc = "negotiate" /\ client.user # "" /\ Listed(cfg, client.user) # {}
           /\ Goes("initial", "sasl") /\ secret' = User(cfg, client.user).password
  <2>1. main = "up"
    BY <1>6, Zenon DEF StartupInv, Booted
  <2>2. User(cfg, client.user).password \in STRING
    BY <1>6, <2>1, UpFacts, OneEntry, Zenon DEF Entry
  <2>3. StartupTypeOK'
    BY <1>6, <2>2, Zenon DEF StartupInv, StartupTypeOK, Goes
  <2>4. QED
    BY <1>6, <2>3, Zenon DEF StartupInv, Goes, Booted, Known, OneRole, Inside, InPool, Database
<1>7. CASE StartupMessage
  BY <1>3, <1>6, <1>7, Zenon DEF StartupMessage
<1>8. CASE pc = "initial" /\ Goes("final", "continue") /\ UNCHANGED secret
  BY <1>8, Zenon
  DEF StartupInv, StartupTypeOK, Goes, Booted, Known, OneRole, Inside, InPool, Database
<1>9. CASE SASLInitialResponse
  BY <1>3, <1>8, <1>9 DEF SASLInitialResponse
<1>10. CASE /\ pc = "final" /\ Verifies(client.password, secret)
            /\ Goes("acquire", "ok") /\ UNCHANGED secret
  BY <1>10, Zenon
  DEF StartupInv, StartupTypeOK, Goes, Verifies, Booted, Known, OneRole, Inside, InPool, Database
<1>11. CASE SASLResponse
  BY <1>3, <1>10, <1>11 DEF SASLResponse
<1>12. CASE Reuse
  <2>1. PICK c \in idle : InPool(c) /\ held' = c /\ idle' = idle \ {c}
    BY <1>12 DEF Reuse
  <2>2. /\ pc = "acquire" /\ pc' = "ping" /\ wire' = "ok"
        /\ UNCHANGED <<main, cfg, sessions, client, told, secret>>
    BY <1>12 DEF Reuse
  <2>3. c.user # "" /\ c.password = User(cfg, c.user).password /\ c.user = client.user
    BY <2>1, Zenon DEF StartupInv, OneRole, InPool
  <2>4. StartupTypeOK'
    BY <2>1, <2>2 DEF StartupInv, StartupTypeOK
  <2>5. Booted' /\ Known'
    BY <2>1, <2>2, <2>3, Zenon DEF StartupInv, Booted, Known, Inside, InPool, Database
  <2>6. OneRole'
    BY <2>1, <2>2, <2>3, Zenon DEF StartupInv, OneRole, Known, Inside, InPool, Database
  <2>7. QED
    BY <2>4, <2>5, <2>6 DEF StartupInv
<1>13. CASE PingOK
  BY <1>13, Zenon
  DEF PingOK, StartupInv, StartupTypeOK, Booted, Known, OneRole, Inside, InPool, Database
<1>14. CASE PingFails
  BY <1>14, NoConnFacts, Zenon
  DEF PingFails, StartupInv, StartupTypeOK, Booted, Known, OneRole, Inside, InPool, Database
<1>15. CASE Dial
  BY <1>15, Zenon
  DEF Dial, StartupInv, StartupTypeOK, Booted, Known, OneRole, Inside, InPool, Database
<1>16. CASE Offered \/ Continued \/ Proved \/ FallsSilent
  BY <1>16, Zenon
  DEF Offered, Continued, Proved, FallsSilent, StartupInv, StartupTypeOK, Booted, Known, OneRole,
      Inside, InPool, Database
<1>17. CASE Dialled
  <2>1. main = "up" /\ Listed(cfg, client.user) # {} /\ client \in Client
        /\ client.password = User(cfg, client.user).password
    BY <1>17, Zenon DEF Dialled, StartupInv, Booted, Known, Inside
  <2>2. ManagerPassword(cfg, client.user) = client.password
    BY <2>1, UpFacts, OneEntry
  <2>3. client.user \in STRING /\ client.password \in STRING /\ Database \in STRING
    BY <2>1, StartupAssumption, Zenon DEF Client, Database
  <2>4. held' \in Conn /\ held'.user = client.user /\ held'.password = client.password
        /\ held'.database = Database
    BY <1>17, <2>2, <2>3 DEF Dialled, Conn
  <2>5. /\ pc = "dial" /\ pc' = "complete" /\ wire' = "none"
        /\ UNCHANGED <<main, cfg, sessions, client, told, secret, idle>>
    BY <1>17 DEF Dialled
  <2>6. StartupTypeOK'
    BY <2>4, <2>5 DEF StartupInv, StartupTypeOK
  <2>7. Booted' /\ Known' /\ OneRole'
    BY <2>4, <2>5, Zenon DEF StartupInv, Booted, Known, OneRole, Inside, InPool, Database
  <2>8. QED
    BY <2>6, <2>7 DEF StartupInv
<1>18. CASE CompleteStartup
  <2>1. /\ pc = "complete" /\ told' = "ready"
        /\ UNCHANGED <<main, cfg, sessions, client, secret, wire>>
    BY <1>18 DEF CompleteStartup
  <2>2. held \in Conn /\ held.user = client.user /\ client.user # "" /\ InPool(held)
        /\ client.password = User(cfg, client.user).password
    BY <2>1, Zenon DEF StartupInv, StartupTypeOK, Known, Inside
  <2>3. held # NoConn
    BY <2>2, NoConnFacts, Zenon
  <2>4. held.password = client.password
    BY <2>3, Zenon DEF StartupInv, OneRole
  <2>5. CASE pc' = "routing" /\ idle' = idle \cup {held} /\ held' = NoConn
    <3>1. StartupTypeOK'
      BY <2>1, <2>2, <2>5, NoConnFacts, Zenon DEF StartupInv, StartupTypeOK
    <3>2. Booted' /\ Known'
      BY <2>1, <2>2, <2>5, Zenon DEF StartupInv, Booted, Known, Inside
    <3>3. OneRole'
      BY <2>1, <2>2, <2>4, <2>5, Zenon DEF StartupInv, OneRole
    <3>4. QED
      BY <3>1, <3>2, <3>3 DEF StartupInv
  <2>6. CASE pc' = "serving" /\ UNCHANGED <<idle, held>>
    BY <2>1, <2>2, <2>4, <2>6, Zenon
    DEF StartupInv, StartupTypeOK, Booted, Known, OneRole, Inside, InPool, Database
  <2>7. QED
    BY <1>18, <2>5, <2>6 DEF CompleteStartup
<1>19. QED
  BY <1>1, <1>2, <1>3, <1>4, <1>5, <1>7, <1>9, <1>11, <1>12, <1>13, <1>14, <1>15, <1>16,
     <1>17, <1>18
  DEF StartupNext, Handshake, NoStartup, ClientGone, AcquireFails, DialFails

\* The invariant holds in every reachable state of the startup.
LEMMA StartupInvariant == StartupSpec => []StartupInv
<1>1. ASSUME StartupInv, UNCHANGED startupVars PROVE StartupInv'
  <2>1. UNCHANGED <<main, cfg, sessions, pc, client, told, secret, wire, held, idle>>
    BY <1>1 DEF startupVars, session
  <2>2. StartupTypeOK' /\ Booted'
    BY <1>1, <2>1 DEF StartupInv, StartupTypeOK, Booted
  <2>3. Known'
    BY <1>1, <2>1, Zenon DEF StartupInv, Known, InPool, Database
  <2>4. OneRole'
    BY <1>1, <2>1, Zenon DEF StartupInv, OneRole, InPool, Database
  <2>5. QED
    BY <2>2, <2>3, <2>4 DEF StartupInv
<1>2. StartupInv /\ [StartupNext]_startupVars => StartupInv'
  BY <1>1, StartupInvStep
<1>3. QED
  BY <1>2, StartupInvInit, PTL DEF StartupSpec
-----------------------------------------------------------------------------
(* Startup: the theorems *)

\* The process, the session and the pools of Startup keep their types.
THEOREM StartupTyped == StartupSpec => []StartupTypeOK
<1>1. StartupInv => StartupTypeOK
  BY DEF StartupInv
<1>2. QED
  BY <1>1, StartupInvariant, PTL

\* Nobody is admitted without a configured user's password, for any configuration
\* that Load accepts and any number of clients.
THEOREM StartupAdmits == StartupSpec => []Admitted
<1>1. StartupInv => Admitted
  <2> SUFFICES ASSUME StartupInv, pc \in Inside
               PROVE  /\ told \in {"ok", "ready"}
                      /\ \E i \in DOMAIN cfg.users :
                           cfg.users[i] = [name |-> client.user, password |-> client.password]
    BY DEF Admitted
  <2>1. /\ told \in {"ok", "ready"} /\ Listed(cfg, client.user) # {}
        /\ client.password = User(cfg, client.user).password
    BY Zenon DEF StartupInv, Known
  <2>2. main = "up"
    BY DEF StartupInv, Booted, Inside
  <2>3. PICK i \in DOMAIN cfg.users :
          /\ cfg.users[i] = User(cfg, client.user)
          /\ User(cfg, client.user).name = client.user /\ cfg.users[i] \in Entry
    BY <2>1, <2>2, UpFacts, OneEntry
  <2>4. cfg.users[i] = [name |-> client.user, password |-> client.password]
    BY <2>1, <2>3 DEF Entry
  <2>5. QED
    BY <2>1, <2>4
<1>2. QED
  BY <1>1, StartupInvariant, PTL

\* Pooled connections carry the role and the password their clients prove.
THEOREM StartupOneRole == StartupSpec => []OneRole
<1>1. StartupInv => OneRole
  BY DEF StartupInv
<1>2. QED
  BY <1>1, StartupInvariant, PTL

\* What Load accepts meets the assumptions of the pool, the router and the registry.
THEOREM StartupAssumptionsMet == StartupSpec => []AssumptionsMet
<1>1. StartupInv => AssumptionsMet
  <2> SUFFICES ASSUME StartupInv, cfg # Invalid
               PROVE  /\ PoolNew(cfg) /\ RouterNew(cfg)
                      /\ cfg.users # <<>> /\ cfg.fencing \in Fences
                      /\ \A f \in DOMAIN RegistryNew(cfg) : RegistryNew(cfg)[f] > 0
    BY DEF AssumptionsMet
  <2>2. PICK g \in Files : cfg = Load(g) /\ cfg # Invalid
    BY DEF StartupInv, Booted
  <2>3. /\ validate(cfg) /\ cfg.maxSize \in Int /\ cfg.interval \in Int
        /\ cfg.failureThreshold \in Int /\ cfg.baseBackoff \in Int /\ cfg.maxBackoff \in Int
    BY <2>2, LoadFacts
  <2>4. PoolNew(cfg) /\ RouterNew(cfg) /\ cfg.users # <<>> /\ cfg.fencing \in Fences
    <3>1. /\ cfg.maxSize >= 1 /\ cfg.users # <<>> /\ cfg.fencing \in Fences
          /\ cfg.policy \in PolicyNames
      BY <2>3, Zenon DEF validate
    <3>2. cfg.maxSize > 0
      BY <2>3, <3>1
    <3>3. QED
      BY <3>1, <3>2, Zenon DEF PoolNew, RouterNew, PolicyNames
  <2>5. \A f \in DOMAIN RegistryNew(cfg) : RegistryNew(cfg)[f] > 0
    BY <2>3 DEF RegistryNew, Defaults
  <2>6. QED
    BY <2>4, <2>5
<1>2. QED
  BY <1>1, StartupInvariant, PTL
-----------------------------------------------------------------------------
(* Classify: recursion and induction over parse trees *)

\* How early the parser has n.
Level(n) == CHOOSE i \in 1 .. Depth : n \in Levels[i] /\ \A j \in 1 .. Depth : n \in Levels[j] => i <= j
level == [n \in Trees |-> Level(n)]

\* A child is parsed before what it is a child of.
LEMMA ChildEarlier ==
    /\ level \in [Trees -> Nat]
    /\ \A n \in Trees : Grammatical(n)
    /\ \A n \in Trees : \A m \in Children(n) : m \in Trees /\ level[m] < level[n]
<1>1. Depth \in Nat
  BY ParserAssumption
<1>2. ASSUME NEW n \in Trees
      PROVE  /\ Level(n) \in 1 .. Depth /\ n \in Levels[Level(n)]
             /\ \A j \in 1 .. Depth : n \in Levels[j] => Level(n) <= j
  <2> DEFINE T == {i \in 1 .. Depth : n \in Levels[i]}
  <2>1. T \subseteq Nat /\ T # {}
    BY <1>1 DEF Trees
  <2>2. PICK i \in T : \A j \in T : i <= j
    <3> HIDE DEF T
    <3>1. QED
      BY <2>1, Least, Zenon
  <2>3. i \in 1 .. Depth /\ n \in Levels[i] /\ \A j \in 1 .. Depth : n \in Levels[j] => i <= j
    BY <2>2, Zenon
  <2>4. QED
    BY <2>3, Zenon DEF Level
<1>3. ASSUME NEW n \in Trees
      PROVE  /\ Grammatical(n)
             /\ \A m \in Children(n) : \E j \in 1 .. Level(n) - 1 : m \in Levels[j]
  <2> DEFINE i == Level(n)
  <2>1. i \in 1 .. Depth /\ n \in Levels[i]
    BY <1>2, Zenon
  <2> HIDE DEF i
  <2>2. Grammatical(n) /\ Children(n) \subseteq UNION {Levels[j] : j \in 1 .. i - 1}
    BY <2>1, ParserAssumption, Zenon
  <2>3. QED
    BY <2>2, Zenon DEF i
<1>4. level \in [Trees -> Nat]
  BY <1>1, <1>2 DEF level
<1>5. ASSUME NEW n \in Trees, NEW m \in Children(n) PROVE m \in Trees /\ level[m] < level[n]
  <2> DEFINE k == Level(n)
             l == Level(m)
  <2>1. PICK j \in 1 .. k - 1 : m \in Levels[j]
    BY <1>3, Zenon
  <2>2. k \in 1 .. Depth
    BY <1>2
  <2> HIDE DEF k, l
  <2>3. j \in 1 .. Depth /\ j \in Nat /\ k \in Nat /\ j < k
    BY <1>1, <2>1, <2>2
  <2>4. m \in Trees
    BY <2>1, <2>3, Zenon DEF Trees
  <2>5. l \in 1 .. Depth /\ l <= j
    BY <1>2, <2>1, <2>3, <2>4, Zenon DEF l
  <2>6. l < k
    BY <1>1, <2>3, <2>5
  <2>7. QED
    BY <2>4, <2>6 DEF level, k, l
<1>6. QED
  BY <1>3, <1>4, <1>5, Zenon

\* D[n][f] is the value at n from the values of f at what has a lower rank.
Recursive(T, rank, V, D) ==
    /\ rank \in [T -> Nat] /\ V # {}
    /\ \A n \in T : \A g \in [T -> V] : D[n][g] \in V
    /\ \A n \in T : \A g, h \in [T -> V] :
         (\A m \in T : rank[m] < rank[n] => g[m] = h[m]) => D[n][g] = D[n][h]

\* A function may be defined by recursion over ranks.
LEMMA Recursion ==
    ASSUME NEW T, NEW rank, NEW V, NEW D, Recursive(T, rank, V, D)
    PROVE  \E f \in [T -> V] : \A n \in T : f[n] = D[n][f]
<1> USE DEF Recursive
<1> DEFINE Good(f, k) == f \in [T -> V] /\ \A n \in T : rank[n] < k => f[n] = D[n][f]
<1>1. \A k \in Nat : \E f : Good(f, k)
  <2> DEFINE B == {k \in Nat : ~ \E f : Good(f, k)}
  <2>1. ASSUME B # {} PROVE FALSE
    <3>1. PICK k \in B : \A j \in B : k <= j
      <4>1. B \subseteq Nat
        OBVIOUS
      <4> HIDE DEF B
      <4>2. QED
        BY <2>1, <4>1, Least, Zenon
    <3>2. CASE k = 0
      <4>1. PICK v : v \in V
        OBVIOUS
      <4> DEFINE f == [n \in T |-> v]
      <4>2. Good(f, 0)
        BY <4>1
      <4>3. QED
        BY <3>2, <4>2
    <3>3. CASE k # 0
      <4> DEFINE j == k - 1
      <4>1. j \in Nat /\ k = j + 1 /\ j \notin B
        BY <3>1, <3>3
      <4>2. PICK g : Good(g, j)
        BY <4>1
      <4> DEFINE f == [n \in T |-> D[n][g]]
      <4>3. f \in [T -> V]
        BY <4>2
      <4> HIDE DEF j
      <4>4. \A n \in T : rank[n] < j => f[n] = g[n]
        BY <4>2
      <4>5. ASSUME NEW n \in T, rank[n] < k PROVE f[n] = D[n][f]
        <5>1. \A m \in T : rank[m] < rank[n] => rank[m] < j
          BY <4>1, <4>5
        <5>2. \A m \in T : rank[m] < rank[n] => f[m] = g[m]
          BY <4>4, <5>1, Zenon
        <5>3. D[n][f] = D[n][g]
          <6> HIDE DEF f
          <6>1. QED
            BY <4>2, <4>3, <5>2, Zenon
        <5>4. QED
          BY <5>3
      <4>6. Good(f, k)
        BY <4>3, <4>5, Zenon
      <4>7. QED
        BY <3>1, <4>6, Zenon
    <3>4. QED
      BY <3>2, <3>3
  <2>2. QED
    BY <2>1
<1>2. ASSUME NEW k \in Nat, NEW l \in Nat, NEW f, NEW g, Good(f, k), Good(g, l)
      PROVE  \A n \in T : rank[n] < k /\ rank[n] < l => f[n] = g[n]
  <2> DEFINE W == {n \in T : rank[n] < k /\ rank[n] < l /\ f[n] # g[n]}
             B == {rank[n] : n \in W}
  <2>1. ASSUME NEW n0 \in W PROVE FALSE
    <3>1. B \subseteq Nat /\ rank[n0] \in B
      OBVIOUS
    <3>2. PICK b \in B : \A j \in B : b <= j
      <4> HIDE DEF B, W
      <4>2. QED
        BY <3>1, Least, Zenon
    <3>3. PICK n \in W : b = rank[n]
      OBVIOUS
    <3>4. ASSUME NEW m \in T, rank[m] < rank[n] PROVE f[m] = g[m]
      <4>1. rank[m] \in Nat /\ rank[n] \in Nat /\ rank[n] < k /\ rank[n] < l
        BY <3>3
      <4>2. rank[m] < k /\ rank[m] < l /\ ~ (rank[n] <= rank[m])
        BY <3>4, <4>1
      <4>3. m \notin W
        BY <3>2, <3>3, <4>2
      <4>4. QED
        BY <4>2, <4>3
    <3>5. D[n][f] = D[n][g]
      BY <1>2, <3>4, Zenon
    <3>6. f[n] = D[n][f] /\ g[n] = D[n][g]
      BY <1>2, <3>3, Zenon
    <3>7. QED
      BY <3>3, <3>5, <3>6
  <2>2. QED
    BY <2>1
<1> DEFINE c(n) == CHOOSE f : Good(f, rank[n] + 1)
           F == [n \in T |-> c(n)[n]]
<1>3. ASSUME NEW n \in T PROVE Good(c(n), rank[n] + 1) /\ rank[n] \in Nat /\ rank[n] + 1 \in Nat
  <2>1. rank[n] \in Nat /\ rank[n] + 1 \in Nat
    OBVIOUS
  <2> HIDE DEF Good
  <2>2. QED
    BY <1>1, <2>1, Zenon
<1> HIDE DEF c
<1>4. F \in [T -> V]
  BY <1>3
<1>5. ASSUME NEW n \in T PROVE F[n] = D[n][F]
  <2>1. ASSUME NEW m \in T, rank[m] < rank[n] PROVE F[m] = c(n)[m]
    <3>1. Good(c(n), rank[n] + 1) /\ Good(c(m), rank[m] + 1)
      BY <1>3
    <3>2. rank[m] \in Nat /\ rank[n] \in Nat /\ rank[m] < rank[m] + 1 /\ rank[m] < rank[n] + 1
      BY <2>1, <1>3
    <3>3. c(m)[m] = c(n)[m]
      <4> HIDE DEF Good
      <4> DEFINE k == rank[n] + 1
                 l == rank[m] + 1
                 f == c(n)
                 g == c(m)
      <4>1. k \in Nat /\ l \in Nat /\ rank[m] < k /\ rank[m] < l
        BY <3>2
      <4>2. Good(f, k) /\ Good(g, l)
        BY <3>1, Zenon
      <4> HIDE DEF k, l, f, g
      <4>3. \A x \in T : rank[x] < k /\ rank[x] < l => f[x] = g[x]
        BY <1>2, <4>1, <4>2, SMT
      <4>4. QED
        BY <4>1, <4>3, Zenon DEF f, g
    <3>4. QED
      BY <3>3
  <2>2. c(n) \in [T -> V] /\ c(n)[n] = D[n][c(n)]
    BY <1>3
  <2>3. D[n][F] = D[n][c(n)]
    <3> HIDE DEF F
    <3>1. QED
      BY <1>4, <2>1, <2>2, Zenon
  <2>4. QED
    BY <2>2, <2>3
<1>6. QED
  BY <1>4, <1>5, Zenon

\* D[n][f] is the value at n from the values of f at its children.
ByChildren(V, D) ==
    /\ V # {}
    /\ \A n \in Trees : \A g \in [Trees -> V] : D[n][g] \in V
    /\ \A n \in Trees : \A g, h \in [Trees -> V] :
         (\A m \in Children(n) : g[m] = h[m]) => D[n][g] = D[n][h]

\* A function may be defined by recursion over trees.
LEMMA TreeRecursion ==
    ASSUME NEW V, NEW D, ByChildren(V, D)
    PROVE  \E f \in [Trees -> V] : \A n \in Trees : f[n] = D[n][f]
<1>1. level \in [Trees -> Nat]
  BY ChildEarlier, Zenon
<1>2. ASSUME NEW n \in Trees, NEW g \in [Trees -> V], NEW h \in [Trees -> V],
             \A m \in Trees : level[m] < level[n] => g[m] = h[m]
      PROVE  D[n][g] = D[n][h]
  <2>1. \A m \in Children(n) : g[m] = h[m]
    BY <1>2, ChildEarlier, Zenon
  <2>2. QED
    BY <2>1, Zenon DEF ByChildren
<1>3. Recursive(Trees, level, V, D)
  BY <1>1, <1>2, Zenon DEF ByChildren, Recursive
<1>4. QED
  BY <1>3, Recursion, SMT

\* Induction over trees: what passes from its children to a tree holds of all.
LEMMA TreeInduction ==
    ASSUME NEW P, \A n \in Trees : Children(n) \subseteq P => n \in P
    PROVE  Trees \subseteq P
<1> SUFFICES ASSUME NEW n0 \in Trees, n0 \notin P PROVE FALSE
  BY Zenon
<1> DEFINE T == {level[n] : n \in Trees \ P}
<1>1. T \subseteq Nat /\ T # {}
  <2>1. level \in [Trees -> Nat]
    BY ChildEarlier, Zenon
  <2>2. QED
    BY <2>1
<1>2. PICK l \in T : \A k \in T : l <= k
  <2> HIDE DEF T
  <2>1. QED
    BY <1>1, Least, Zenon
<1>3. PICK n \in Trees \ P : l = level[n]
  BY Zenon
<1>4. ASSUME NEW m \in Children(n) PROVE m \in P
  <2>1. m \in Trees /\ level[m] < level[n] /\ level[m] \in Nat /\ level[n] \in Nat
    BY ChildEarlier, Zenon
  <2>2. ~ (level[n] <= level[m])
    BY <2>1
  <2>3. QED
    BY <1>2, <1>3, <2>1, <2>2, Zenon
<1>5. QED
  BY <1>3, <1>4, Zenon

\* walk is defined for every tree: what it visits below n.
LEMMA BelowDef ==
    \A n \in Trees :
        Below[n] =
            (UNION {{n.nodes[i]} \cup Below[n.nodes[i]] : i \in DOMAIN n.nodes})
            \cup UNION {Below[n.args[i]] : i \in DOMAIN n.args}
<1> DEFINE V == SUBSET Trees
           Of(g, n) ==
             (UNION {{n.nodes[i]} \cup g[n.nodes[i]] : i \in DOMAIN n.nodes})
             \cup UNION {g[n.args[i]] : i \in DOMAIN n.args}
           D == [n \in Trees |-> [g \in [Trees -> V] |-> Of(g, n)]]
<1>1. ASSUME NEW n \in Trees, NEW g \in [Trees -> V] PROVE Of(g, n) \in V
  <2>1. Children(n) \subseteq Trees
    BY ChildEarlier, Zenon
  <2>2. QED
    BY <2>1 DEF Children
<1>2. ASSUME NEW n \in Trees, NEW g, NEW h, \A m \in Children(n) : g[m] = h[m]
      PROVE  Of(g, n) = Of(h, n)
  BY <1>2 DEF Children
<1> HIDE DEF Of
<1>3. \A n \in Trees : \A g \in [Trees -> V] : D[n][g] \in V /\ D[n][g] = Of(g, n)
  BY <1>1, Zenon
<1> HIDE DEF D
<1>4. ByChildren(V, D)
  <2>1. ASSUME NEW n \in Trees, NEW g \in [Trees -> V], NEW h \in [Trees -> V],
               \A m \in Children(n) : g[m] = h[m]
        PROVE  D[n][g] = D[n][h]
    <3>1. Of(g, n) = Of(h, n)
      BY <1>2, <2>1, Zenon
    <3>2. QED
      BY <1>3, <3>1, Zenon
  <2>2. V # {}
    OBVIOUS
  <2> HIDE DEF V
  <2>3. QED
    BY <1>3, <2>1, <2>2, Zenon DEF ByChildren
<1>5. PICK f \in [Trees -> V] : \A n \in Trees : f[n] = D[n][f]
  BY <1>4, TreeRecursion
<1>6. f = [n \in Trees |-> Of(f, n)]
  BY <1>3, <1>5, Zenon
<1>7. Below = [n \in Trees |-> Of(Below, n)]
  <2>1. Below = CHOOSE g : g = [n \in Trees |-> Of(g, n)]
    BY Zenon DEF Below, Of
  <2>2. QED
    BY <1>6, <2>1, Zenon
<1>8. QED
  BY <1>7, Zenon DEF Of

\* So is the class of every statement.
LEMMA classifyStmtDef ==
    \A n \in Trees :
        classifyStmt[n] =
            IF Explain(n)
            THEN IF explainExecutes(n) THEN classifyStmt[n.nodes[1]] ELSE "read"
            ELSE IF readsOnly(n) THEN "read" ELSE "write"
<1> DEFINE V == {"read", "write"}
           Of(g, n) ==
             IF Explain(n)
             THEN IF explainExecutes(n) THEN g[n.nodes[1]] ELSE "read"
             ELSE IF readsOnly(n) THEN "read" ELSE "write"
           D == [n \in Trees |-> [g \in [Trees -> V] |-> Of(g, n)]]
<1>1. ASSUME NEW n \in Trees, NEW g \in [Trees -> V] PROVE Of(g, n) \in V
  <2>1. Explain(n) => n.nodes[1] \in Children(n)
    BY ChildEarlier, Zenon DEF Children, Grammatical
  <2>2. QED
    BY <2>1, ChildEarlier, Zenon
<1>2. ASSUME NEW n \in Trees, NEW g, NEW h, \A m \in Children(n) : g[m] = h[m]
      PROVE  Of(g, n) = Of(h, n)
  <2>1. Explain(n) => n.nodes[1] \in Children(n)
    BY ChildEarlier, Zenon DEF Children, Grammatical
  <2>2. QED
    BY <1>2, <2>1, Zenon
<1> HIDE DEF Of
<1>3. \A n \in Trees : \A g \in [Trees -> V] : D[n][g] \in V /\ D[n][g] = Of(g, n)
  BY <1>1, Zenon
<1> HIDE DEF D
<1>4. ByChildren(V, D)
  <2>1. ASSUME NEW n \in Trees, NEW g \in [Trees -> V], NEW h \in [Trees -> V],
               \A m \in Children(n) : g[m] = h[m]
        PROVE  D[n][g] = D[n][h]
    <3>1. Of(g, n) = Of(h, n)
      BY <1>2, <2>1, Zenon
    <3>2. QED
      BY <1>3, <3>1, Zenon
  <2>2. V # {}
    OBVIOUS
  <2> HIDE DEF V
  <2>3. QED
    BY <1>3, <2>1, <2>2, Zenon DEF ByChildren
<1>5. PICK f \in [Trees -> V] : \A n \in Trees : f[n] = D[n][f]
  BY <1>4, TreeRecursion
<1>6. f = [n \in Trees |-> Of(f, n)]
  BY <1>3, <1>5, Zenon
<1>7. classifyStmt = [n \in Trees |-> Of(classifyStmt, n)]
  <2>1. classifyStmt = CHOOSE g : g = [n \in Trees |-> Of(g, n)]
    BY Zenon DEF classifyStmt, Of
  <2>2. QED
    BY <1>6, <2>1, Zenon
<1>8. QED
  BY <1>7, Zenon DEF Of

\* And what is executed with a tree.
LEMMA ExecutedDef ==
    \A n \in Trees :
        Executed[n] =
            {n} \cup (UNION {Executed[m] : m \in
                               {c \in Children(n) : n.kind # "explain" /\ n.kind # "explainoff"}})
<1> DEFINE V == SUBSET Trees
           Of(g, n) ==
             {n} \cup (UNION {g[m] : m \in
                                {c \in Children(n) : n.kind # "explain" /\ n.kind # "explainoff"}})
           D == [n \in Trees |-> [g \in [Trees -> V] |-> Of(g, n)]]
<1>1. ASSUME NEW n \in Trees, NEW g \in [Trees -> V] PROVE Of(g, n) \in V
  <2>1. Children(n) \subseteq Trees
    BY ChildEarlier, Zenon
  <2>2. QED
    BY <2>1
<1>2. ASSUME NEW n \in Trees, NEW g, NEW h, \A m \in Children(n) : g[m] = h[m]
      PROVE  Of(g, n) = Of(h, n)
  BY <1>2
<1> HIDE DEF Of
<1>3. \A n \in Trees : \A g \in [Trees -> V] : D[n][g] \in V /\ D[n][g] = Of(g, n)
  BY <1>1, Zenon
<1> HIDE DEF D
<1>4. ByChildren(V, D)
  <2>1. ASSUME NEW n \in Trees, NEW g \in [Trees -> V], NEW h \in [Trees -> V],
               \A m \in Children(n) : g[m] = h[m]
        PROVE  D[n][g] = D[n][h]
    <3>1. Of(g, n) = Of(h, n)
      BY <1>2, <2>1, Zenon
    <3>2. QED
      BY <1>3, <3>1, Zenon
  <2>2. V # {}
    OBVIOUS
  <2> HIDE DEF V
  <2>3. QED
    BY <1>3, <2>1, <2>2, Zenon DEF ByChildren
<1>5. PICK f \in [Trees -> V] : \A n \in Trees : f[n] = D[n][f]
  BY <1>4, TreeRecursion
<1>6. f = [n \in Trees |-> Of(f, n)]
  BY <1>3, <1>5, Zenon
<1>7. Executed = [n \in Trees |-> Of(Executed, n)]
  <2>1. Executed = CHOOSE g : g = [n \in Trees |-> Of(g, n)]
    BY Zenon DEF Executed, Of
  <2>2. QED
    BY <1>6, <2>1, Zenon
<1>8. QED
  BY <1>7, Zenon DEF Of

\* What walk finds below a child it finds below its parent.
LEMMA BelowChild ==
    ASSUME NEW n \in Trees
    PROVE  /\ \A i \in DOMAIN n.nodes : n.nodes[i] \in Below[n] /\ Below[n.nodes[i]] \subseteq Below[n]
           /\ \A i \in DOMAIN n.args : Below[n.args[i]] \subseteq Below[n]
           /\ \A m \in Below[n] :
                \/ \E i \in DOMAIN n.nodes : m = n.nodes[i] \/ m \in Below[n.nodes[i]]
                \/ \E i \in DOMAIN n.args : m \in Below[n.args[i]]
<1> DEFINE B == (UNION {{n.nodes[i]} \cup Below[n.nodes[i]] : i \in DOMAIN n.nodes})
                \cup UNION {Below[n.args[i]] : i \in DOMAIN n.args}
<1>1. Below[n] = B
  BY BelowDef, Zenon
<1>2. \A i \in DOMAIN n.nodes : n.nodes[i] \in B /\ Below[n.nodes[i]] \subseteq B
  OBVIOUS
<1>3. \A i \in DOMAIN n.args : Below[n.args[i]] \subseteq B
  BY Zenon
<1>4. \A m \in B : \/ \E i \in DOMAIN n.nodes : m = n.nodes[i] \/ m \in Below[n.nodes[i]]
                   \/ \E i \in DOMAIN n.args : m \in Below[n.args[i]]
  BY Zenon
<1> HIDE DEF B
<1>5. QED
  BY <1>1, <1>2, <1>3, <1>4, Zenon

\* A tree is executed with all its children, unless it is an EXPLAIN that only plans.
LEMMA ExecutedChild ==
    ASSUME NEW n \in Trees
    PROVE  /\ n \in Executed[n]
           /\ n.kind \in {"explain", "explainoff"} => Executed[n] = {n}
           /\ ~ (n.kind \in {"explain", "explainoff"}) =>
                \A c \in Children(n) : Executed[c] \subseteq Executed[n]
           /\ \A m \in Executed[n] : m = n \/ \E c \in Children(n) : m \in Executed[c]
<1> DEFINE R == {c \in Children(n) : n.kind # "explain" /\ n.kind # "explainoff"}
           E == {n} \cup (UNION {Executed[c] : c \in R})
<1>1. Executed[n] = E
  BY ExecutedDef, Zenon
<1>2. n \in E /\ (\A c \in R : Executed[c] \subseteq E)
      /\ \A m \in E : m = n \/ \E c \in R : m \in Executed[c]
  <2> HIDE DEF R
  <2>1. QED
    BY Zenon
<1>3. R \subseteq Children(n) /\ (n.kind \in {"explain", "explainoff"} => R = {})
      /\ (~ (n.kind \in {"explain", "explainoff"}) => R = Children(n))
  BY Zenon
<1>4. R = {} => E = {n}
  <2> HIDE DEF R
  <2>1. QED
    OBVIOUS
<1> HIDE DEF R, E
<1>5. QED
  BY <1>1, <1>2, <1>3, <1>4, Zenon

\* m is an operand of a set operation in S.
Operand(m, S) == \E p \in S : \E k \in DOMAIN p.args : p.args[k] = m

\* What is executed with a query is the query, a Node that walk visits, or an operand.
LEMMA Reached ==
    \A n \in Trees : Part(n) =>
        \A m \in Executed[n] :
            /\ m \in Trees /\ Part(m)
            /\ \/ m = n
               \/ m \in Below[n] /\ ~m.into
               \/ Operand(m, Executed[n]) /\ m.kind = "select" /\ ~m.locks
<1> DEFINE At(n, m) == /\ m \in Trees /\ Part(m)
                       /\ \/ m = n
                          \/ m \in Below[n] /\ ~m.into
                          \/ Operand(m, Executed[n]) /\ m.kind = "select" /\ ~m.locks
           P == {n \in Trees : Part(n) => \A m \in Executed[n] : At(n, m)}
<1>1. ASSUME NEW n \in Trees, Children(n) \subseteq P PROVE n \in P
  <2> SUFFICES ASSUME Part(n), NEW m \in Executed[n] PROVE At(n, m)
    BY Zenon
  <2>1. Grammatical(n) /\ ~ (n.kind \in {"explain", "explainoff"}) /\ ~Explain(n)
    <3>1. Grammatical(n)
      BY ChildEarlier, Zenon
    <3>2. QED
      BY <3>1 DEF Part, Explain
  <2>2. CASE m = n
    BY <2>2, Zenon
  <2>3. ASSUME NEW c \in Children(n), m \in Executed[c], Part(c)
        PROVE  /\ m \in Trees /\ Part(m)
               /\ \/ m = c
                  \/ m \in Below[c] /\ ~m.into
                  \/ Operand(m, Executed[n]) /\ m.kind = "select" /\ ~m.locks
    <3>1. At(c, m)
      BY <1>1, <2>3, Zenon
    <3>2. Executed[c] \subseteq Executed[n]
      BY <2>1, <2>3, ExecutedChild, Zenon
    <3>3. QED
      BY <3>1, <3>2, Zenon DEF Operand
  <2>4. ASSUME NEW i \in DOMAIN n.nodes, m \in Executed[n.nodes[i]] PROVE At(n, m)
    <3> DEFINE c == n.nodes[i]
    <3>1. c \in Children(n) /\ Part(c) /\ ~c.into
      BY <2>1, Zenon DEF Children, Grammatical
    <3>2. c \in Below[n] /\ Below[c] \subseteq Below[n]
      BY BelowChild, Zenon
    <3>3. m \in Executed[c]
      BY <2>4, Zenon
    <3> HIDE DEF c
    <3>4. QED
      BY <2>3, <3>1, <3>2, <3>3, Zenon
  <2>5. ASSUME NEW i \in DOMAIN n.args, m \in Executed[n.args[i]] PROVE At(n, m)
    <3> DEFINE c == n.args[i]
    <3>1. c \in Children(n) /\ c.kind = "select" /\ ~c.locks
      BY <2>1, Zenon DEF Children, Grammatical
    <3>2. Part(c)
      BY <3>1, Zenon DEF Part
    <3>3. Below[c] \subseteq Below[n]
      BY BelowChild, Zenon
    <3>4. Operand(c, Executed[n])
      BY ExecutedChild, Zenon DEF Operand
    <3>5. m \in Executed[c]
      BY <2>5, Zenon
    <3> HIDE DEF c
    <3>6. QED
      BY <2>3, <3>1, <3>2, <3>3, <3>4, <3>5, Zenon
  <2> HIDE DEF At
  <2>6. m = n \/ \E c \in Children(n) : m \in Executed[c]
    BY ExecutedChild, Zenon
  <2>7. QED
    BY <2>2, <2>4, <2>5, <2>6, Zenon DEF Children
<1> HIDE DEF P
<1>2. Trees \subseteq P
  BY <1>1, TreeInduction, SMT
<1>3. QED
  BY <1>2, Zenon DEF P

\* What executing a SELECT that readsOnly accepts does is unseen.
LEMMA NoneFound ==
    ASSUME NEW n \in Trees, n.kind = "select", ~n.into, ~writesInSubtree(n),
           NEW m \in Executed[n], Effect(m)
    PROVE  m.kind = "unlisted" \/ (m.into /\ Operand(m, Executed[n]))
<1>1. ~Writes(n) /\ \A b \in Below[n] : ~Writes(b)
  BY Zenon DEF writesInSubtree
<1>2. /\ m \in Trees /\ Part(m)
      /\ \/ m = n
         \/ m \in Below[n] /\ ~m.into
         \/ Operand(m, Executed[n]) /\ m.kind = "select" /\ ~m.locks
  <2>1. Part(n)
    BY Zenon DEF Part
  <2>2. QED
    BY <2>1, Reached, Zenon
<1>3. m.kind # "select" => ~m.into /\ ~m.locks
  BY <1>2, ChildEarlier, Zenon DEF Grammatical
<1>4. CASE m = n \/ (m \in Below[n] /\ ~m.into)
  <2>1. ~Writes(m) /\ ~m.into
    BY <1>1, <1>4, Zenon
  <2>2. QED
    BY <1>2, <1>3, <2>1 DEF Writes, Part, Effect
<1>5. CASE Operand(m, Executed[n]) /\ m.kind = "select" /\ ~m.locks
  BY <1>5 DEF Effect
<1>6. QED
  BY <1>2, <1>4, <1>5, Zenon

\* What walk visits is executed.
LEMMA VisitedExecuted ==
    \A n \in Trees : Part(n) => Below[n] \subseteq Executed[n]
<1> DEFINE P == {n \in Trees : Part(n) => Below[n] \subseteq Executed[n]}
<1>1. ASSUME NEW n \in Trees, Children(n) \subseteq P PROVE n \in P
  <2> SUFFICES ASSUME Part(n), NEW m \in Below[n] PROVE m \in Executed[n]
    BY Zenon
  <2>1. Grammatical(n) /\ ~ (n.kind \in {"explain", "explainoff"}) /\ ~Explain(n)
    <3>1. Grammatical(n)
      BY ChildEarlier, Zenon
    <3>2. QED
      BY <3>1 DEF Part, Explain
  <2>2. ASSUME NEW c \in Children(n), Part(c), m = c \/ m \in Below[c]
        PROVE  m \in Executed[n]
    <3>1. c \in P /\ c \in Trees
      BY <1>1, <2>2, ChildEarlier, Zenon
    <3>2. Executed[c] \subseteq Executed[n] /\ c \in Executed[c]
      BY <2>1, <2>2, <3>1, ExecutedChild, Zenon
    <3>3. QED
      BY <2>2, <3>1, <3>2, Zenon
  <2>3. ASSUME NEW i \in DOMAIN n.nodes, m = n.nodes[i] \/ m \in Below[n.nodes[i]]
        PROVE  m \in Executed[n]
    <3>1. n.nodes[i] \in Children(n) /\ Part(n.nodes[i])
      BY <2>1, Zenon DEF Children, Grammatical
    <3>2. QED
      BY <2>2, <2>3, <3>1, Zenon
  <2>4. ASSUME NEW i \in DOMAIN n.args, m \in Below[n.args[i]] PROVE m \in Executed[n]
    <3>1. n.args[i] \in Children(n) /\ Part(n.args[i])
      BY <2>1, Zenon DEF Children, Grammatical, Part
    <3>2. QED
      BY <2>2, <2>4, <3>1, Zenon
  <2>5. QED
    BY <2>3, <2>4, BelowChild, Zenon
<1> HIDE DEF P
<1>2. Trees \subseteq P
  BY <1>1, TreeInduction, SMT
<1>3. QED
  BY <1>2, Zenon DEF P

\* Executing n has an effect.
Acts(n) == \E m \in Executed[n] : Effect(m)

\* What is executed with a read has no effect but unseen ones.
Harmless(n) == \A m \in Executed[n] : Effect(m) => Unseen(n, m)

\* The class of a statement other than EXPLAIN: a write acts or is a COPY, and a
\* read is harmless.
LEMMA PlainRight ==
    ASSUME NEW n \in Trees, Stmt(n), ~Explain(n)
    PROVE  \/ classifyStmt[n] = "write" /\ (n.kind = "copyto" \/ Acts(n))
           \/ classifyStmt[n] = "read" /\ Harmless(n)
<1>1. Grammatical(n) /\ n \in Executed[n]
  BY ChildEarlier, ExecutedChild, Zenon
<1>2. classifyStmt[n] = IF readsOnly(n) THEN "read" ELSE "write"
  BY classifyStmtDef, Zenon
<1>3. CASE n.kind = "select"
  <2>1. readsOnly(n) <=> ~n.into /\ ~writesInSubtree(n)
    BY <1>3 DEF readsOnly
  <2>2. ASSUME readsOnly(n) PROVE Harmless(n)
    BY <1>3, <2>1, <2>2, NoneFound, Zenon DEF Harmless, Unseen, Operand
  <2>3. ASSUME ~readsOnly(n) PROVE Acts(n)
    <3>1. CASE n.into
      BY <1>1, <3>1, Zenon DEF Acts, Effect
    <3>2. CASE writesInSubtree(n)
      <4>1. PICK m \in {n} \cup Below[n] : Writes(m)
        BY <3>2, Zenon DEF writesInSubtree
      <4>2. m \in Executed[n]
        BY <1>1, <1>3, <4>1, VisitedExecuted, Zenon DEF Part
      <4>3. Effect(m)
        BY <4>1 DEF Writes, Effect, Explain
      <4>4. QED
        BY <4>2, <4>3, Zenon DEF Acts
    <3>3. QED
      BY <2>1, <2>3, <3>1, <3>2, Zenon
  <2>4. QED
    BY <1>2, <2>2, <2>3, Zenon
<1>4. CASE n.kind = "show"
  <2>1. readsOnly(n)
    BY <1>4, Zenon DEF readsOnly
  <2>2. Harmless(n)
    <3>1. n.nodes = <<>> /\ n.args = <<>> /\ ~Effect(n)
      BY <1>1, <1>4 DEF Grammatical, Effect
    <3>2. Children(n) = {}
      BY <3>1 DEF Children
    <3>3. QED
      BY <3>1, <3>2, ExecutedChild, Zenon DEF Harmless
  <2>3. QED
    BY <1>2, <2>1, <2>2, Zenon
<1>5. CASE n.kind # "select" /\ n.kind # "show"
  <2>1. ~readsOnly(n)
    BY <1>5, Zenon DEF readsOnly
  <2>2. n.kind = "copyto" \/ Effect(n)
    BY <1>5 DEF Stmt, Explain, Effect
  <2>3. QED
    BY <1>1, <1>2, <2>1, <2>2, Zenon DEF Acts
<1>6. QED
  BY <1>3, <1>4, <1>5, Zenon

\* The class of any statement.
LEMMA ClassRight ==
    ASSUME NEW n \in Trees, Stmt(n)
    PROVE  \/ classifyStmt[n] = "write" /\ (Cautious(n) \/ Acts(n))
           \/ classifyStmt[n] = "read" /\ Harmless(n)
<1>1. CASE ~Explain(n)
  BY <1>1, PlainRight, Zenon DEF Cautious
<1>2. CASE Explain(n)
  <2> DEFINE c == n.nodes[1]
  <2>1. Grammatical(n) /\ c \in Children(n) /\ c.kind \in {"select", "modify", "create"}
    BY <1>2, ChildEarlier, Zenon DEF Grammatical, Children
  <2>2. c \in Trees /\ Stmt(c) /\ ~Explain(c) /\ c.kind # "copyto"
    <3>1. c \in Trees
      BY <2>1, ChildEarlier, Zenon
    <3> HIDE DEF c
    <3>2. QED
      BY <2>1, <3>1 DEF Stmt, Explain
  <2>3. \/ classifyStmt[c] = "write" /\ Acts(c)
        \/ classifyStmt[c] = "read" /\ Harmless(c)
    BY <2>2, PlainRight, Zenon
  <2>4. ~Effect(n)
    BY <1>2, <2>1 DEF Effect, Grammatical, Explain
  <2>5. classifyStmt[n] = IF explainExecutes(n) THEN classifyStmt[c] ELSE "read"
    BY <1>2, classifyStmtDef, Zenon
  <2>6. CASE n.kind \in {"explain", "explainoff"}
    <3>1. Harmless(n)
      BY <2>4, <2>6, ExecutedChild, Zenon DEF Harmless
    <3>2. n.kind = "explain" => classifyStmt[n] = "read"
      BY <2>5 DEF explainExecutes
    <3>3. n.kind = "explainoff" => classifyStmt[n] = classifyStmt[c]
      BY <2>5 DEF explainExecutes
    <3>4. n.kind = "explainoff" /\ Acts(c) => Cautious(n)
      BY Zenon DEF Acts, Cautious
    <3>5. QED
      BY <2>3, <2>6, <3>1, <3>2, <3>3, <3>4, Zenon
  <2>7. CASE n.kind = "explainanalyze"
    <3>1. classifyStmt[n] = classifyStmt[c]
      BY <2>5, <2>7 DEF explainExecutes
    <3>2. Executed[c] \subseteq Executed[n]
      <4>1. ~ (n.kind \in {"explain", "explainoff"})
        BY <2>7
      <4>2. QED
        BY <2>1, <4>1, ExecutedChild, Zenon
    <3>3. \A m \in Executed[n] : m = n \/ m \in Executed[c]
      <4>1. n.args = <<>> /\ DOMAIN n.nodes = {1}
        BY <1>2, <2>1, <2>7 DEF Grammatical
      <4>2. Children(n) = {c}
        BY <4>1 DEF Children
      <4>3. QED
        BY <4>2, ExecutedChild, Zenon
    <3>4. Acts(c) => Acts(n)
      BY <3>2, Zenon DEF Acts
    <3>5. Harmless(c) => Harmless(n)
      BY <2>4, <3>2, <3>3, Zenon DEF Harmless, Unseen
    <3>6. QED
      BY <2>3, <3>1, <3>4, <3>5, Zenon
  <2>8. QED
    BY <1>2, <2>6, <2>7, Zenon DEF Explain
<1>3. QED
  BY <1>1, <1>2, Zenon

\* A query at hand is one that may be sent, and is decided as its text says.
ClassifyInv ==
    /\ query \in Queries
    /\ class \in {"read", "write"} =>
         class = Classify(query) /\ (breaks <=> class = "write" /\ BreaksTxPooling(query))

\* The invariant holds in every reachable state.
LEMMA ClassifyInvariant == ClassifySpec => []ClassifyInv
<1>1. ClassifyInit => ClassifyInv
  BY Zenon DEF ClassifyInit, ClassifyInv, Queries
<1>2. ClassifyInv /\ [ClassifyNext]_classifyVars => ClassifyInv'
  <2> SUFFICES ASSUME ClassifyInv, [ClassifyNext]_classifyVars PROVE ClassifyInv'
    OBVIOUS
  <2>1. ASSUME Ask PROVE ClassifyInv'
    BY <2>1 DEF Ask, ClassifyInv
  <2>2. ASSUME Decide PROVE ClassifyInv'
    BY <2>2, Zenon DEF Decide, ClassifyInv, Classify, BreaksTxPooling, Some
  <2>3. ASSUME Dealt PROVE ClassifyInv'
    BY <2>3 DEF Dealt, ClassifyInv, Queries
  <2>4. ASSUME UNCHANGED classifyVars PROVE ClassifyInv'
    BY <2>4, Zenon DEF classifyVars, ClassifyInv, Classify, BreaksTxPooling, Some
  <2>5. QED
    BY <2>1, <2>2, <2>3, <2>4, Zenon DEF ClassifyNext
<1>3. QED
  BY <1>1, <1>2, PTL DEF ClassifySpec

\* The statements of a query are trees that are statements.
LEMMA QueryStmts ==
    ASSUME query \in Queries, NEW i \in DOMAIN query.stmts
    PROVE  query.stmts[i] \in Trees /\ Stmt(query.stmts[i])
<1>1. CASE query = Unparsable
  BY <1>1 DEF Unparsable
<1>2. CASE \E t \in Texts : query = [parses |-> TRUE, stmts |-> t]
  <2>1. PICK t \in Texts : query = [parses |-> TRUE, stmts |-> t]
    BY <1>2, Zenon
  <2>2. query.stmts = t
    BY <2>1
  <2>3. i \in DOMAIN t
    BY <2>2
  <2>4. t[i] \in Trees /\ Stmt(t[i])
    BY <2>3, ParserAssumption, Zenon
  <2>5. QED
    BY <2>2, <2>4
<1>3. QED
  BY <1>1, <1>2, Zenon DEF Queries

\* For parse trees of any depth and width: what executing a query that Classify routes
\* as a read reaches has no effect, wherever in its trees it is, but for volatile
\* functions outside volatileFuncs and the INTO of an operand of a set operation
\* (classifyStmt, writesInSubtree, walk).
THEOREM ClassifyReadsAreSafe == ClassifySpec => []ReadsAreSafe
<1>1. ClassifyInv => ReadsAreSafe
  <2> SUFFICES ASSUME ClassifyInv, class = "read"
               PROVE  query.parses /\ \A i \in DOMAIN query.stmts : Harmless(query.stmts[i])
    BY Zenon DEF ReadsAreSafe, Harmless
  <2>1. query \in Queries /\ Classify(query) = "read"
    BY DEF ClassifyInv
  <2>2. query.parses /\ \A i \in DOMAIN query.stmts : classifyStmt[query.stmts[i]] # "write"
    BY <2>1 DEF Classify, Some
  <2>3. ASSUME NEW i \in DOMAIN query.stmts PROVE Harmless(query.stmts[i])
    <3>1. query.stmts[i] \in Trees /\ Stmt(query.stmts[i])
      BY <2>1, QueryStmts, Zenon
    <3>2. QED
      BY <2>2, <3>1, ClassRight, Zenon
  <2>4. QED
    BY <2>2, <2>3, Zenon
<1>2. QED
  BY <1>1, ClassifyInvariant, PTL

\* For parse trees of any depth and width: a query that parses and that Classify routes
\* as a write has a statement whose execution has an effect, or a COPY ... TO, or an
\* EXPLAIN of such a statement with its ANALYZE switched off.
THEOREM ClassifyWritesAreNeeded == ClassifySpec => []WritesAreNeeded
<1>1. ClassifyInv => WritesAreNeeded
  <2> SUFFICES ASSUME ClassifyInv, class = "write", query.parses
               PROVE  \E i \in DOMAIN query.stmts :
                        Cautious(query.stmts[i]) \/ Acts(query.stmts[i])
    BY Zenon DEF WritesAreNeeded, Some, Acts
  <2>1. query \in Queries /\ Classify(query) = "write"
    BY DEF ClassifyInv
  <2>2. PICK i \in DOMAIN query.stmts : classifyStmt[query.stmts[i]] = "write"
    BY <2>1 DEF Classify, Some
  <2>3. query.stmts[i] \in Trees /\ Stmt(query.stmts[i])
    BY <2>1, QueryStmts, Zenon
  <2>4. Cautious(query.stmts[i]) \/ Acts(query.stmts[i])
    BY <2>2, <2>3, ClassRight
  <2>5. QED
    BY <2>4, Zenon
<1>2. QED
  BY <1>1, ClassifyInvariant, PTL

\* For any queries: serveRouting, which asks the detector about writes only, pins
\* the session of every query that BreaksTxPooling would report.
THEOREM ClassifyPinsNotMissed == ClassifySpec => []PinsNotMissed
<1>1. ClassifyInv => PinsNotMissed
  <2> SUFFICES ASSUME ClassifyInv, class \in {"read", "write"}
               PROVE  breaks <=> BreaksTxPooling(query)
    BY Zenon DEF PinsNotMissed
  <2>1. query \in Queries /\ class = Classify(query)
        /\ (breaks <=> class = "write" /\ BreaksTxPooling(query))
    BY Zenon DEF ClassifyInv
  <2>2. ASSUME NEW i \in DOMAIN query.stmts, breakingStmt(query.stmts[i])
        PROVE  classifyStmt[query.stmts[i]] = "write"
    <3> DEFINE n == query.stmts[i]
    <3>1. n \in Trees
      BY <2>1, QueryStmts, Zenon
    <3>2. n.kind \in {"prepare", "listen", "createtemp", "set"}
      BY <2>2, Zenon DEF breakingStmt
    <3> HIDE DEF n
    <3>3. ~Explain(n) /\ n.kind # "select" /\ n.kind # "show"
      BY <3>2 DEF Explain
    <3>4. classifyStmt[n] = "write"
      BY <3>1, <3>3, classifyStmtDef, Zenon DEF readsOnly
    <3>5. QED
      BY <3>4, Zenon DEF n
  <2>3. BreaksTxPooling(query) => Classify(query) = "write"
    BY <2>2, Zenon DEF BreaksTxPooling, Classify, Some
  <2>4. QED
    BY <2>1, <2>3, Zenon
<1>2. QED
  BY <1>1, ClassifyInvariant, PTL
-----------------------------------------------------------------------------
(* FrontEnd: the composition *)

\* A session of FrontEnd is one of Startup and its queries are those of Classify:
\* what is proved of the two holds of a session that does both.
THEOREM FrontEndComposes == Spec => StartupSpec /\ ClassifySpec
<1>1. Init => StartupInit /\ ClassifyInit
  BY DEF Init
<1>2. [Next]_vars => [StartupNext]_startupVars /\ [ClassifyNext]_classifyVars
  BY Zenon DEF Next, vars, Start, Route
<1>3. QED
  BY <1>1, <1>2, PTL DEF Spec, StartupSpec, ClassifySpec
-----------------------------------------------------------------------------
(* Relay: the inductive invariant *)

Answer == Message("answer")[2]
\* The answer the backend direction has in hand.
Carries == IF be = "write" THEN Is(part, Answer) ELSE 0

\* The requests that the server has not read, and the answers that the client
\* has not.
Asked == toProxy + Is(caller, "write") + toServer
Due == InQueue(owed, Answer) + InQueue(fromServer, Answer) + Carries + InQueue(toClient, Answer)

\* No request is answered twice: those answered and those anywhere between the
\* client's write and its read are among those sent.
Conserved == answered + Asked + Due <= sent

\* The server is in the middle of at most one message.
Owes == owed = <<>> \/ \E k \in {"answer", "notice"} : owed \in {Message(k), Tail(Message(k))}

\* What relayPooled and finishBackend have established by each of their points.
Stages ==
    /\ caller \in {"read", "write"} => ended = "no" /\ ~clean
    /\ clean => ended = "terminated"
    /\ caller \in {"reset", "released"} => clean
    /\ caller \in {"judge", "join", "joining", "reset", "released", "discarded"} => be = "ended"
    /\ caller \in {"reset", "released", "discarded"} => watch = "ended"
    /\ caller = "released" => ~half /\ ~deadline

\* A polite client has its answers when it says goodbye, and asks nothing more.
Farewell ==
    /\ ended = "terminated" => peer # "open"
    /\ Polite /\ (peer = "bye" \/ ended = "terminated") => answered = sent
    /\ Polite /\ caller = "released" => \A i \in DOMAIN fromServer : fromServer[i].kind # "answer"

RelayInv == RelayTypeOK /\ Conserved /\ Owes /\ Stages /\ Farewell

\* The part that counts: the body of an answer.
LEMMA AnswerFacts ==
    /\ Answer = [kind |-> "answer", body |-> TRUE] /\ Answer \in Parts
    /\ Answer.kind = "answer" /\ NoPart \in Parts /\ NoPart # Answer
<1>1. Answer = [kind |-> "answer", body |-> TRUE]
  BY DEF Answer, Message
<1>2. NoPart \in Parts /\ Answer \in Parts /\ Answer.kind = "answer"
  BY <1>1, Zenon DEF NoPart, Parts
<1>3. NoPart # Answer
  BY <1>1 DEF NoPart
<1>4. QED
  BY <1>1, <1>2, <1>3

\* A message is a header and a body of its kind.
LEMMA MessageFacts ==
    ASSUME NEW k \in {"answer", "notice"}
    PROVE  /\ Message(k) \in Seq(Parts) /\ Message(k) # <<>> /\ Tail(Message(k)) # <<>>
           /\ Tail(Tail(Message(k))) = <<>>
           /\ Head(Message(k)) \in Parts /\ Head(Message(k)) # Answer
           /\ Head(Message(k)).kind = k /\ Head(Tail(Message(k))).kind = k
           /\ (Head(Tail(Message(k))) = Answer <=> k = "answer")
           /\ \A i \in DOMAIN Message(k) : Message(k)[i].kind = k
           /\ \A i \in DOMAIN Tail(Message(k)) : Tail(Message(k))[i].kind = k
<1> DEFINE h == [kind |-> k, body |-> FALSE]
           b == [kind |-> k, body |-> TRUE]
<1>1. h \in Parts /\ b \in Parts /\ h.kind = k /\ b.kind = k /\ h.body = FALSE /\ b.body = TRUE
  BY Zenon DEF Parts
<1>2. h # Answer /\ (b = Answer <=> k = "answer")
  BY <1>1, AnswerFacts, Zenon
<1>3. Message(k) = <<h, b>>
  BY DEF Message
<1> HIDE DEF h, b
<1>4. /\ <<h, b>> \in Seq(Parts) /\ <<h, b>> # <<>> /\ Tail(<<h, b>>) = <<b>>
      /\ Head(<<h, b>>) = h /\ Tail(<<b>>) = <<>> /\ Head(<<b>>) = b
      /\ DOMAIN <<h, b>> = {1, 2} /\ DOMAIN <<b>> = {1} /\ <<b>> # <<>>
  BY <1>1
<1>5. QED
  BY <1>1, <1>2, <1>3, <1>4

\* A message holds its answer once.
LEMMA MessageCounts ==
    ASSUME NEW k \in {"answer", "notice"}
    PROVE  InQueue(Message(k), Answer) = Is(k, "answer")
           /\ InQueue(Tail(Message(k)), Answer) = Is(k, "answer")
<1> DEFINE m == Message(k)
           t == Tail(m)
           x == InQueue(m, Answer)
           y == InQueue(t, Answer)
           z == InQueue(Tail(t), Answer)
<1>1. m \in Seq(Parts) /\ m # <<>> /\ t # <<>> /\ Tail(t) = <<>>
  BY MessageFacts, Zenon
<1>2. Is(Head(m), Answer) = 0 /\ Is(Head(t), Answer) = Is(k, "answer")
  BY MessageFacts, Zenon DEF Is
<1> HIDE DEF m, t
<1>3. x = y + Is(Head(m), Answer) /\ t \in Seq(Parts)
  BY <1>1, InQueueTail DEF t
<1>4. y = z + Is(Head(t), Answer) /\ z = 0
  BY <1>1, <1>3, InQueueTail, InQueueEmpty, Zenon
<1>5. Is(k, "answer") \in Nat
  BY DEF Is
<1> HIDE DEF x, y, z
<1>6. x = Is(k, "answer") /\ y = Is(k, "answer")
  BY <1>2, <1>3, <1>4, <1>5
<1>7. QED
  BY <1>6 DEF m, t, x, y

\* The bounds are natural numbers.
LEMMA RelayBounds == Requests \in Nat /\ Notices \in Nat /\ Cap \in Nat /\ Cap > 0
BY RelayAssumption

\* The terms of the account are natural numbers.
LEMMA Terms ==
    ASSUME RelayTypeOK
    PROVE  /\ sent \in Nat /\ answered \in Nat /\ toProxy \in Nat /\ toServer \in Nat
           /\ Is(caller, "write") \in Nat /\ Carries \in Nat /\ InQueue(owed, Answer) \in Nat
           /\ InQueue(fromServer, Answer) \in Nat /\ InQueue(toClient, Answer) \in Nat
           /\ Asked \in Nat /\ Due \in Nat
<1> DEFINE o == InQueue(owed, Answer)
           f == InQueue(fromServer, Answer)
           c == InQueue(toClient, Answer)
           w == Is(caller, "write")
<1>1. sent \in Nat /\ answered \in Nat /\ toProxy \in Nat /\ toServer \in Nat
  BY RelayBounds DEF RelayTypeOK
<1>2. o \in Nat /\ f \in Nat /\ c \in Nat
  BY InQueueType DEF RelayTypeOK
<1>3. w \in Nat /\ Carries \in Nat
  BY DEF Is, Carries
<1>4. Asked = toProxy + w + toServer /\ Due = o + f + Carries + c
  BY DEF Asked, Due
<1> HIDE DEF o, f, c, w
<1>5. Asked \in Nat /\ Due \in Nat
  BY <1>1, <1>2, <1>3, <1>4
<1>6. QED
  BY <1>1, <1>2, <1>3, <1>5 DEF o, f, c, w

\* Less in transit is no more than was sent.
LEMMA LessInTransit ==
    ASSUME RelayTypeOK, Conserved, NEW a \in Nat, NEW d \in Nat, a <= Asked, d <= Due
    PROVE  answered + a + d <= sent
<1>1. sent \in Nat /\ answered \in Nat /\ Asked \in Nat /\ Due \in Nat
  BY Terms
<1>2. answered + Asked + Due <= sent
  BY DEF Conserved
<1>3. QED
  BY <1>1, <1>2

\* Nothing is sent and nothing in transit at first.
LEMMA RelayInvInit == RelayInit => RelayInv
<1> SUFFICES ASSUME RelayInit PROVE RelayInv
  OBVIOUS
<1>1. RelayTypeOK
  <2>1. /\ 0 \in 0 .. Requests /\ 0 \in 0 .. Cap /\ 0 \in 0 .. Notices
        /\ <<>> \in Seq(Parts) /\ Len(<<>>) <= Cap
    BY RelayBounds
  <2>2. QED
    BY <2>1, AnswerFacts, Zenon DEF RelayInit, RelayTypeOK, Peers, Callers, Endings, Directions, Watchers
<1>2. Conserved
  BY InQueueEmpty DEF RelayInit, Conserved, Asked, Due, Is, Carries
<1>3. Owes /\ Stages /\ Farewell
  BY DEF RelayInit, Owes, Stages, Farewell
<1>4. QED
  BY <1>1, <1>2, <1>3 DEF RelayInv

\* The steps of the client keep the invariant.
LEMMA ClientKeeps ==
    ASSUME RelayInv, Sends \/ Receives \/ SaysBye \/ Leaves
    PROVE  RelayInv'
<1> USE DEF world, wires, goroutines
<1>1. RelayTypeOK /\ Conserved /\ Owes /\ Stages /\ Farewell
  BY DEF RelayInv
<1>2. sent \in Nat /\ answered \in Nat /\ Asked \in Nat /\ Due \in Nat
  BY <1>1, Terms
<1>3. answered + Asked + Due <= sent
  BY <1>1 DEF Conserved
<1>4. CASE Sends
  <2>1. sent' = sent + 1 /\ toProxy' = toProxy + 1 /\ answered' = answered
        /\ UNCHANGED <<caller, toServer>>
    BY <1>4 DEF Sends
  <2>2. Asked' = Asked + 1
    <3>1. Is(caller, "write") \in Nat /\ toProxy \in Nat /\ toServer \in Nat
      BY <1>1, Terms
    <3>2. QED
      BY <2>1, <3>1 DEF Asked
  <2>3. Due' = Due
    BY <1>4, Zenon DEF Sends, Due, Carries
  <2>4. Conserved'
    BY <1>2, <1>3, <2>1, <2>2, <2>3 DEF Conserved
  <2>5. RelayTypeOK'
    BY <1>1, <1>4, RelayBounds, SMTT(30) DEF Sends, RelayTypeOK
  <2>6. Owes' /\ Stages' /\ Farewell'
    BY <1>1, <1>4, Zenon DEF Sends, Owes, Stages, Farewell
  <2>7. QED
    BY <2>4, <2>5, <2>6 DEF RelayInv
<1>5. CASE Receives
  <2> DEFINE d == Is(Head(toClient), Answer)
             c == InQueue(toClient, Answer)
             e == InQueue(toClient', Answer)
             r == InQueue(owed, Answer) + InQueue(fromServer, Answer) + Carries
  <2>1. toClient \in Seq(Parts) /\ toClient # <<>> /\ toClient' = Tail(toClient)
        /\ Len(toClient) <= Cap
    BY <1>1, <1>5, Zenon DEF Receives, RelayTypeOK
  <2>2. toClient' \in Seq(Parts) /\ c = e + d
    BY <2>1, InQueueTail
  <2>3. Len(toClient') <= Cap
    BY <2>1, RelayBounds
  <2>4. answered' = answered + d /\ sent' = sent
    BY <1>5, Zenon DEF Receives, Answer, Is
  <2>5. d \in Nat /\ e \in Nat /\ r \in Nat
    <3>1. d \in Nat
      BY DEF Is
    <3>2. e \in Nat
      BY <2>2, InQueueType, Zenon
    <3>3. r \in Nat
      BY <1>1, Terms
    <3>4. QED
      BY <3>1, <3>2, <3>3
  <2>6. Asked' = Asked
    BY <1>5, Zenon DEF Receives, Asked
  <2>7. Due = r + c /\ Due' = r + e
    BY <1>5, Zenon DEF Receives, Due, Carries
  <2> HIDE DEF d, c, e, r
  <2>8. Due = r + e + d /\ Due' = r + e
    BY <2>2, <2>5, <2>7
  <2>9. answered + Asked + (r + e + d) <= sent
    BY <1>3, <2>8
  <2>10. /\ answered' + Asked' + Due' <= sent' /\ answered' <= sent /\ answered' \in Nat
         /\ (answered = sent => answered' = sent)
    BY <1>2, <2>4, <2>5, <2>6, <2>8, <2>9
  <2>11. RelayTypeOK'
    <3>1. sent <= Requests
      BY <1>1, RelayBounds DEF RelayTypeOK
    <3>2. answered' \in 0 .. Requests
      BY <1>2, <2>10, <3>1, RelayBounds
    <3>3. QED
      BY <1>1, <1>5, <2>2, <2>3, <3>2, Zenon DEF Receives, RelayTypeOK
  <2>12. Owes' /\ Stages' /\ Farewell'
    BY <1>1, <1>5, <2>10, Zenon DEF Receives, Owes, Stages, Farewell
  <2>13. QED
    BY <2>10, <2>11, <2>12 DEF RelayInv, Conserved
<1>6. CASE SaysBye
  <2>1. RelayTypeOK'
    BY <1>1, <1>6, Zenon DEF SaysBye, RelayTypeOK, Peers
  <2>2. Conserved'
    BY <1>1, <1>6, Zenon DEF SaysBye, Conserved, Asked, Due, Carries
  <2>3. Owes' /\ Stages' /\ Farewell'
    BY <1>1, <1>6, Zenon DEF SaysBye, Owes, Stages, Farewell
  <2>4. QED
    BY <2>1, <2>2, <2>3 DEF RelayInv
<1>7. CASE Leaves
  <2> DEFINE c == InQueue(toClient, Answer)
             r == InQueue(owed, Answer) + InQueue(fromServer, Answer) + Carries
  <2>1. RelayTypeOK'
    BY <1>1, <1>7, RelayBounds, SMTT(30) DEF Leaves, RelayTypeOK, Peers
  <2>2. r' = r /\ Asked' = Asked /\ answered' = answered /\ sent' = sent
    BY <1>7, Zenon DEF Leaves, Carries, Asked
  <2>3. c' = 0
    BY <1>7, InQueueEmpty, Zenon DEF Leaves
  <2>4. Due = r + c /\ Due' = r' + c'
    BY DEF Due
  <2>5. r \in Nat /\ c \in Nat
    BY <1>1, Terms
  <2> HIDE DEF c, r
  <2>6. Conserved'
    BY <1>2, <1>3, <2>2, <2>3, <2>4, <2>5 DEF Conserved
  <2>7. Owes' /\ Stages' /\ Farewell'
    BY <1>1, <1>7, Zenon DEF Leaves, Owes, Stages, Farewell
  <2>8. QED
    BY <2>1, <2>6, <2>7 DEF RelayInv
<1>8. QED
  BY <1>4, <1>5, <1>6, <1>7

\* The steps of the server keep the invariant.
LEMMA ServerKeeps ==
    ASSUME RelayInv, Serves \/ ServerWrites \/ Notifies \/ ServerDies
    PROVE  RelayInv'
<1> USE DEF world, wires, goroutines
<1> DEFINE o == InQueue(owed, Answer)
           o1 == InQueue(owed', Answer)
           f == InQueue(fromServer, Answer)
           f1 == InQueue(fromServer', Answer)
           r == Carries + InQueue(toClient, Answer)
<1>1. RelayTypeOK /\ Conserved /\ Owes /\ Stages /\ Farewell
  BY DEF RelayInv
<1>2. sent \in Nat /\ answered \in Nat /\ Asked \in Nat /\ Due \in Nat
      /\ o \in Nat /\ f \in Nat /\ r \in Nat
  BY <1>1, Terms
<1>3. answered + Asked + Due <= sent
  BY <1>1 DEF Conserved
<1>4. /\ Due = o + f + r /\ Due' = o1 + f1 + r /\ sent' = sent /\ answered' = answered
  <2>1. Due = o + f + Carries + InQueue(toClient, Answer)
        /\ Due' = o1 + f1 + Carries + InQueue(toClient, Answer)
        /\ sent' = sent /\ answered' = answered
    BY Zenon DEF Serves, ServerWrites, Notifies, ServerDies, Due, Carries
  <2>2. Carries \in Nat /\ InQueue(toClient, Answer) \in Nat
    BY <1>1, Terms
  <2>3. owed' \in Seq(Parts) /\ fromServer' \in Seq(Parts)
    <3>1. ASSUME Serves \/ Notifies \/ ServerDies
          PROVE  owed' \in Seq(Parts) /\ fromServer' = fromServer
      <4>1. <<>> \in Seq(Parts) /\ Message("answer") \in Seq(Parts)
            /\ Message("notice") \in Seq(Parts)
        BY MessageFacts
      <4>2. QED
        BY <3>1, <4>1, Zenon DEF Serves, Notifies, ServerDies
    <3>2. ASSUME ServerWrites
          PROVE  owed' \in Seq(Parts) /\ fromServer' \in Seq(Parts)
      BY <1>1, <3>2 DEF RelayTypeOK, ServerWrites
    <3>3. fromServer \in Seq(Parts)
      BY <1>1 DEF RelayTypeOK
    <3>4. QED
      BY <3>1, <3>2, <3>3
  <2>4. o1 \in Nat /\ f1 \in Nat
    BY <2>3, InQueueType
  <2> HIDE DEF o, o1, f, f1
  <2>5. QED
    BY <1>2, <2>1, <2>2, <2>4
<1> HIDE DEF r
<1>5. CASE Serves
  <2>1. o = 0 /\ o1 = 1 /\ f1 = f
    BY <1>5, InQueueEmpty, MessageCounts, Zenon DEF Serves, Is
  <2>2. Asked' = Asked - 1
    <3>1. toServer' = toServer - 1 /\ toProxy' = toProxy /\ caller' = caller
      BY <1>5, Zenon DEF Serves
    <3>2. Is(caller, "write") \in Nat /\ toProxy \in Nat /\ toServer \in Nat
      BY <1>1, Terms
    <3>3. QED
      BY <3>1, <3>2 DEF Asked
  <2> HIDE DEF o, o1, f, f1
  <2>3. Conserved'
    BY <1>2, <1>3, <1>4, <2>1, <2>2 DEF Conserved
  <2>4. RelayTypeOK'
    <3>1. toServer' \in 0 .. Cap
      BY <1>1, <1>5, RelayBounds DEF Serves, RelayTypeOK
    <3>2. owed' \in Seq(Parts)
      BY <1>5, MessageFacts, Zenon DEF Serves
    <3>3. QED
      BY <1>1, <1>5, <3>1, <3>2, Zenon DEF Serves, RelayTypeOK
  <2>5. Owes' /\ Stages' /\ Farewell'
    BY <1>1, <1>5, Zenon DEF Serves, Owes, Stages, Farewell
  <2>6. QED
    BY <2>3, <2>4, <2>5 DEF RelayInv
<1>6. CASE ServerWrites
  <2> DEFINE d == Is(Head(owed), Answer)
  <2>1. owed \in Seq(Parts) /\ owed # <<>> /\ owed' = Tail(owed) /\ fromServer \in Seq(Parts)
        /\ fromServer' = Append(fromServer, Head(owed)) /\ Len(fromServer) < Cap
    BY <1>1, <1>6, Zenon DEF ServerWrites, RelayTypeOK
  <2>2. owed' \in Seq(Parts) /\ Head(owed) \in Parts /\ o = o1 + d
    BY <2>1, InQueueTail
  <2>3. f1 = f + d
    BY <2>1, <2>2, InQueueAppend
  <2>4. o1 \in Nat /\ d \in Nat
    BY <2>2, InQueueType DEF Is
  <2>5. Asked' = Asked
    BY <1>6, Zenon DEF ServerWrites, Asked
  <2> HIDE DEF o, o1, f, f1, d
  <2>6. Due' = Due
    BY <1>2, <1>4, <2>2, <2>3, <2>4
  <2>7. Conserved'
    BY <1>2, <1>3, <1>4, <2>5, <2>6 DEF Conserved
  <2>8. RelayTypeOK'
    <3>1. fromServer' \in Seq(Parts) /\ Len(fromServer') <= Cap
      BY <2>1, <2>2, RelayBounds
    <3>2. QED
      BY <1>1, <1>6, <2>2, <3>1, Zenon DEF ServerWrites, RelayTypeOK
  <2>9. Owes' /\ Stages'
    BY <1>1, <1>6, MessageFacts, Zenon DEF ServerWrites, Owes, Stages
  <2>10. Farewell'
    <3>1. ASSUME Polite, caller = "released"
          PROVE  \A i \in DOMAIN fromServer' : fromServer'[i].kind # "answer"
      <4>1. ended = "terminated" /\ answered = sent
        BY <1>1, <3>1, Zenon DEF Stages, Farewell
      <4>2. o = 0
        BY <1>2, <1>3, <1>4, <2>4, <4>1
      <4>3. PICK k \in {"answer", "notice"} : owed \in {Message(k), Tail(Message(k))}
        BY <1>1, <2>1, Zenon DEF Owes
      <4>4. k = "notice"
        <5>1. o = Is(k, "answer")
          BY <4>3, MessageCounts, Zenon DEF o
        <5>2. QED
          BY <4>2, <5>1 DEF Is
      <4>5. Head(owed).kind = "notice"
        <5>1. Head(Message(k)).kind = k /\ Head(Tail(Message(k))).kind = k
          BY MessageFacts, Zenon
        <5>2. owed = Message(k) \/ owed = Tail(Message(k))
          BY <4>3
        <5>3. Head(owed).kind = k
          BY <5>1, <5>2, Zenon
        <5>4. QED
          BY <4>4, <5>3
      <4>6. \A i \in DOMAIN fromServer : fromServer[i].kind # "answer"
        BY <1>1, <3>1, Zenon DEF Farewell
      <4>7. QED
        BY <2>1, <2>2, <4>5, <4>6
    <3>2. QED
      BY <1>1, <1>6, <3>1, Zenon DEF ServerWrites, Farewell
  <2>11. QED
    BY <2>7, <2>8, <2>9, <2>10 DEF RelayInv
<1>7. CASE Notifies
  <2>1. o = 0 /\ o1 = 0 /\ f1 = f
    BY <1>7, InQueueEmpty, MessageCounts, Zenon DEF Notifies, Is
  <2>2. Asked' = Asked
    BY <1>7, Zenon DEF Notifies, Asked
  <2> HIDE DEF o, o1, f, f1
  <2>3. Conserved'
    BY <1>2, <1>3, <1>4, <2>1, <2>2 DEF Conserved
  <2>4. RelayTypeOK'
    <3>1. noticed' \in 0 .. Notices
      BY <1>1, <1>7, RelayBounds DEF Notifies, RelayTypeOK
    <3>2. owed' \in Seq(Parts)
      BY <1>7, MessageFacts, Zenon DEF Notifies
    <3>3. QED
      BY <1>1, <1>7, <3>1, <3>2, Zenon DEF Notifies, RelayTypeOK
  <2>5. Owes' /\ Stages' /\ Farewell'
    BY <1>1, <1>7, Zenon DEF Notifies, Owes, Stages, Farewell
  <2>6. QED
    BY <2>3, <2>4, <2>5 DEF RelayInv
<1>8. CASE ServerDies
  <2>1. o1 = 0 /\ f1 = f
    BY <1>8, InQueueEmpty, Zenon DEF ServerDies
  <2>2. Asked' <= Asked /\ Asked' \in Nat
    <3>1. toServer' = 0 /\ toProxy' = toProxy /\ caller' = caller
      BY <1>8 DEF ServerDies
    <3>2. Is(caller, "write") \in Nat /\ toProxy \in Nat /\ toServer \in Nat
      BY <1>1, Terms
    <3>3. QED
      BY <3>1, <3>2 DEF Asked
  <2> HIDE DEF o, o1, f, f1
  <2>3. Conserved'
    <3>1. Due' = f + r /\ answered + Asked + (o + f + r) <= sent
      BY <1>2, <1>3, <1>4, <2>1
    <3>2. QED
      BY <1>2, <1>4, <2>2, <3>1 DEF Conserved
  <2>4. RelayTypeOK'
    <3>1. 0 \in 0 .. Cap /\ <<>> \in Seq(Parts)
      BY RelayBounds
    <3>2. QED
      BY <1>1, <1>8, <3>1, Zenon DEF ServerDies, RelayTypeOK
  <2>5. Owes' /\ Stages' /\ Farewell'
    BY <1>1, <1>8, Zenon DEF ServerDies, Owes, Stages, Farewell
  <2>6. QED
    BY <2>3, <2>4, <2>5 DEF RelayInv
<1>9. QED
  BY <1>5, <1>6, <1>7, <1>8

\* The steps of relayFrontend keep the invariant.
LEMMA FrontendKeeps ==
    ASSUME RelayInv, relayFrontend
    PROVE  RelayInv'
<1> USE DEF Frontend
<1> DEFINE w == Is(caller, "write")
           w1 == Is(caller', "write")
<1>1. RelayTypeOK /\ Conserved /\ Owes /\ Stages /\ Farewell
  BY DEF RelayInv
<1>2. sent \in Nat /\ answered \in Nat /\ toProxy \in Nat /\ toServer \in Nat
      /\ Asked \in Nat /\ Due \in Nat
  BY <1>1, Terms
<1>3. answered + Asked + Due <= sent
  BY <1>1 DEF Conserved
<1>4. Due' = Due /\ sent' = sent /\ answered' = answered
  BY Zenon DEF relayFrontend, FeRead, FeWrite, FeTerminate, FeEOF, FeError, Due, Carries
<1>5. Asked = toProxy + w + toServer /\ Asked' = toProxy' + w1 + toServer'
  BY DEF Asked
<1>6. Asked' \in Nat /\ Asked' <= Asked
  <2>1. CASE FeRead
    <3>1. toProxy' = toProxy - 1 /\ toServer' = toServer /\ w = 0 /\ w1 = 1 /\ toProxy > 0
      BY <2>1 DEF FeRead, Is
    <3> HIDE DEF w, w1
    <3>2. QED
      BY <1>2, <1>5, <3>1
  <2>2. CASE FeWrite
    <3>1. toProxy' = toProxy /\ toServer' = toServer + 1 /\ w = 1 /\ w1 = 0
      BY <2>2 DEF FeWrite, Is
    <3> HIDE DEF w, w1
    <3>2. QED
      BY <1>2, <1>5, <3>1
  <2>3. CASE FeTerminate \/ FeEOF \/ FeError
    <3>1. toProxy' = toProxy /\ toServer' = toServer /\ w \in Nat /\ w1 = 0
      BY <2>3, Zenon DEF FeTerminate, FeEOF, FeError, Is
    <3> HIDE DEF w, w1
    <3>2. QED
      BY <1>2, <1>5, <3>1
  <2>4. QED
    BY <2>1, <2>2, <2>3 DEF relayFrontend
<1>7. Conserved'
  <2>1. answered + Asked' + Due <= sent
    <3>1. Due <= Due
      BY <1>2
    <3>2. QED
      BY <1>1, <1>2, <1>6, <3>1, LessInTransit, Zenon
  <2>2. QED
    BY <1>4, <2>1 DEF Conserved
<1>8. RelayTypeOK'
  <2>1. toProxy' \in 0 .. Cap /\ toServer' \in 0 .. Cap
    <3>1. toProxy \in 0 .. Cap /\ toServer \in 0 .. Cap
      BY <1>1, Zenon DEF RelayTypeOK
    <3>2. CASE FeRead
      BY <3>1, <3>2, RelayBounds DEF FeRead
    <3>3. CASE FeWrite
      BY <3>1, <3>3, RelayBounds DEF FeWrite
    <3>4. CASE FeTerminate \/ FeEOF \/ FeError
      BY <3>1, <3>4, Zenon DEF FeTerminate, FeEOF, FeError
    <3>5. QED
      BY <3>2, <3>3, <3>4, Zenon DEF relayFrontend
  <2>2. caller' \in {"read", "write", "select"} /\ ended' \in {ended, "terminated", "eof", "error"}
    BY Zenon DEF relayFrontend, FeRead, FeWrite, FeTerminate, FeEOF, FeError
  <2>3. UNCHANGED <<peer, sent, answered, up, owed, noticed, ctx, toClient, fromServer,
                    clean, be, part, half, watch, closed, deadline>>
    BY Zenon DEF relayFrontend, FeRead, FeWrite, FeTerminate, FeEOF, FeError
  <2>4. QED
    BY <1>1, <2>1, <2>2, <2>3, SMTT(30) DEF RelayTypeOK, Callers, Endings
<1>9. Owes'
  BY <1>1, Zenon DEF relayFrontend, FeRead, FeWrite, FeTerminate, FeEOF, FeError, Owes
<1>10. Stages'
  BY <1>1, SMTT(30) DEF relayFrontend, FeRead, FeWrite, FeTerminate, FeEOF, FeError, Stages
<1>11. Farewell'
  <2>1. ASSUME FeRead \/ FeWrite \/ FeEOF \/ FeError PROVE Farewell'
    BY <1>1, <2>1, Zenon DEF FeRead, FeWrite, FeEOF, FeError, Farewell
  <2>2. CASE FeTerminate
    BY <1>1, <2>2, Zenon DEF FeTerminate, Farewell
  <2>3. QED
    BY <2>1, <2>2 DEF relayFrontend
<1>12. QED
  BY <1>7, <1>8, <1>9, <1>10, <1>11 DEF RelayInv

\* The steps of the backend direction keep the invariant.
LEMMA BackendKeeps ==
    ASSUME RelayInv, relayBackend
    PROVE  RelayInv'
<1> USE DEF Backend, world
<1> DEFINE o == InQueue(owed, Answer)
           f == InQueue(fromServer, Answer)
           f1 == InQueue(fromServer', Answer)
           c == InQueue(toClient, Answer)
           c1 == InQueue(toClient', Answer)
           b == IF be = "write" THEN Is(part, Answer) ELSE 0
           b1 == IF be' = "write" THEN Is(part', Answer) ELSE 0
           d == Is(Head(fromServer), Answer)
<1>1. RelayTypeOK /\ Conserved /\ Owes /\ Stages /\ Farewell
  BY DEF RelayInv
<1>2. sent \in Nat /\ answered \in Nat /\ Asked \in Nat /\ Due \in Nat
      /\ o \in Nat /\ f \in Nat /\ c \in Nat
  BY <1>1, Terms
<1>3. answered + Asked + Due <= sent
  BY <1>1 DEF Conserved
<1>4. Asked' = Asked /\ sent' = sent /\ answered' = answered /\ owed' = owed
  BY Zenon DEF relayBackend, BeRead, BeWrite, BeFail, BeDone, Asked
<1>5. Due = o + f + b + c /\ Due' = o + f1 + b1 + c1
  BY <1>4, Zenon DEF Due, Carries
<1>6. b \in Nat
  BY DEF Is
<1>7. CASE BeRead
  <2>1. /\ fromServer \in Seq(Parts) /\ fromServer # <<>> /\ fromServer' = Tail(fromServer)
        /\ part' = Head(fromServer) /\ be = "read" /\ be' = "write" /\ toClient' = toClient
        /\ Len(fromServer) <= Cap
    BY <1>1, <1>7, Zenon DEF BeRead, RelayTypeOK
  <2>2. fromServer' \in Seq(Parts) /\ part' \in Parts /\ f = f1 + d
    BY <2>1, InQueueTail
  <2>3. b = 0 /\ b1 = d /\ c1 = c
    BY <2>1
  <2>4. f1 \in Nat /\ d \in Nat
    BY <2>2, InQueueType DEF Is
  <2>5. Conserved'
    <3> HIDE DEF o, f, f1, c, c1, b, b1, d
    <3>1. Due' = Due
      BY <1>2, <1>5, <2>2, <2>3, <2>4
    <3>2. QED
      BY <1>2, <1>3, <1>4, <3>1 DEF Conserved
  <2>6. RelayTypeOK'
    <3>1. Len(fromServer') <= Cap
      BY <2>1, RelayBounds
    <3>2. part'.body \in BOOLEAN
      BY <2>2, Zenon DEF Parts
    <3>3. half' \in BOOLEAN
      BY <1>7, <3>2, Zenon DEF BeRead
    <3>4. QED
      BY <1>1, <1>7, <2>2, <3>1, <3>3, Zenon DEF BeRead, RelayTypeOK, Directions
  <2>7. caller # "released" /\ Owes' /\ Stages'
    BY <1>1, <1>7, Zenon DEF BeRead, Owes, Stages
  <2>8. Farewell'
    BY <1>1, <1>7, <2>7, Zenon DEF BeRead, Farewell
  <2>9. QED
    BY <2>5, <2>6, <2>7, <2>8 DEF RelayInv
<1>8. CASE BeWrite
  <2>1. /\ toClient \in Seq(Parts) /\ part \in Parts /\ toClient' = Append(toClient, part)
        /\ be = "write" /\ be' = "read" /\ fromServer' = fromServer /\ Len(toClient) < Cap
    BY <1>1, <1>8, Zenon DEF BeWrite, RelayTypeOK
  <2>2. c1 = c + Is(part, Answer)
    BY <2>1, InQueueAppend
  <2>3. b = Is(part, Answer) /\ b1 = 0 /\ f1 = f
    BY <2>1
  <2>4. Conserved'
    <3> HIDE DEF o, f, f1, c, c1, b, b1, d
    <3>1. c1 = c + b
      BY <2>2, <2>3
    <3>2. Due' = Due
      BY <1>2, <1>5, <1>6, <2>3, <3>1
    <3>3. QED
      BY <1>2, <1>3, <1>4, <3>2 DEF Conserved
  <2>5. RelayTypeOK'
    <3>1. toClient' \in Seq(Parts) /\ Len(toClient') <= Cap
      BY <2>1, RelayBounds
    <3>2. QED
      BY <1>1, <1>8, <3>1, Zenon DEF BeWrite, RelayTypeOK, Directions
  <2>6. Owes' /\ Stages' /\ Farewell'
    BY <1>1, <1>8, Zenon DEF BeWrite, Owes, Stages, Farewell
  <2>7. QED
    BY <2>4, <2>5, <2>6 DEF RelayInv
<1>9. CASE BeFail \/ BeDone
  <2>1. f1 = f /\ c1 = c /\ b1 = 0
    BY <1>9, Zenon DEF BeFail, BeDone
  <2>2. Conserved'
    <3> HIDE DEF o, f, f1, c, c1, b, b1, d
    <3>1. Due' <= Due /\ Due' \in Nat
      BY <1>2, <1>5, <1>6, <2>1
    <3>2. answered + Asked + Due' <= sent
      <4>1. Asked <= Asked
        BY <1>2
      <4>2. QED
        BY <1>1, <1>2, <3>1, <4>1, LessInTransit, Zenon
    <3>3. QED
      BY <1>4, <3>2 DEF Conserved
  <2>3. RelayTypeOK'
    BY <1>1, <1>9, Zenon DEF BeFail, BeDone, RelayTypeOK, Directions
  <2>4. Owes' /\ Farewell'
    BY <1>1, <1>9, Zenon DEF BeFail, BeDone, Owes, Farewell
  <2>5. Stages'
    BY <1>1, <1>9, SMTT(30) DEF BeFail, BeDone, Stages
  <2>6. QED
    BY <2>2, <2>3, <2>4, <2>5 DEF RelayInv
<1>10. QED
  BY <1>7, <1>8, <1>9 DEF relayBackend

\* Shutdown, the watcher and the rest of relayPooled keep the invariant.
LEMMA PooledKeeps ==
    ASSUME RelayInv, Shutdown \/ watcher \/ relayPooled
    PROVE  RelayInv'
<1> USE DEF world, wires, goroutines
<1>1. RelayTypeOK /\ Conserved /\ Owes /\ Stages /\ Farewell
  BY DEF RelayInv
<1>2. CASE Shutdown \/ watcher
  <2>1. RelayTypeOK'
    BY <1>1, <1>2, Zenon
    DEF Shutdown, watcher, Watcher, WatchCtx, WatchDeadline, WatchDone, RelayTypeOK, Watchers
  <2>2. Conserved'
    BY <1>1, <1>2, Zenon
    DEF Shutdown, watcher, Watcher, WatchCtx, WatchDeadline, WatchDone, Conserved, Asked, Due,
        Carries
  <2>3. Owes' /\ Farewell'
    BY <1>1, <1>2, Zenon
    DEF Shutdown, watcher, Watcher, WatchCtx, WatchDeadline, WatchDone, Owes, Farewell
  <2>4. Stages'
    <3>1. UNCHANGED <<caller, ended, clean, be, half>>
      BY <1>2, Zenon DEF Shutdown, watcher, Watcher, WatchCtx, WatchDeadline, WatchDone
    <3>2. watch = "ended" => UNCHANGED <<watch, deadline>>
      BY <1>2, Zenon DEF Shutdown, watcher, Watcher, WatchCtx, WatchDeadline, WatchDone
    <3>3. watch = "ended" => watch' = "ended" /\ deadline' = deadline
      BY <3>2
    <3>4. QED
      BY <1>1, <3>1, <3>3 DEF Stages
  <2>5. QED
    BY <2>1, <2>2, <2>3, <2>4 DEF RelayInv
<1>3. CASE relayPooled
  <2> USE DEF relayPooled, Main, BackendEnded, Interrupt, Interrupted, Judge, Join, Joined
  <2>1. UNCHANGED <<world, wires, ended, be, part, half, watch, closed>>
    BY <1>3, Zenon
  <2>2. caller # "write" /\ caller' # "write" /\ caller' # "released" /\ caller # "read"
        /\ caller' # "read"
        /\ caller' \in {"interrupt", "judge", "join", "joining", "reset", "discarded"}
    BY <1>3, Zenon
  <2>3. clean' \in BOOLEAN /\ deadline' \in BOOLEAN
    BY <1>1, <1>3, Zenon DEF RelayTypeOK
  <2>4. RelayTypeOK'
    BY <1>1, <2>1, <2>2, <2>3, Zenon DEF RelayTypeOK, Callers
  <2>5. Conserved'
    <3>1. Is(caller, "write") = Is(caller', "write")
      BY <2>2, Zenon DEF Is
    <3>2. QED
      BY <1>1, <2>1, <3>1, Zenon DEF Conserved, Asked, Due, Carries
  <2>6. Stages'
    <3>1. CASE BackendEnded
      BY <1>1, <3>1, Zenon DEF Stages
    <3>2. CASE Interrupt
      BY <1>1, <3>2, Zenon DEF Stages
    <3>3. CASE Interrupted
      BY <1>1, <3>3, Zenon DEF Stages
    <3>4. CASE Judge
      BY <1>1, <3>4, Zenon DEF Stages
    <3>5. CASE Join
      BY <1>1, <3>5, Zenon DEF Stages
    <3>6. CASE Joined
      BY <1>1, <3>6, Zenon DEF Stages
    <3>7. QED
      BY <1>3, <3>1, <3>2, <3>3, <3>4, <3>5, <3>6, Zenon
  <2>7. Owes' /\ Farewell'
    BY <1>1, <2>1, <2>2, Zenon DEF Owes, Farewell
  <2>8. QED
    BY <2>4, <2>5, <2>6, <2>7, Zenon DEF RelayInv
<1>4. QED
  BY <1>2, <1>3

\* finishBackend keeps the invariant.
LEMMA FinishKeeps ==
    ASSUME RelayInv, finishBackend
    PROVE  RelayInv'
<1> USE DEF world, wires, goroutines
<1>1. RelayTypeOK /\ Conserved /\ Owes /\ Stages /\ Farewell
  BY DEF RelayInv
<1>2. Is(caller, "write") = Is(caller', "write")
  BY Zenon DEF finishBackend, ResetOK, ResetFail, Main, Is
<1>3. CASE ResetOK
  <2>1. RelayTypeOK'
    <3>1. <<>> \in Seq(Parts) /\ Len(<<>>) <= Cap
      BY RelayBounds
    <3>2. QED
      BY <1>1, <1>3, <3>1, Zenon DEF ResetOK, RelayTypeOK, Callers
  <2>2. Conserved'
    <3> DEFINE f == InQueue(fromServer, Answer)
               o == InQueue(owed, Answer)
               r == InQueue(toClient, Answer)
    <3>1. sent \in Nat /\ answered \in Nat /\ Asked \in Nat /\ Carries \in Nat
          /\ f \in Nat /\ o \in Nat /\ r \in Nat
      BY <1>1, Terms
    <3>2. Asked' = Asked /\ sent' = sent /\ answered' = answered
      BY <1>2, <1>3, Zenon DEF ResetOK, Asked
    <3>3. Due = o + f + Carries + r /\ Due' = o + 0 + Carries + r
      BY <1>3, InQueueEmpty, Zenon DEF ResetOK, Due, Carries
    <3>4. answered + Asked + Due <= sent
      BY <1>1 DEF Conserved
    <3> HIDE DEF f, o, r
    <3>5. QED
      BY <3>1, <3>2, <3>3, <3>4 DEF Conserved
  <2>3. Owes' /\ Stages'
    BY <1>1, <1>3, Zenon DEF ResetOK, Owes, Stages
  <2>4. Farewell'
    <3>1. DOMAIN fromServer' = {}
      BY <1>3 DEF ResetOK
    <3>2. QED
      BY <1>1, <1>3, <3>1, Zenon DEF ResetOK, Farewell
  <2>5. QED
    BY <2>1, <2>2, <2>3, <2>4 DEF RelayInv
<1>4. CASE ResetFail
  <2>1. RelayTypeOK'
    BY <1>1, <1>4, Zenon DEF ResetFail, Main, RelayTypeOK, Callers
  <2>2. Owes' /\ Stages' /\ Farewell'
    BY <1>1, <1>4, Zenon DEF ResetFail, Main, Owes, Stages, Farewell
  <2>3. Conserved'
    BY <1>1, <1>2, <1>4, Zenon DEF ResetFail, Main, Conserved, Asked, Due, Carries
  <2>4. QED
    BY <2>1, <2>2, <2>3 DEF RelayInv
<1>5. QED
  BY <1>3, <1>4 DEF finishBackend

\* The invariant holds in every reachable state of a relay.
LEMMA RelayInvariant == RelaySpec => []RelayInv
<1>1. ASSUME RelayInv, UNCHANGED relayVars PROVE RelayInv'
  <2> USE DEF relayVars, world, wires, goroutines
  <2>1. RelayTypeOK'
    BY <1>1, Zenon DEF RelayInv, RelayTypeOK
  <2>2. Conserved'
    BY <1>1, Zenon DEF RelayInv, Conserved, Asked, Due, Carries
  <2>3. Owes'
    BY <1>1, Zenon DEF RelayInv, Owes
  <2>4. Stages'
    BY <1>1, Zenon DEF RelayInv, Stages
  <2>5. Farewell'
    BY <1>1, Zenon DEF RelayInv, Farewell
  <2>6. QED
    BY <2>1, <2>2, <2>3, <2>4, <2>5 DEF RelayInv
<1>2. RelayInv /\ [RelayNext]_relayVars => RelayInv'
  BY <1>1, ClientKeeps, ServerKeeps, FrontendKeeps, BackendKeeps, PooledKeeps, FinishKeeps, Zenon
  DEF RelayNext, Server
<1>3. QED
  BY <1>2, RelayInvInit, PTL DEF RelaySpec

-----------------------------------------------------------------------------
(* Relay: the theorems *)

\* The sockets, the goroutines and the counters of a relay keep their types.
THEOREM RelayTyped == RelaySpec => []RelayTypeOK
<1>1. RelayInv => RelayTypeOK
  BY DEF RelayInv
<1>2. QED
  BY <1>1, RelayInvariant, PTL

\* relayPooled leaves no goroutine behind, however its directions, the watcher and
\* a shutdown interleave.
THEOREM RelayNoneLeftBehind == RelaySpec => []NoneLeftBehind
<1>1. RelayInv => NoneLeftBehind
  BY Zenon DEF RelayInv, Stages, NoneLeftBehind
<1>2. QED
  BY <1>1, RelayInvariant, PTL

\* A connection given back to the pool is at rest, for clients that wait for their
\* answers before they terminate, any number of requests and buffers of any size.
THEOREM RelayReleasedAtRest ==
    ASSUME Polite
    PROVE  RelaySpec => []ReleasedAtRest
<1>1. RelayInv => ReleasedAtRest
  <2> SUFFICES ASSUME RelayInv, caller = "released" PROVE ~Outstanding /\ ~half /\ ~deadline
    BY DEF ReleasedAtRest
  <2> DEFINE o == InQueue(owed, Answer)
  <2>1. RelayTypeOK /\ Conserved /\ Owes /\ Stages /\ Farewell
    BY DEF RelayInv
  <2>2. ~half /\ ~deadline /\ ended = "terminated" /\ answered = sent
    BY <2>1, Zenon DEF Stages, Farewell
  <2>3. toServer = 0 /\ o = 0
    <3> DEFINE w == Is(caller, "write")
               f == InQueue(fromServer, Answer)
               c == InQueue(toClient, Answer)
    <3>1. /\ sent \in Nat /\ answered \in Nat /\ toProxy \in Nat /\ toServer \in Nat
          /\ w \in Nat /\ o \in Nat /\ f \in Nat /\ Carries \in Nat /\ c \in Nat
      BY <2>1, Terms
    <3>2. answered + (toProxy + w + toServer) + (o + f + Carries + c) <= sent
      BY <2>1 DEF Conserved, Asked, Due
    <3> HIDE DEF o, w, f, c
    <3>3. QED
      BY <2>2, <3>1, <3>2
  <2>4. \A i \in DOMAIN owed : owed[i].kind # "answer"
    <3>1. CASE owed = <<>>
      BY <3>1
    <3>2. ASSUME NEW k \in {"answer", "notice"}, owed \in {Message(k), Tail(Message(k))}
          PROVE  \A i \in DOMAIN owed : owed[i].kind # "answer"
      <4>1. o = Is(k, "answer")
        BY <3>2, MessageCounts, Zenon
      <4>2. k # "answer"
        BY <2>3, <4>1 DEF Is
      <4>3. \A i \in DOMAIN owed : owed[i].kind = k
        <5>1. /\ \A i \in DOMAIN Message(k) : Message(k)[i].kind = k
              /\ \A i \in DOMAIN Tail(Message(k)) : Tail(Message(k))[i].kind = k
          BY MessageFacts, Zenon
        <5>2. owed = Message(k) \/ owed = Tail(Message(k))
          BY <3>2
        <5>3. QED
          BY <5>1, <5>2, Zenon
      <4>4. QED
        BY <4>2, <4>3, Zenon
    <3>3. QED
      BY <2>1, <3>1, <3>2, Zenon DEF Owes
  <2>5. \A i \in DOMAIN fromServer : fromServer[i].kind # "answer"
    BY <2>1, Zenon DEF Farewell
  <2>6. ~(toServer > 0)
    BY <2>3
  <2>7. QED
    BY <2>2, <2>4, <2>5, <2>6, Zenon DEF Outstanding
<1>2. QED
  BY <1>1, RelayInvariant, PTL
=============================================================================
