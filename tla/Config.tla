------------------------------- MODULE Config -------------------------------
(***************************************************************************)
(* internal/config/config.go: Load, as operators on the decoded file, with *)
(* the constructors that take its results (pool.New, registry.New,         *)
(* router.New).  A field that the file leaves out decodes to "", 0 or an   *)
(* empty list; a duration is a number.  The observability section, the     *)
(* addresses of the replicas and max_waiters, which nothing here tells     *)
(* apart, are left out.                                                    *)
(***************************************************************************)
EXTENDS Integers, Sequences

\* Load's error, and a file that os.ReadFile or the strict decoder refuses.
Invalid == [listen |-> "invalid"]

Entry == [name : STRING, password : STRING]

File ==
    [listen : STRING, primary : STRING, replicas : Nat, users : Seq(Entry),
     mode : STRING, maxSize : Int, acquireTimeout : Int, idleTimeout : Int,
     interval : Int, failureThreshold : Int, baseBackoff : Int, maxBackoff : Int,
     fencing : STRING, boundedMs : Int, policy : STRING]

Fences == {"strict", "bounded", "relaxed"}
PolicyNames == {"round-robin", "least-in-flight", "scored"}

Zero ==
    [mode |-> "", maxSize |-> 0, acquireTimeout |-> 0, idleTimeout |-> 0, interval |-> 0,
     failureThreshold |-> 0, baseBackoff |-> 0, maxBackoff |-> 0, fencing |-> "",
     boundedMs |-> 0, policy |-> ""]

\* In milliseconds, where it is a duration.
Defaults ==
    [mode |-> "session", maxSize |-> 10, acquireTimeout |-> 5000, idleTimeout |-> 300000,
     interval |-> 1000, failureThreshold |-> 3, baseBackoff |-> 1000, maxBackoff |-> 30000,
     fencing |-> "strict", boundedMs |-> 100, policy |-> "least-in-flight"]

applyDefaults(c) ==
    [f \in DOMAIN c |-> IF f \in DOMAIN Zero /\ c[f] = Zero[f] THEN Defaults[f] ELSE c[f]]

\* Mutant: a user may be listed twice.
validateDuplicates(c) ==
    /\ c.listen # "" /\ c.primary # "" /\ c.users # <<>>
    /\ \A i \in DOMAIN c.users : c.users[i].name # ""
    /\ c.maxSize >= 1 /\ c.mode \in {"session", "transaction"}
    /\ c.fencing \in Fences /\ c.policy \in PolicyNames

validate(c) ==
    /\ c.listen # "" /\ c.primary # "" /\ c.users # <<>>
    /\ \A i \in DOMAIN c.users :
         /\ c.users[i].name # ""
         /\ \A j \in 1 .. i - 1 : c.users[j].name # c.users[i].name
    /\ c.maxSize >= 1 /\ c.mode \in {"session", "transaction"}
    /\ c.fencing \in Fences /\ c.policy \in PolicyNames

\* Mutant: the error of validate is lost.
LoadUnchecked(file) == IF file = Invalid THEN Invalid ELSE applyDefaults(file)

Load(file) ==
    IF file = Invalid \/ ~validate(applyDefaults(file)) THEN Invalid
    ELSE applyDefaults(file)

Listed(c, name) == {i \in DOMAIN c.users : c.users[i].name = name}

\* Config.User: the first entry; the zero User where there is none.
User(c, name) ==
    IF Listed(c, name) = {} THEN [name |-> "", password |-> ""]
    ELSE c.users[CHOOSE i \in Listed(c, name) : \A j \in Listed(c, name) : i <= j]

\* The users map that run makes for the manager: the last entry.
ManagerPassword(c, name) ==
    c.users[CHOOSE i \in Listed(c, name) : \A j \in Listed(c, name) : j <= i].password
-----------------------------------------------------------------------------
(* What the constructors make of it *)

PoolNew(c) == c.maxSize > 0

RouterNew(c) == c.policy \in {"round-robin", "least-in-flight", "scored"}

\* registry.New replaces what is not positive.
RegistryNew(c) ==
    [f \in {"interval", "failureThreshold", "baseBackoff", "maxBackoff"} |->
        IF c[f] <= 0 THEN Defaults[f] ELSE c[f]]
=============================================================================
