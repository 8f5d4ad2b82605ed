------------------------------- MODULE Manager ------------------------------
(***************************************************************************)
(* The connection manager of internal/backend/manager.go: one pool per     *)
(* (user, database, address), made when it is first asked for, and Close,  *)
(* which empties the map under the lock and closes the pools after it.     *)
(*                                                                         *)
(* A pool is a number, given out in the order pools are made; what Pool    *)
(* models in detail is here a count of the connections lent and idle.      *)
(***************************************************************************)
EXTENDS Integers

CONSTANTS Keys,      \* the (user, database, address) triples in use
          MaxPools,  \* bound on the pools ever made
          MaxSize    \* connections a pool opens

ASSUME ManagerAssumption == MaxPools \in Nat /\ MaxSize \in Nat \ {0}

Pools == 1 .. MaxPools

VARIABLES pools,   \* m.pools: the pool of each key, 0 when it has none
          made,    \* pools made so far
          shut,    \* pools on which Close has been called
          lent,    \* lent[p]: connections of p in a session's hands
          idle     \* idle[p]: connections of p at rest in it

managerVars == <<pools, made, shut, lent, idle>>

ManagerTypeOK ==
    /\ pools \in [Keys -> Pools \cup {0}]
    /\ made \in 0 .. MaxPools /\ shut \subseteq 1 .. made
    /\ lent \in [Pools -> 0 .. MaxSize] /\ idle \in [Pools -> 0 .. MaxSize]

ManagerInit ==
    /\ pools = [k \in Keys |-> 0] /\ made = 0 /\ shut = {}
    /\ lent = [p \in Pools |-> 0] /\ idle = [p \in Pools |-> 0]

\* Mutant: the map is not looked up before a pool is made and stored.
poolForBlind(k) ==
    /\ made < MaxPools /\ made' = made + 1
    /\ pools' = [pools EXCEPT ![k] = made + 1]
    /\ UNCHANGED <<shut, lent, idle>>

\* The pool of k, made if there is none; the caller finds it in pools'[k].
poolFor(k) ==
    /\ \/ pools[k] # 0 /\ UNCHANGED <<pools, made>>
       \/ /\ pools[k] = 0 /\ made < MaxPools
          /\ made' = made + 1 /\ pools' = [pools EXCEPT ![k] = made + 1]
    /\ UNCHANGED <<shut, lent, idle>>

\* Acquire on pool p: an idle connection, or a new one.
AcquireFrom(p) ==
    /\ p \notin shut
    /\ \/ /\ idle[p] > 0
          /\ idle' = [idle EXCEPT ![p] = @ - 1] /\ lent' = [lent EXCEPT ![p] = @ + 1]
       \/ /\ idle[p] = 0 /\ lent[p] < MaxSize
          /\ lent' = [lent EXCEPT ![p] = @ + 1] /\ UNCHANGED idle
    /\ UNCHANGED <<pools, made, shut>>

\* ReleaseAt: into the pool that is now in the map under k, if any; p is the pool
\* the connection came from.
ReleaseAt(k, p) ==
    /\ lent' = [lent EXCEPT ![p] = @ - 1]
    /\ idle' = IF pools[k] = 0 \/ pools[k] \in shut THEN idle
               ELSE [idle EXCEPT ![pools[k]] = @ + 1]
    /\ UNCHANGED <<pools, made, shut>>

\* DiscardAt: the connection is closed either way.
DiscardAt(k, p) ==
    /\ lent' = [lent EXCEPT ![p] = @ - 1]
    /\ UNCHANGED <<pools, made, shut, idle>>

\* An idle connection of a pool is closed by its reaper.
Reap ==
    /\ \E p \in Pools \ shut : idle[p] > 0 /\ idle' = [idle EXCEPT ![p] = @ - 1]
    /\ UNCHANGED <<pools, made, shut, lent>>

\* Close takes the pools out of the map ...
CloseTake == pools' = [k \in Keys |-> 0] /\ UNCHANGED <<made, shut, lent, idle>>

\* ... and closes them one by one: their idle connections are closed.
ClosePool(p) ==
    /\ shut' = shut \cup {p} /\ idle' = [idle EXCEPT ![p] = 0]
    /\ UNCHANGED <<pools, made, lent>>
=============================================================================
