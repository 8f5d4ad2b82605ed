----------------------------- MODULE HealthView -----------------------------
(***************************************************************************)
(* What the router may rely on: a primary whose WAL position only grows,   *)
(* replicas that replay it in order, and the health registry's word on     *)
(* each replica, which may be late but is never ahead of the replica.      *)
(*                                                                         *)
(* WAL positions stand for the data itself: a replica at position p shows  *)
(* every commit at or below p.  PostgreSQL is modelled from how the code   *)
(* uses pg_current_wal_lsn() and pg_last_wal_replay_lsn().                 *)
(***************************************************************************)
EXTENDS Integers

CONSTANTS Replicas,   \* addresses of the replicas
          MaxWAL      \* bound on the primary's WAL position

ASSUME HealthViewAssumption == MaxWAL \in Nat

VARIABLES wal,      \* pg_current_wal_lsn() on the primary
          replay,   \* replay[r]: pg_last_wal_replay_lsn() on replica r
          status    \* status[r]: what registry.Snapshot says of replica r

viewVars == <<wal, replay, status>>

\* registry.Status, as far as selectReadTarget reads it in strict mode.
Status == [role : {"unknown", "replica"}, healthy : BOOLEAN, lsn : Nat]

\* A backend that has not been polled since it was configured.
Unpolled == [role |-> "unknown", healthy |-> FALSE, lsn |-> 0]

ViewTypeOK ==
    /\ wal \in Nat
    /\ replay \in [Replicas -> Nat]
    /\ status \in [Replicas -> Status]

ViewInit ==
    /\ wal = 0
    /\ replay = [r \in Replicas |-> 0]
    /\ status = [r \in Replicas |-> Unpolled]

\* The primary writes WAL: other clients, vacuum, checkpoints.
WalGrows ==
    /\ wal < MaxWAL
    /\ wal' = wal + 1
    /\ UNCHANGED <<replay, status>>

\* Replica r replays up to a position the primary has reached.
Replays(r) ==
    /\ \E p \in replay[r] + 1 .. wal : replay' = [replay EXCEPT ![r] = p]
    /\ UNCHANGED <<wal, status>>

\* A successful poll of replica r is recorded; the row may be old by now.
PollSucceeds(r) ==
    /\ \E p \in 0 .. replay[r] :
        status' = [status EXCEPT ![r] =
                     [role |-> "replica", healthy |-> TRUE, lsn |-> p]]
    /\ UNCHANGED <<wal, replay>>

\* The circuit breaker takes r out of rotation.
Trips(r) ==
    /\ status' = [status EXCEPT ![r].healthy = FALSE]
    /\ UNCHANGED <<wal, replay>>

\* A reload starts every backend over as unpolled.
Reloads ==
    /\ status' = [r \in Replicas |-> Unpolled]
    /\ UNCHANGED <<wal, replay>>

ViewNext ==
    \/ WalGrows \/ Reloads
    \/ \E r \in Replicas : Replays(r) \/ PollSucceeds(r) \/ Trips(r)

ViewSpec == ViewInit /\ [][ViewNext]_viewVars

\* ADR 0008: the polled LSN "is a safe lower bound (replicas only move
\* forward)"; and no replica is ahead of the primary.
ViewSound ==
    \A r \in Replicas : status[r].lsn <= replay[r] /\ replay[r] <= wal
=============================================================================
