----------------------------- MODULE Lifecycle -----------------------------
(***************************************************************************)
(* What the persistence layer promises, whatever transactions its callers  *)
(* run: a row is born in the first state of its machine, moves only along  *)
(* its table, and is never removed; and an execution right (a lease) is    *)
(* taken by at most one holder at a time.                                  *)
(*                                                                         *)
(* holder[j] is the lease that currently owns attempt j, NoLease when the  *)
(* attempt is free: the abstract view of "lease_id of the attempt, while   *)
(* that lease is live".                                                    *)
(***************************************************************************)
EXTENDS StateMachines

CONSTANTS Jobs, Leases, NoLease

VARIABLES run, job, attempt, leaseState, holder

vars == <<run, job, attempt, leaseState, holder>>

Init ==
    /\ run = Absent
    /\ job = [j \in Jobs |-> Absent]
    /\ attempt = [j \in Jobs |-> Absent]
    /\ leaseState = [l \in Leases |-> Absent]
    /\ holder = [j \in Jobs |-> NoLease]

RunMoves ==
    \/ run' = run
    \/ run = Absent /\ run' = "CREATED"
    \/ validateRunTransition(run, run')

\* One row of table v (jobs or attempts) moves from `from' to `to'.
JobMoves(from, to) ==
    \/ to = from
    \/ from = Absent /\ to = "CREATED"
    \/ validateJobTransition(from, to)

LeaseMoves(from, to) ==
    \/ to = from
    \/ from = Absent /\ to = "GRANTED"
    \/ validateLeaseTransition(from, to)

\* An attempt is taken by a lease that is granted in this very step, only when
\* it is free, and set free only when its lease ends in this very step.
HolderMoves(j) ==
    \/ holder'[j] = holder[j]
    \/ /\ holder[j] = NoLease
       /\ holder'[j] \in Leases
       /\ leaseState[holder'[j]] = Absent
       /\ leaseState'[holder'[j]] = "GRANTED"
    \/ /\ holder[j] \in Leases
       /\ holder'[j] = NoLease
       /\ leaseState[holder[j]] \in LiveLeaseStates
       /\ leaseState'[holder[j]] \in LeaseStates \ LiveLeaseStates

Next ==
    /\ RunMoves
    /\ \A j \in Jobs : JobMoves(job[j], job'[j]) /\ JobMoves(attempt[j], attempt'[j])
    /\ \A l \in Leases : LeaseMoves(leaseState[l], leaseState'[l])
    /\ \A j \in Jobs : HolderMoves(j)

Spec == Init /\ [][Next]_vars
=============================================================================
