------------------------------- MODULE Store -------------------------------
(***************************************************************************)
(* The persistence layer (package state) over one run: its jobs, each with *)
(* its single attempt, the leases granted on the attempts, the dispatch    *)
(* queue and the recorded dependencies.                                    *)
(*                                                                         *)
(* Every action is one committed transaction.  A transaction that fails    *)
(* (an illegal transition, a unique index, a missing row) is rolled back   *)
(* and leaves the store as it was, so only successes are actions here; the *)
(* Can... predicates name the condition of success for the callers.        *)
(* StoreNext lets any transaction run at any time: what holds here holds   *)
(* whatever the orchestrator, or several of them, do.                      *)
(*                                                                         *)
(* A job has exactly one attempt (CreateJobAttempt is only called with     *)
(* attempt number 1), so a job and its attempt share one name.             *)
(*                                                                         *)
(* Time: due[l] says that expires_at of lease l has passed, and an entry   *)
(* of the queue is "inflight" until its visibility timeout lapses.         *)
(***************************************************************************)
EXTENDS StateMachines

CONSTANTS
    Jobs,       \* names of the run's jobs, and of their attempts
    Leases,     \* lease ids the id generator may hand out
    NoLease,    \* lease_id of an attempt that was never leased
    NoJob       \* job_attempt_id of a lease that was never granted

ASSUME NoLeaseAssumption == NoLease \notin Leases
ASSUME NoJobAssumption   == NoJob \notin Jobs

VARIABLES
    run,            \* runs.state
    job,            \* jobs.state
    attempt,        \* job_attempts.state
    attemptLease,   \* job_attempts.lease_id
    leaseState,     \* leases.state
    leaseJob,       \* leases.job_attempt_id
    due,            \* leases.expires_at lies in the past
    queue,          \* job_queue: "none", "available" or "inflight"
    deps            \* job_dependencies: <<job_id, depends_on_job_id>>

leaseVars == <<attemptLease, leaseState, leaseJob, due>>
storeVars == <<run, job, attempt, attemptLease, leaseState, leaseJob, due, queue, deps>>

QueueStates == {"none", "available", "inflight"}

StoreTypeOK ==
    /\ run \in RunStates \union {Absent}
    /\ job \in [Jobs -> JobStates \union {Absent}]
    /\ attempt \in [Jobs -> JobStates \union {Absent}]
    /\ attemptLease \in [Jobs -> Leases \union {NoLease}]
    /\ leaseState \in [Leases -> LeaseStates \union {Absent}]
    /\ leaseJob \in [Leases -> Jobs \union {NoJob}]
    /\ due \in [Leases -> BOOLEAN]
    /\ queue \in [Jobs -> QueueStates]
    /\ deps \subseteq Jobs \X Jobs

StoreInit ==
    /\ run = Absent
    /\ job = [j \in Jobs |-> Absent]
    /\ attempt = [j \in Jobs |-> Absent]
    /\ attemptLease = [j \in Jobs |-> NoLease]
    /\ leaseState = [l \in Leases |-> Absent]
    /\ leaseJob = [l \in Leases |-> NoJob]
    /\ due = [l \in Leases |-> FALSE]
    /\ queue = [j \in Jobs |-> "none"]
    /\ deps = {}

Live(l) == leaseState[l] \in LiveLeaseStates

-----------------------------------------------------------------------------
(* Rows are inserted *)

CreateRun ==
    /\ run = Absent
    /\ run' = "CREATED"
    /\ UNCHANGED <<job, attempt, leaseVars, queue, deps>>

CreateJob(j) ==
    /\ run # Absent
    /\ job[j] = Absent
    /\ job' = [job EXCEPT ![j] = "CREATED"]
    /\ UNCHANGED <<run, attempt, leaseVars, queue, deps>>

CreateJobAttempt(j) ==
    /\ job[j] # Absent
    /\ attempt[j] = Absent
    /\ attempt' = [attempt EXCEPT ![j] = "CREATED"]
    /\ UNCHANGED <<run, job, leaseVars, queue, deps>>

RecordJobDependency(j, d) ==
    /\ job[j] # Absent /\ job[d] # Absent
    /\ deps' = deps \union {<<j, d>>}
    /\ UNCHANGED <<run, job, attempt, leaseVars, queue>>

-----------------------------------------------------------------------------
(* Rows move along their tables: SELECT ... FOR UPDATE, validate, UPDATE *)

TransitionRunState(next) ==
    /\ validateRunTransition(run, next)
    /\ run' = next
    /\ UNCHANGED <<job, attempt, leaseVars, queue, deps>>

TransitionJobState(j, next) ==
    /\ validateJobTransition(job[j], next)
    /\ job' = [job EXCEPT ![j] = next]
    /\ UNCHANGED <<run, attempt, leaseVars, queue, deps>>

TransitionJobAttemptState(j, next) ==
    /\ validateJobTransition(attempt[j], next)
    /\ attempt' = [attempt EXCEPT ![j] = next]
    /\ UNCHANGED <<run, job, leaseVars, queue, deps>>

TransitionLeaseState(l, next) ==
    /\ validateLeaseTransition(leaseState[l], next)
    /\ leaseState' = [leaseState EXCEPT ![l] = next]
    /\ UNCHANGED <<run, job, attempt, attemptLease, leaseJob, due, queue, deps>>

-----------------------------------------------------------------------------
(* Leases *)

\* Seeded fault: the migration without the unique index.
NoLeaseIndex(j) == TRUE

\* The unique partial index on leases(job_attempt_id) over GRANTED and ACTIVE.
leases_active_per_attempt_idx(j) ==
    \A l \in Leases : ~ (Live(l) /\ leaseJob[l] = j)

\* Seeded fault: the grant trusts the caller's reads and validates nothing.
CanGrantUnchecked(j) == attempt[j] # Absent /\ leases_active_per_attempt_idx(j)

CanGrantLease(j) ==
    /\ validateJobTransition(attempt[j], "LEASED")
    /\ validateJobTransition(job[j], "LEASED")
    /\ leases_active_per_attempt_idx(j)

\* Seeded fault: the lease row gets the state meant for the attempt.
GrantWithJobState(l, j) ==
    /\ leaseState[l] = Absent
    /\ CanGrantLease(j)
    /\ leaseState' = [leaseState EXCEPT ![l] = "LEASED"]
    /\ leaseJob' = [leaseJob EXCEPT ![l] = j]
    /\ attemptLease' = [attemptLease EXCEPT ![j] = l]
    /\ attempt' = [attempt EXCEPT ![j] = "LEASED"]
    /\ job' = [job EXCEPT ![j] = "LEASED"]
    /\ UNCHANGED <<run, due, queue, deps>>

\* Seeded fault: lease_id is set on the first grant only.
GrantKeepingPointer(l, j) ==
    /\ leaseState[l] = Absent
    /\ CanGrantLease(j)
    /\ leaseState' = [leaseState EXCEPT ![l] = "GRANTED"]
    /\ leaseJob' = [leaseJob EXCEPT ![l] = j]
    /\ attemptLease' = [attemptLease EXCEPT ![j] = IF @ = NoLease THEN l ELSE @]
    /\ attempt' = [attempt EXCEPT ![j] = "LEASED"]
    /\ job' = [job EXCEPT ![j] = "LEASED"]
    /\ UNCHANGED <<run, due, queue, deps>>

GrantLease(l, j) ==
    /\ leaseState[l] = Absent
    /\ CanGrantLease(j)
    /\ leaseState' = [leaseState EXCEPT ![l] = "GRANTED"]
    /\ leaseJob' = [leaseJob EXCEPT ![l] = j]
    /\ due' = [due EXCEPT ![l] = FALSE]
    /\ attemptLease' = [attemptLease EXCEPT ![j] = l]
    /\ attempt' = [attempt EXCEPT ![j] = "LEASED"]
    /\ job' = [job EXCEPT ![j] = "LEASED"]
    /\ UNCHANGED <<run, queue, deps>>

\* The message's own timestamp decides whether it is late, so an overdue lease
\* may still be renewed by a message that was sent in time.
RenewLease(l) ==
    /\ validateLeaseTransition(leaseState[l], "ACTIVE")
    /\ leaseState' = [leaseState EXCEPT ![l] = "ACTIVE"]
    /\ due' = [due EXCEPT ![l] = FALSE]
    /\ UNCHANGED <<run, job, attempt, attemptLease, leaseJob, queue, deps>>

AcknowledgeLease(l)    == RenewLease(l)
TouchLeaseHeartbeat(l) == RenewLease(l)

CompleteLease(l, next) ==
    /\ next \in {"COMPLETED", "CANCELED"}
    /\ validateLeaseTransition(leaseState[l], next)
    /\ leaseState' = [leaseState EXCEPT ![l] = next]
    /\ UNCHANGED <<run, job, attempt, attemptLease, leaseJob, due, queue, deps>>

\* Seeded fault: the sweep takes any live lease, overdue or not.
ExpireEarly(l) ==
    LET j == leaseJob[l]
    IN  /\ Live(l)
        /\ leaseState' = [leaseState EXCEPT ![l] = "EXPIRED"]
        /\ attempt' = IF validateJobTransition(attempt[j], "QUEUED") THEN [attempt EXCEPT ![j] = "QUEUED"] ELSE attempt
        /\ job' = IF validateJobTransition(job[j], "QUEUED") THEN [job EXCEPT ![j] = "QUEUED"] ELSE job
        /\ queue' = IF validateJobTransition(attempt[j], "QUEUED") THEN [queue EXCEPT ![j] = "available"] ELSE queue
        /\ UNCHANGED <<run, attemptLease, leaseJob, due, deps>>

\* Seeded fault: the sweep requeues without consulting the tables.
ExpireUnchecked(l) ==
    /\ Live(l) /\ due[l]
    /\ leaseState' = [leaseState EXCEPT ![l] = "EXPIRED"]
    /\ attempt' = [attempt EXCEPT ![leaseJob[l]] = "QUEUED"]
    /\ job' = [job EXCEPT ![leaseJob[l]] = "QUEUED"]
    /\ queue' = [queue EXCEPT ![leaseJob[l]] = "available"]
    /\ UNCHANGED <<run, attemptLease, leaseJob, due, deps>>

\* Seeded fault: the sweep requeues but does not enqueue.
ExpireWithoutEnqueue(l) ==
    LET j == leaseJob[l]
    IN  /\ Live(l) /\ due[l]
        /\ leaseState' = [leaseState EXCEPT ![l] = "EXPIRED"]
        /\ attempt' = IF validateJobTransition(attempt[j], "QUEUED") THEN [attempt EXCEPT ![j] = "QUEUED"] ELSE attempt
        /\ job' = IF validateJobTransition(job[j], "QUEUED") THEN [job EXCEPT ![j] = "QUEUED"] ELSE job
        /\ UNCHANGED <<run, attemptLease, leaseJob, due, queue, deps>>

\* One transaction of the sweep.  The attempt and the job are requeued each
\* when its own table allows it, the attempt is enqueued again when it was.
ExpireLease(l) ==
    LET j == leaseJob[l]
        attemptCanQueue == validateJobTransition(attempt[j], "QUEUED")
        jobCanQueue     == validateJobTransition(job[j], "QUEUED")
    IN  /\ Live(l) /\ due[l]
        /\ leaseState' = [leaseState EXCEPT ![l] = "EXPIRED"]
        /\ attempt' = IF attemptCanQueue THEN [attempt EXCEPT ![j] = "QUEUED"] ELSE attempt
        /\ job'     = IF jobCanQueue     THEN [job EXCEPT ![j] = "QUEUED"]     ELSE job
        /\ queue'   = IF attemptCanQueue THEN [queue EXCEPT ![j] = "available"] ELSE queue
        /\ UNCHANGED <<run, attemptLease, leaseJob, due, deps>>

-----------------------------------------------------------------------------
(* The dispatch queue *)

EnqueueJobAttempt(j) ==
    /\ attempt[j] # Absent
    /\ queue' = [queue EXCEPT ![j] = "available"]
    /\ UNCHANGED <<run, job, attempt, leaseVars, deps>>

Deliverable(j) == attempt[j] = "QUEUED" /\ run \notin UndeliverableRunStates

\* The DELETE that opens DequeueJobAttempt.
PurgeQueue ==
    /\ queue' = [j \in Jobs |-> IF Deliverable(j) THEN queue[j] ELSE "none"]
    /\ UNCHANGED <<run, job, attempt, leaseVars, deps>>

CanDequeue(j) == queue[j] = "available" /\ Deliverable(j)

\* The entry stays in the queue, hidden until its visibility timeout.  Which of
\* several entries is oldest is left open.
DequeueJobAttempt(j) ==
    /\ CanDequeue(j)
    /\ queue' = [queue EXCEPT ![j] = "inflight"]
    /\ UNCHANGED <<run, job, attempt, leaseVars, deps>>

\* Deleting an entry that is not there is ErrNotFound, which the caller ignores.
AckJobAttemptDispatch(j) ==
    /\ queue' = [queue EXCEPT ![j] = "none"]
    /\ UNCHANGED <<run, job, attempt, leaseVars, deps>>

-----------------------------------------------------------------------------
(* Time passes *)

LeaseFallsDue(l) ==
    /\ Live(l) /\ ~due[l]
    /\ due' = [due EXCEPT ![l] = TRUE]
    /\ UNCHANGED <<run, job, attempt, attemptLease, leaseState, leaseJob, queue, deps>>

VisibilityLapses(j) ==
    /\ queue[j] = "inflight"
    /\ queue' = [queue EXCEPT ![j] = "available"]
    /\ UNCHANGED <<run, job, attempt, leaseVars, deps>>

-----------------------------------------------------------------------------
\* Seeded fault: one satisfied dependency is taken for all.
AnyDependencySatisfied(j) == \E d \in Jobs : <<j, d>> \in deps /\ job[d] = "SUCCEEDED"

DependenciesSatisfied(j) == \A d \in Jobs : <<j, d>> \in deps => job[d] = "SUCCEEDED"

RunNext ==
    \/ CreateRun
    \/ \E next \in RunStates : TransitionRunState(next)

JobNext(j) ==
    \/ CreateJob(j)
    \/ CreateJobAttempt(j)
    \/ \E d \in Jobs : RecordJobDependency(j, d)
    \/ \E next \in JobStates : TransitionJobState(j, next)
    \/ \E next \in JobStates : TransitionJobAttemptState(j, next)
    \/ EnqueueJobAttempt(j)
    \/ DequeueJobAttempt(j)
    \/ AckJobAttemptDispatch(j)
    \/ VisibilityLapses(j)

LeaseNext(l) ==
    \/ \E j \in Jobs : GrantLease(l, j)
    \/ AcknowledgeLease(l)
    \/ TouchLeaseHeartbeat(l)
    \/ \E next \in LeaseStates : CompleteLease(l, next)
    \/ \E next \in LeaseStates : TransitionLeaseState(l, next)
    \/ ExpireLease(l)
    \/ LeaseFallsDue(l)

StoreNext ==
    \/ RunNext
    \/ PurgeQueue
    \/ \E j \in Jobs : JobNext(j)
    \/ \E l \in Leases : LeaseNext(l)

StoreSpec == StoreInit /\ [][StoreNext]_storeVars

-----------------------------------------------------------------------------
(* Properties *)

\* Every live lease is the one its attempt points to through lease_id: an
\* attempt never has a second runner entitled to work on it, and the attempt's
\* row always names the entitled one (store.GrantLease and the unique index).
LiveLeaseIsCurrent ==
    \A l \in Leases : Live(l) =>
        /\ leaseJob[l] \in Jobs
        /\ attemptLease[leaseJob[l]] = l

\* At most one lease on an attempt is GRANTED or ACTIVE.
LeaseExclusive ==
    \A l, m \in Leases :
        Live(l) /\ Live(m) /\ leaseJob[l] = leaseJob[m] => l = m

\* Once the dependencies of a job are satisfied they stay satisfied: no expiry,
\* requeue, retry or cancellation takes a dependency back out of SUCCEEDED, so
\* the check of enqueueReadyDependents cannot go stale before it is used.
DependenciesStaySatisfied ==
    [][\A j \in Jobs :
          DependenciesSatisfied(j) /\ deps' = deps => DependenciesSatisfied(j)']_storeVars

\* The store implements Lifecycle: an attempt is held by its lease_id's lease
\* while that lease is live.
Holder == [j \in Jobs |-> IF attemptLease[j] \in Leases /\ Live(attemptLease[j])
                          THEN attemptLease[j] ELSE NoLease]

Abstract == INSTANCE Lifecycle WITH holder <- Holder

ImplementsLifecycle == Abstract!Spec
=============================================================================
