---------------------------- MODULE StoreProofs ----------------------------
(***************************************************************************)
(* Theorems about the store, for any jobs and any lease ids, and whatever  *)
(* transactions the callers run.                                           *)
(***************************************************************************)
EXTENDS Store, TLAPS

(***************************************************************************)
(* What the tables return.                                                 *)
(***************************************************************************)

\* A transition the run table allows ends in a run state.
LEMMA RunTableRange ==
    ASSUME NEW from, NEW to, validateRunTransition(from, to)
    PROVE  to \in RunStates
BY DEF validateRunTransition, runTransitions, RunStates

\* A transition the job table allows ends in a job state.
LEMMA JobTableRange ==
    ASSUME NEW from, NEW to, validateJobTransition(from, to)
    PROVE  to \in JobStates
BY DEF validateJobTransition, jobTransitions, JobStates

\* A lease is live after a legal transition only if it was live before, so a
\* lease that ended stays ended; and the transition ends in a lease state.
LEMMA LeaseTableRange ==
    ASSUME NEW from, NEW to, validateLeaseTransition(from, to)
    PROVE  /\ to \in LeaseStates
           /\ to \in LiveLeaseStates => from \in LiveLeaseStates
BY DEF validateLeaseTransition, leaseTransitions, LeaseStates, LiveLeaseStates

\* SUCCEEDED is the end of the job table.
LEMMA SucceededIsFinal ==
    ASSUME NEW to, validateJobTransition("SUCCEEDED", to)
    PROVE  to = "SUCCEEDED"
BY DEF validateJobTransition, jobTransitions, JobStates

(***************************************************************************)
(* Type correctness.                                                       *)
(***************************************************************************)
\* The empty database is well typed.
LEMMA TypeInit == StoreInit => StoreTypeOK
BY DEF StoreInit, StoreTypeOK, Absent, QueueStates

\* Every transaction keeps it well typed.
LEMMA TypeStep == StoreTypeOK /\ [StoreNext]_storeVars => StoreTypeOK'
<1> SUFFICES ASSUME StoreTypeOK, [StoreNext]_storeVars PROVE StoreTypeOK'
    OBVIOUS
<1> USE DEF StoreTypeOK, leaseVars
<1>1. CASE CreateRun
    BY <1>1 DEF CreateRun, RunStates
<1>2. CASE \E next \in RunStates : TransitionRunState(next)
    BY <1>2 DEF TransitionRunState
<1>3. CASE PurgeQueue
    BY <1>3 DEF PurgeQueue, QueueStates
<1>4. ASSUME NEW j \in Jobs, JobNext(j) PROVE StoreTypeOK'
    <2>1. CASE CreateJob(j)
        BY <2>1 DEF CreateJob, JobStates
    <2>2. CASE CreateJobAttempt(j)
        BY <2>2 DEF CreateJobAttempt, JobStates
    <2>3. CASE \E d \in Jobs : RecordJobDependency(j, d)
        BY <2>3 DEF RecordJobDependency
    <2>4. CASE \E next \in JobStates : TransitionJobState(j, next)
        BY <2>4 DEF TransitionJobState
    <2>5. CASE \E next \in JobStates : TransitionJobAttemptState(j, next)
        BY <2>5 DEF TransitionJobAttemptState
    <2>6. CASE EnqueueJobAttempt(j)
        BY <2>6 DEF EnqueueJobAttempt, QueueStates
    <2>7. CASE DequeueJobAttempt(j)
        BY <2>7 DEF DequeueJobAttempt, QueueStates
    <2>8. CASE AckJobAttemptDispatch(j)
        BY <2>8 DEF AckJobAttemptDispatch, QueueStates
    <2>9. CASE VisibilityLapses(j)
        BY <2>9 DEF VisibilityLapses, QueueStates
    <2> QED
        BY <1>4, <2>1, <2>2, <2>3, <2>4, <2>5, <2>6, <2>7, <2>8, <2>9 DEF JobNext
<1>5. ASSUME NEW l \in Leases, LeaseNext(l) PROVE StoreTypeOK'
    <2>1. ASSUME NEW j \in Jobs, GrantLease(l, j) PROVE StoreTypeOK'
        BY <2>1 DEF GrantLease, JobStates, LeaseStates
    <2>2. CASE RenewLease(l)
        BY <2>2 DEF RenewLease, LeaseStates
    <2>3. ASSUME NEW next \in LeaseStates, CompleteLease(l, next) PROVE StoreTypeOK'
        BY <2>3 DEF CompleteLease
    <2>4. ASSUME NEW next \in LeaseStates, TransitionLeaseState(l, next) PROVE StoreTypeOK'
        BY <2>4 DEF TransitionLeaseState
    <2>5. CASE ExpireLease(l)
        <3>1. attempt' \in [Jobs -> JobStates \union {Absent}]
            BY <2>5 DEF ExpireLease, JobStates
        <3>2. job' \in [Jobs -> JobStates \union {Absent}]
            BY <2>5 DEF ExpireLease, JobStates
        <3>3. queue' \in [Jobs -> QueueStates]
            BY <2>5 DEF ExpireLease, QueueStates
        <3>4. leaseState' \in [Leases -> LeaseStates \union {Absent}]
            BY <2>5 DEF ExpireLease, LeaseStates
        <3> QED
            BY <2>5, <3>1, <3>2, <3>3, <3>4 DEF ExpireLease
    <2>6. CASE LeaseFallsDue(l)
        BY <2>6 DEF LeaseFallsDue
    <2> QED
        BY <1>5, <2>1, <2>2, <2>3, <2>4, <2>5, <2>6 DEF LeaseNext, AcknowledgeLease, TouchLeaseHeartbeat
<1>6. CASE UNCHANGED storeVars
    BY <1>6 DEF storeVars
<1> QED
    BY <1>1, <1>2, <1>3, <1>4, <1>5, <1>6 DEF StoreNext, RunNext

\* Every row holds a state of its own machine, every lease points to an attempt
\* and every attempt to a lease, whatever transactions have run.
THEOREM StoreTypeCorrect == StoreSpec => []StoreTypeOK
<1>1. StoreInit => StoreTypeOK
    BY TypeInit
<1>2. StoreTypeOK /\ [StoreNext]_storeVars => StoreTypeOK'
    BY TypeStep
<1> QED
    BY <1>1, <1>2, PTL DEF StoreSpec

(***************************************************************************)
(* Lease exclusivity.  "At most one live lease per attempt" is not         *)
(* inductive by itself in a useful way: what the store maintains is that   *)
(* the attempt's lease_id is the only live lease on it, which every grant  *)
(* re-establishes because the unique index admits it only when no lease on *)
(* the attempt is live.                                                    *)
(***************************************************************************)
\* No lease is live at the start.
LEMMA CurrentInit == StoreInit => LiveLeaseIsCurrent
BY DEF StoreInit, LiveLeaseIsCurrent, Live, Absent, LiveLeaseStates

\* A step that leaves the lease pointers alone and makes no lease live keeps
\* every live lease current.
LEMMA CurrentPreserved ==
    ASSUME LiveLeaseIsCurrent,
           attemptLease' = attemptLease, leaseJob' = leaseJob,
           \A l \in Leases : Live(l)' => Live(l)
    PROVE  LiveLeaseIsCurrent'
BY DEF LiveLeaseIsCurrent

\* Every transaction keeps the live leases current.
LEMMA CurrentStep ==
    StoreTypeOK /\ LiveLeaseIsCurrent /\ [StoreNext]_storeVars => LiveLeaseIsCurrent'
<1> SUFFICES ASSUME StoreTypeOK, LiveLeaseIsCurrent, [StoreNext]_storeVars
             PROVE  LiveLeaseIsCurrent'
    OBVIOUS
<1>1. CASE UNCHANGED leaseVars
    BY <1>1, CurrentPreserved DEF leaseVars, Live
<1>2. ASSUME NEW l \in Leases, NEW j \in Jobs, GrantLease(l, j)
      PROVE  LiveLeaseIsCurrent'
    <2>1. /\ leaseState' = [leaseState EXCEPT ![l] = "GRANTED"]
          /\ leaseJob' = [leaseJob EXCEPT ![l] = j]
          /\ attemptLease' = [attemptLease EXCEPT ![j] = l]
          /\ \A m \in Leases : ~ (Live(m) /\ leaseJob[m] = j)
        BY <1>2 DEF GrantLease, CanGrantLease, leases_active_per_attempt_idx
    <2>2. leaseJob'[l] = j /\ attemptLease'[j] = l
        BY <2>1 DEF StoreTypeOK
    <2>3. ASSUME NEW m \in Leases, m # l, Live(m)'
          PROVE  leaseJob'[m] \in Jobs /\ attemptLease'[leaseJob'[m]] = m
        <3>1. Live(m) /\ leaseJob'[m] = leaseJob[m]
            BY <2>1, <2>3 DEF StoreTypeOK, Live
        <3>2. leaseJob[m] # j /\ leaseJob[m] \in Jobs /\ attemptLease[leaseJob[m]] = m
            BY <2>1, <3>1 DEF LiveLeaseIsCurrent
        <3> QED
            BY <2>1, <3>1, <3>2 DEF StoreTypeOK
    <2> QED
        BY <2>2, <2>3 DEF LiveLeaseIsCurrent
<1>3. ASSUME NEW l \in Leases, NEW next,
             validateLeaseTransition(leaseState[l], next),
             leaseState' = [leaseState EXCEPT ![l] = next],
             UNCHANGED <<attemptLease, leaseJob>>
      PROVE  LiveLeaseIsCurrent'
    <2>1. ASSUME NEW m \in Leases, Live(m)' PROVE Live(m)
        BY <1>3, <2>1, LeaseTableRange DEF StoreTypeOK, Live
    <2> QED
        BY <1>3, <2>1, CurrentPreserved
<1>4. ASSUME NEW l \in Leases, ExpireLease(l) PROVE LiveLeaseIsCurrent'
    <2>1. validateLeaseTransition(leaseState[l], "EXPIRED")
        BY <1>4 DEF ExpireLease, Live, LiveLeaseStates, validateLeaseTransition, leaseTransitions, LeaseStates
    <2> QED
        BY <1>3, <1>4, <2>1 DEF ExpireLease
<1>5. ASSUME NEW l \in Leases, LeaseFallsDue(l) PROVE LiveLeaseIsCurrent'
    BY <1>5, CurrentPreserved DEF LeaseFallsDue, Live
<1>6. ASSUME NEW j \in Jobs, JobNext(j) PROVE UNCHANGED leaseVars
    BY <1>6 DEF JobNext, CreateJob, CreateJobAttempt, RecordJobDependency, TransitionJobState,
                TransitionJobAttemptState, EnqueueJobAttempt, DequeueJobAttempt,
                AckJobAttemptDispatch, VisibilityLapses
<1>7. ASSUME RunNext \/ PurgeQueue \/ UNCHANGED storeVars PROVE UNCHANGED leaseVars
    BY <1>7 DEF RunNext, CreateRun, TransitionRunState, PurgeQueue, storeVars, leaseVars
<1>8. ASSUME NEW l \in Leases, LeaseNext(l) PROVE LiveLeaseIsCurrent'
    <2>1. CASE \E j \in Jobs : GrantLease(l, j)
        BY <2>1, <1>2
    <2>2. CASE RenewLease(l)
        BY <2>2, <1>3 DEF RenewLease
    <2>3. CASE \E next \in LeaseStates : CompleteLease(l, next)
        BY <2>3, <1>3 DEF CompleteLease
    <2>4. CASE \E next \in LeaseStates : TransitionLeaseState(l, next)
        BY <2>4, <1>3 DEF TransitionLeaseState
    <2> QED
        BY <1>4, <1>5, <1>8, <2>1, <2>2, <2>3, <2>4 DEF LeaseNext, AcknowledgeLease, TouchLeaseHeartbeat
<1> QED
    BY <1>1, <1>6, <1>7, <1>8 DEF StoreNext

\* The lease an attempt's row names is the only one that may be live on it.
THEOREM LeaseIsCurrent == StoreSpec => []LiveLeaseIsCurrent
<1>1. StoreInit => LiveLeaseIsCurrent
    BY CurrentInit
<1>2. StoreTypeOK /\ LiveLeaseIsCurrent /\ [StoreNext]_storeVars => LiveLeaseIsCurrent'
    BY CurrentStep
<1> QED
    BY <1>1, <1>2, StoreTypeCorrect, PTL DEF StoreSpec

\* At most one runner at a time is entitled to an attempt.
THEOREM LeaseExclusivity == StoreSpec => []LeaseExclusive
<1>1. LiveLeaseIsCurrent => LeaseExclusive
    BY DEF LiveLeaseIsCurrent, LeaseExclusive
<1> QED
    BY <1>1, LeaseIsCurrent, PTL

(***************************************************************************)
(* What a step may not do.                                                 *)
(***************************************************************************)

\* No transaction takes a job out of SUCCEEDED.
LEMMA SucceededIsKept ==
    ASSUME StoreTypeOK, [StoreNext]_storeVars, NEW d \in Jobs, job[d] = "SUCCEEDED"
    PROVE  job'[d] = "SUCCEEDED"
<1>1. CASE job' = job
    BY <1>1
<1>2. ASSUME NEW i \in Jobs, NEW to, job' = [job EXCEPT ![i] = to],
             job[i] = Absent \/ validateJobTransition(job[i], to)
      PROVE  job'[d] = "SUCCEEDED"
    <2>1. CASE i = d
        BY <1>2, <2>1, SucceededIsFinal DEF StoreTypeOK, Absent
    <2>2. CASE i # d
        BY <1>2, <2>2 DEF StoreTypeOK
    <2> QED
        BY <2>1, <2>2
<1>3. ASSUME NEW i \in Jobs, JobNext(i) PROVE job'[d] = "SUCCEEDED"
    <2>1. CASE CreateJob(i)
        BY <2>1, <1>2 DEF CreateJob
    <2>2. CASE \E next \in JobStates : TransitionJobState(i, next)
        BY <2>2, <1>2 DEF TransitionJobState
    <2> QED
        BY <1>1, <1>3, <2>1, <2>2 DEF JobNext, CreateJobAttempt, RecordJobDependency,
           TransitionJobAttemptState, EnqueueJobAttempt, DequeueJobAttempt,
           AckJobAttemptDispatch, VisibilityLapses
<1>4. ASSUME NEW l \in Leases, LeaseNext(l) PROVE job'[d] = "SUCCEEDED"
    <2>1. CASE \E j \in Jobs : GrantLease(l, j)
        BY <2>1, <1>2 DEF GrantLease, CanGrantLease
    <2>2. CASE ExpireLease(l)
        <3>1. CASE job' = job
            BY <3>1
        <3>2. CASE job' # job
            <4>1. /\ validateJobTransition(job[leaseJob[l]], "QUEUED")
                  /\ job' = [job EXCEPT ![leaseJob[l]] = "QUEUED"]
                BY <2>2, <3>2 DEF ExpireLease
            <4>2. CASE leaseJob[l] = d
                BY <4>1, <4>2, SucceededIsFinal
            <4>3. CASE leaseJob[l] # d
                BY <4>1, <4>3 DEF StoreTypeOK
            <4> QED
                BY <4>2, <4>3
        <3> QED
            BY <3>1, <3>2
    <2> QED
        BY <1>1, <1>4, <2>1, <2>2 DEF LeaseNext, AcknowledgeLease, TouchLeaseHeartbeat, RenewLease,
           CompleteLease, TransitionLeaseState, LeaseFallsDue
<1> QED
    BY <1>1, <1>3, <1>4 DEF StoreNext, RunNext, CreateRun, TransitionRunState, PurgeQueue, storeVars

\* A dependency check that once succeeded never goes stale.
THEOREM DependencyCheckIsStable == StoreSpec => DependenciesStaySatisfied
<1>1. ASSUME StoreTypeOK, [StoreNext]_storeVars
      PROVE  [\A j \in Jobs : DependenciesSatisfied(j) /\ deps' = deps => DependenciesSatisfied(j)']_storeVars
    BY <1>1, SucceededIsKept DEF DependenciesSatisfied
<1> QED
    BY <1>1, StoreTypeCorrect, PTL DEF StoreSpec, DependenciesStaySatisfied

(***************************************************************************)
(* The store implements Lifecycle.  Every transaction moves each row along *)
(* its table, and the holder of an attempt changes only with a grant or    *)
(* with the end of its lease.                                              *)
(***************************************************************************)

\* Lifecycle reads the same tables.
LEMMA SameTables ==
    /\ Abstract!Absent = Absent
    /\ Abstract!LeaseStates = LeaseStates
    /\ Abstract!LiveLeaseStates = LiveLeaseStates
    /\ \A from, to : validateRunTransition(from, to) => Abstract!validateRunTransition(from, to)
    /\ \A from, to : validateJobTransition(from, to) => Abstract!validateJobTransition(from, to)
    /\ \A from, to : validateLeaseTransition(from, to) => Abstract!validateLeaseTransition(from, to)
BY DEF Absent, Abstract!Absent, LeaseStates, Abstract!LeaseStates, LiveLeaseStates, Abstract!LiveLeaseStates,
       JobStates, Abstract!JobStates, RunStates, Abstract!RunStates,
       validateRunTransition, Abstract!validateRunTransition, runTransitions, Abstract!runTransitions,
       validateJobTransition, Abstract!validateJobTransition, jobTransitions, Abstract!jobTransitions,
       validateLeaseTransition, Abstract!validateLeaseTransition, leaseTransitions, Abstract!leaseTransitions

\* An empty database is the initial state of Lifecycle.
LEMMA AbstractInit == StoreInit => Abstract!Init
<1> SUFFICES ASSUME StoreInit PROVE Abstract!Init
    OBVIOUS
<1>1. Holder = [j \in Jobs |-> NoLease]
    BY NoLeaseAssumption DEF StoreInit, Holder
<1> QED
    BY <1>1, SameTables DEF StoreInit, Abstract!Init

\* The run moves along its table.
LEMMA RunRefines == [StoreNext]_storeVars => Abstract!RunMoves
<1> SUFFICES ASSUME [StoreNext]_storeVars PROVE Abstract!RunMoves
    OBVIOUS
<1> USE DEF Abstract!RunMoves
<1>1. CASE RunNext
    BY <1>1, SameTables DEF RunNext, CreateRun, TransitionRunState
<1>2. ASSUME NEW j \in Jobs, JobNext(j) PROVE run' = run
    BY <1>2 DEF JobNext, CreateJob, CreateJobAttempt, RecordJobDependency, TransitionJobState,
                TransitionJobAttemptState, EnqueueJobAttempt, DequeueJobAttempt,
                AckJobAttemptDispatch, VisibilityLapses
<1>3. ASSUME NEW l \in Leases, LeaseNext(l) PROVE run' = run
    BY <1>3 DEF LeaseNext, GrantLease, AcknowledgeLease, TouchLeaseHeartbeat, RenewLease, CompleteLease,
                TransitionLeaseState, ExpireLease, LeaseFallsDue
<1> QED
    BY <1>1, <1>2, <1>3 DEF StoreNext, PurgeQueue, storeVars

\* An update of one row that is new or moves along the table, for all rows.
LEMMA RowMoves ==
    ASSUME NEW rows, NEW new, NEW i \in Jobs, NEW to,
           rows \in [Jobs -> JobStates \union {Absent}],
           \/ new = rows
           \/ /\ new = [rows EXCEPT ![i] = to]
              /\ (rows[i] = Absent /\ to = "CREATED") \/ validateJobTransition(rows[i], to)
    PROVE  \A j \in Jobs : Abstract!JobMoves(rows[j], new[j])
BY SameTables DEF Abstract!JobMoves

\* Every job and every attempt moves along the job table.
LEMMA JobRefines ==
    StoreTypeOK /\ LiveLeaseIsCurrent /\ [StoreNext]_storeVars =>
        \A j \in Jobs : Abstract!JobMoves(job[j], job'[j]) /\ Abstract!JobMoves(attempt[j], attempt'[j])
<1> SUFFICES ASSUME StoreTypeOK, LiveLeaseIsCurrent, [StoreNext]_storeVars
             PROVE  /\ \A j \in Jobs : Abstract!JobMoves(job[j], job'[j])
                    /\ \A j \in Jobs : Abstract!JobMoves(attempt[j], attempt'[j])
    OBVIOUS
<1>0. /\ job \in [Jobs -> JobStates \union {Absent}]
      /\ attempt \in [Jobs -> JobStates \union {Absent}]
    BY DEF StoreTypeOK
<1>1. CASE UNCHANGED <<job, attempt>>
    BY <1>1 DEF Abstract!JobMoves
<1>2. ASSUME NEW i \in Jobs, JobNext(i)
      PROVE  /\ \A j \in Jobs : Abstract!JobMoves(job[j], job'[j])
             /\ \A j \in Jobs : Abstract!JobMoves(attempt[j], attempt'[j])
    <2>1. CASE CreateJob(i) \/ \E next \in JobStates : TransitionJobState(i, next)
        BY <1>0, <2>1, RowMoves DEF CreateJob, TransitionJobState
    <2>2. CASE CreateJobAttempt(i) \/ \E next \in JobStates : TransitionJobAttemptState(i, next)
        BY <1>0, <2>2, RowMoves DEF CreateJobAttempt, TransitionJobAttemptState
    <2> QED
        BY <1>1, <1>2, <2>1, <2>2 DEF JobNext, RecordJobDependency, EnqueueJobAttempt,
           DequeueJobAttempt, AckJobAttemptDispatch, VisibilityLapses
<1>3. ASSUME NEW l \in Leases, LeaseNext(l)
      PROVE  /\ \A j \in Jobs : Abstract!JobMoves(job[j], job'[j])
             /\ \A j \in Jobs : Abstract!JobMoves(attempt[j], attempt'[j])
    <2>1. ASSUME NEW i \in Jobs, GrantLease(l, i)
          PROVE  /\ \A j \in Jobs : Abstract!JobMoves(job[j], job'[j])
                 /\ \A j \in Jobs : Abstract!JobMoves(attempt[j], attempt'[j])
        BY <1>0, <2>1, RowMoves DEF GrantLease, CanGrantLease
    <2>2. CASE ExpireLease(l)
        <3>1. leaseJob[l] \in Jobs
            BY <2>2 DEF ExpireLease, LiveLeaseIsCurrent
        <3>2. \A j \in Jobs : Abstract!JobMoves(job[j], job'[j])
            BY <1>0, <2>2, <3>1, RowMoves DEF ExpireLease
        <3>3. \A j \in Jobs : Abstract!JobMoves(attempt[j], attempt'[j])
            BY <1>0, <2>2, <3>1, RowMoves DEF ExpireLease
        <3> QED
            BY <3>2, <3>3
    <2> QED
        BY <1>1, <1>3, <2>1, <2>2 DEF LeaseNext, AcknowledgeLease, TouchLeaseHeartbeat, RenewLease,
           CompleteLease, TransitionLeaseState, LeaseFallsDue
<1> QED
    BY <1>1, <1>2, <1>3 DEF StoreNext, RunNext, CreateRun, TransitionRunState, PurgeQueue, storeVars

\* What a step can do to the lease rows: nothing, a grant, or one legal move
\* of one row that leaves the pointers alone.
LEMMA LeaseStep ==
    ASSUME StoreTypeOK, [StoreNext]_storeVars
    PROVE  \/ UNCHANGED <<attemptLease, leaseState>>
           \/ \E l \in Leases, j \in Jobs : GrantLease(l, j)
           \/ \E l \in Leases, to \in LeaseStates :
                 /\ validateLeaseTransition(leaseState[l], to)
                 /\ leaseState' = [leaseState EXCEPT ![l] = to]
                 /\ attemptLease' = attemptLease
<1>1. ASSUME NEW j \in Jobs, JobNext(j) PROVE UNCHANGED <<attemptLease, leaseState>>
    BY <1>1 DEF JobNext, CreateJob, CreateJobAttempt, RecordJobDependency, TransitionJobState,
                TransitionJobAttemptState, EnqueueJobAttempt, DequeueJobAttempt,
                AckJobAttemptDispatch, VisibilityLapses, leaseVars
<1>2. ASSUME RunNext \/ PurgeQueue \/ UNCHANGED storeVars PROVE UNCHANGED <<attemptLease, leaseState>>
    BY <1>2 DEF RunNext, CreateRun, TransitionRunState, PurgeQueue, storeVars, leaseVars
<1>3. ASSUME NEW l \in Leases, LeaseNext(l)
      PROVE  \/ UNCHANGED <<attemptLease, leaseState>>
             \/ \E j \in Jobs : GrantLease(l, j)
             \/ \E to \in LeaseStates :
                   /\ validateLeaseTransition(leaseState[l], to)
                   /\ leaseState' = [leaseState EXCEPT ![l] = to]
                   /\ attemptLease' = attemptLease
    <2>1. CASE RenewLease(l)
        BY <2>1 DEF RenewLease, LeaseStates
    <2>2. CASE ExpireLease(l)
        <3>1. validateLeaseTransition(leaseState[l], "EXPIRED") /\ "EXPIRED" \in LeaseStates
            BY <2>2 DEF ExpireLease, Live, LiveLeaseStates, validateLeaseTransition, leaseTransitions, LeaseStates
        <3> QED
            BY <2>2, <3>1 DEF ExpireLease
    <2> QED
        BY <1>3, <2>1, <2>2 DEF LeaseNext, AcknowledgeLease, TouchLeaseHeartbeat, CompleteLease,
           TransitionLeaseState, LeaseFallsDue
<1> QED
    BY <1>1, <1>2, <1>3 DEF StoreNext

\* Every lease moves along the lease table.
LEMMA LeaseRefines ==
    ASSUME StoreTypeOK, [StoreNext]_storeVars, NEW m \in Leases
    PROVE  Abstract!LeaseMoves(leaseState[m], leaseState'[m])
<1> USE DEF Abstract!LeaseMoves
<1>1. CASE UNCHANGED leaseState
    BY <1>1
<1>2. CASE \E l \in Leases, j \in Jobs : GrantLease(l, j)
    BY <1>2, SameTables DEF GrantLease, StoreTypeOK
<1>3. ASSUME NEW l \in Leases, NEW to \in LeaseStates, validateLeaseTransition(leaseState[l], to),
             leaseState' = [leaseState EXCEPT ![l] = to]
      PROVE  Abstract!LeaseMoves(leaseState[m], leaseState'[m])
    BY <1>3, SameTables DEF StoreTypeOK
<1> QED
    BY <1>1, <1>2, <1>3, LeaseStep

\* The lease an attempt's row names was granted, and granted on that attempt.
\* Without this the lease_id of an attempt could be the live lease of another,
\* which the unique index would not see.
LeaseIdPointsBack ==
    \A j \in Jobs : attemptLease[j] \in Leases =>
        /\ leaseState[attemptLease[j]] # Absent
        /\ leaseJob[attemptLease[j]] = j

\* No attempt names a lease at the start.
LEMMA PointsBackInit == StoreInit => LeaseIdPointsBack
BY NoLeaseAssumption DEF StoreInit, LeaseIdPointsBack

\* Every transaction keeps lease_id and job_attempt_id mutual.
LEMMA PointsBackStep ==
    StoreTypeOK /\ LeaseIdPointsBack /\ [StoreNext]_storeVars => LeaseIdPointsBack'
<1> SUFFICES ASSUME StoreTypeOK, LeaseIdPointsBack, [StoreNext]_storeVars,
                    NEW j \in Jobs, attemptLease'[j] \in Leases
             PROVE  leaseState'[attemptLease'[j]] # Absent /\ leaseJob'[attemptLease'[j]] = j
    BY DEF LeaseIdPointsBack
<1>1. CASE \E l \in Leases, i \in Jobs : GrantLease(l, i)
    BY <1>1 DEF GrantLease, LeaseIdPointsBack, StoreTypeOK, Absent
<1>2. CASE leaseJob' = leaseJob /\ attemptLease' = attemptLease
    BY <1>2, LeaseStep DEF LeaseIdPointsBack, StoreTypeOK, LeaseStates, Absent, GrantLease
<1>3. ASSUME NEW i \in Jobs, JobNext(i) PROVE leaseJob' = leaseJob
    BY <1>3 DEF JobNext, CreateJob, CreateJobAttempt, RecordJobDependency, TransitionJobState,
                TransitionJobAttemptState, EnqueueJobAttempt, DequeueJobAttempt,
                AckJobAttemptDispatch, VisibilityLapses, leaseVars
<1>4. ASSUME NEW l \in Leases, LeaseNext(l) PROVE leaseJob' = leaseJob \/ \E i \in Jobs : GrantLease(l, i)
    BY <1>4 DEF LeaseNext, AcknowledgeLease, TouchLeaseHeartbeat, RenewLease, CompleteLease,
                TransitionLeaseState, ExpireLease, LeaseFallsDue
<1>5. ASSUME RunNext \/ PurgeQueue \/ UNCHANGED storeVars PROVE leaseJob' = leaseJob
    BY <1>5 DEF RunNext, CreateRun, TransitionRunState, PurgeQueue, storeVars, leaseVars
<1>6. leaseJob' = leaseJob \/ \E l \in Leases, i \in Jobs : GrantLease(l, i)
    BY <1>3, <1>4, <1>5 DEF StoreNext
<1>7. CASE leaseJob' = leaseJob /\ attemptLease' # attemptLease
    BY <1>1, <1>7, LeaseStep
<1> QED
    BY <1>1, <1>2, <1>6, <1>7

\* The holder of an attempt changes only with a grant on a free attempt, or
\* with the end of the lease that held it.
LEMMA HolderRefines ==
    ASSUME StoreTypeOK, LeaseIdPointsBack, [StoreNext]_storeVars, NEW j \in Jobs
    PROVE  Abstract!HolderMoves(j)
<1> USE DEF Abstract!HolderMoves
<1>1. CASE UNCHANGED <<attemptLease, leaseState>>
    BY <1>1 DEF Holder, Live
<1>2. ASSUME NEW l \in Leases, NEW i \in Jobs, GrantLease(l, i)
      PROVE  Abstract!HolderMoves(j)
    <2>1. /\ leaseState[l] = Absent /\ leaseState' = [leaseState EXCEPT ![l] = "GRANTED"]
          /\ attemptLease' = [attemptLease EXCEPT ![i] = l]
          /\ leaseJob' = [leaseJob EXCEPT ![l] = i]
          /\ leases_active_per_attempt_idx(i)
        BY <1>2 DEF GrantLease, CanGrantLease
    <2>2. ~Live(l) /\ Live(l)' /\ leaseState'[l] = "GRANTED"
        BY <2>1 DEF Live, LiveLeaseStates, Absent, StoreTypeOK
    <2>3. \A m \in Leases : m # l => Live(m)' = Live(m)
        BY <2>1 DEF Live, StoreTypeOK
    <2>4. CASE i = j /\ Holder[j] = NoLease
        <3>1. Holder'[j] = l
            BY <2>1, <2>2, <2>4 DEF Holder, StoreTypeOK
        <3> QED
            BY <2>1, <2>2, <2>4, <3>1, SameTables
    <2>5. CASE i = j /\ Holder[j] # NoLease
        <3>1. attemptLease[j] \in Leases /\ Live(attemptLease[j]) /\ Holder[j] = attemptLease[j]
            BY <2>5 DEF Holder
        <3> QED
            BY <2>1, <2>5, <3>1 DEF LeaseIdPointsBack, leases_active_per_attempt_idx
    <2>6. CASE i # j
        <3>1. attemptLease'[j] = attemptLease[j]
            BY <2>1, <2>6 DEF StoreTypeOK
        <3>2. attemptLease[j] # l
            BY <2>1 DEF LeaseIdPointsBack
        <3> QED
            BY <2>3, <3>1, <3>2 DEF Holder
    <2> QED
        BY <2>4, <2>5, <2>6
<1>3. ASSUME NEW l \in Leases, NEW to \in LeaseStates, validateLeaseTransition(leaseState[l], to),
             leaseState' = [leaseState EXCEPT ![l] = to], attemptLease' = attemptLease
      PROVE  Abstract!HolderMoves(j)
    <2>1. leaseState'[l] = to /\ (Live(l)' => Live(l))
        BY <1>3, LeaseTableRange DEF StoreTypeOK, Live
    <2>2. \A m \in Leases : m # l => Live(m)' = Live(m)
        BY <1>3 DEF Live, StoreTypeOK
    <2>3. CASE attemptLease[j] = l /\ Live(l) /\ ~Live(l)'
        <3>1. Holder[j] = l /\ Holder'[j] = NoLease
            BY <1>3, <2>3 DEF Holder
        <3> QED
            BY <2>1, <2>3, <3>1, SameTables DEF Live
    <2>4. CASE ~ (attemptLease[j] = l /\ Live(l) /\ ~Live(l)')
        BY <1>3, <2>1, <2>2, <2>4 DEF Holder
    <2> QED
        BY <2>3, <2>4
<1> QED
    BY <1>1, <1>2, <1>3, LeaseStep

\* The store implements Lifecycle, for any jobs, any leases and any order of
\* transactions.
THEOREM StoreImplementsLifecycle == StoreSpec => ImplementsLifecycle
<1>1. StoreInit => Abstract!Init
    BY AbstractInit
<1>2. StoreSpec => []LeaseIdPointsBack
    BY PointsBackInit, PointsBackStep, StoreTypeCorrect, PTL DEF StoreSpec
<1>3. ASSUME StoreTypeOK, LiveLeaseIsCurrent, LeaseIdPointsBack, [StoreNext]_storeVars
      PROVE  Abstract!Next
    BY <1>3, RunRefines, JobRefines, LeaseRefines, HolderRefines DEF Abstract!Next
<1> QED
    BY <1>1, <1>2, <1>3, StoreTypeCorrect, LeaseIsCurrent, PTL DEF StoreSpec, ImplementsLifecycle, Abstract!Spec
=============================================================================
