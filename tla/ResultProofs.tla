---------------------------- MODULE ResultProofs ----------------------------
(***************************************************************************)
(* Results stay: what is decided about a job or a run was established, and *)
(* no later step takes it back.  The tables of the store do not say so: a  *)
(* FAILED job may be QUEUED again, by the sweeper and by a completion that *)
(* queues dependents.  It holds while runners renew their leases in time   *)
(* (~SlowRunners), no request is cut short (MaxAborts = 0) and no job      *)
(* waits for two others (NoFanIn).  Without any one of these, TLC finds a  *)
(* run in which a FAILED job is taken back (FinalStateIsKept).             *)
(***************************************************************************)
EXTENDS RunnerProofs

(***************************************************************************)
(* The plans.  The plans the planner makes for Go have no fan-in: tests    *)
(* and lint wait for the build of their module, and for nothing else       *)
(* (planForGo).  Those for a change of documents have a build per module   *)
(* and no dependency at all.                                               *)
(***************************************************************************)

\* No job waits for two others.
NoFanIn == \A j \in Jobs : \A d, e \in DependsOn[j] : d = e

\* No job waits for another.
Independent == \A j \in Jobs : DependsOn[j] = {}

(***************************************************************************)
(* The inductive invariant.  A job that is about to be queued is unqueued, *)
(* and claimed by one request only: by startRun, which goes through the    *)
(* roots, or by the completion of the one job it waits for.                *)
(***************************************************************************)

\* Where startRun has not queued anything yet, and where it has not queued all.
EarlyPlaces == {"idle", "startPlanning", "startPlan", "failRunPlan", "failRun", "startJobs", "startDeps"}

StartingPlaces == EarlyPlaces \union QueuePlaces \union {"startQueued"}

\* Where a completion queues the jobs that waited for it.
LoopPlaces == {"depNext"} \union QueuePlaces

\* Where a request has found the run RUNNING, or CANCEL_REQUESTED, and decides about it.
VerdictPlaces == {"finList", "finWrite", "finCancelList", "finCancelWrite"}

\* The states of a run whose jobs are not all queued yet.
Unstarted == {Absent, "CREATED", "PLANNING", "PLAN_FAILED"}

\* startRun queues each root once, and the run moves on only after that.
StarterOK(f) ==
    /\ f.pc \in StartingPlaces => run \in Unstarted
    /\ f.pc \in EarlyPlaces => \A j \in Jobs : job[j] \in Unqueued
    /\ f.pc \in QueuePlaces => /\ f.job \in Roots /\ f.todo \subseteq Roots /\ f.job \notin f.todo
                               /\ \A r \in f.todo : job[r] \in Unqueued
    /\ f.pc = "queueJob" => job[f.job] \in Unqueued

\* The completion of lease l queues the jobs that wait for its job, after its
\* job has SUCCEEDED and its lease, the last one on that job, is over; a job
\* that FAILED is on a live lease only while its completion is about to end it.
CompleterOK(l, f) ==
    /\ f.pc \in LoopPlaces \/ (f.pc = "compLease" /\ f.status = "SUCCEEDED") => attempt[leaseJob[l]] = "SUCCEEDED"
    /\ f.pc \in LoopPlaces => /\ \A m \in Leases : leaseJob[m] = leaseJob[l] => ~Live(m)
                              /\ \A d \in f.todo : leaseJob[l] \in DependsOn[d]
    /\ f.pc \in QueuePlaces => leaseJob[l] \in DependsOn[f.job]
    /\ f.pc \in {"depAttempt", "queueJob"} => job[f.job] \in Unqueued
    /\ f.pc # "compLease" /\ Live(l) => job[leaseJob[l]] # "FAILED"

ResultFrame(t, f) ==
    /\ t = Starter => StarterOK(f)
    /\ t \in Mains => CompleterOK(LeaseOf(t), f)
    /\ f.pc \in VerdictPlaces => run \notin Unstarted
    /\ f.pc = "finWrite" /\ f.status = "FAILED" => \E j \in Required : job[j] \in {"FAILED", "CANCELED"}
    /\ Independent /\ f.pc = "finCancelWrite" => ~CancelPending

\* A job has one completion that queues what waits for it.
OneLoop ==
    \A l, m \in Leases :
        th[Main(l)].pc \in LoopPlaces /\ th[Main(m)].pc \in LoopPlaces /\ leaseJob[l] = leaseJob[m] => l = m

\* The cancellation of a run is finished when nothing of it is pending.
NothingPending == run = "CANCELED" => ~CancelPending

ResultInv ==
    /\ TimelyInv
    /\ deps \subseteq PlannedDeps
    /\ \A j \in Jobs : job[j] # "TIMED_OUT"
    /\ \A t \in Threads : ResultFrame(t, th[t])
    /\ OneLoop
    /\ Independent => NothingPending

(***************************************************************************)
(* What any transaction keeps.                                             *)
(***************************************************************************)

\* The run does not go back to a state before QUEUED, and leaves those only to
\* be queued or to fail.
LEMMA RunGoesOn ==
    ASSUME [StoreNext]_storeVars
    PROVE  /\ run \notin Unstarted => run' \notin Unstarted
           /\ run \in Unstarted => run' \in Unstarted \union {"QUEUED", "FAILED"}
<1>1. Abstract!RunMoves
    BY RunRefines
<1>2. \A from, to : Abstract!validateRunTransition(from, to) =>
          /\ from \notin Unstarted => to \notin Unstarted
          /\ from \in Unstarted => to \in Unstarted \union {"QUEUED", "FAILED"}
    BY DEF Abstract!validateRunTransition, Abstract!runTransitions, Abstract!RunStates, Unstarted, Absent
<1> QED
    BY <1>1, <1>2, SameTables DEF Abstract!RunMoves, Unstarted

\* A job that has not been queued is left alone or queued, one that FAILED is
\* left alone or queued again, and a job that was queued does not go back.
LEMMA JobGoesOn ==
    ASSUME NEW from, NEW to, Abstract!JobMoves(from, to)
    PROVE  /\ from \in Unqueued => to \in Unqueued \union {"QUEUED"}
           /\ from = "FAILED" => to \in {"FAILED", "QUEUED"}
           /\ from \in {"SUCCEEDED", "CANCELED"} => to = from
BY SameTables DEF Abstract!JobMoves, Unqueued, Absent, Abstract!Absent, Abstract!JobStates,
       Abstract!validateJobTransition, Abstract!jobTransitions

\* A lease row appears by a grant.
LEMMA NewLease ==
    ASSUME StoreInv, [StoreNext]_storeVars, NEW l \in Leases, leaseState[l] = Absent, leaseState'[l] # Absent
    PROVE  \E j \in Jobs : GrantLease(l, j)
<1>1. ~UNCHANGED <<attemptLease, leaseState>>
    OBVIOUS
<1>2. ~ \E m \in Leases, to \in LeaseStates :
           /\ validateLeaseTransition(leaseState[m], to)
           /\ leaseState' = [leaseState EXCEPT ![m] = to]
           /\ attemptLease' = attemptLease
    BY DEF validateLeaseTransition, LeaseStates, Absent, StoreInv, StoreTypeOK
<1>3. PICK m \in Leases, j \in Jobs : GrantLease(m, j)
    BY <1>1, <1>2, LeaseStep DEF StoreInv
<1> QED
    BY <1>3 DEF GrantLease, StoreInv, StoreTypeOK

\* A lease is live after a step because it was live before it, on the same
\* attempt, or because the step granted it.
LEMMA LiveBefore ==
    ASSUME StoreInv, [StoreNext]_storeVars, NEW l \in Leases, Live(l)'
    PROVE  \/ Live(l) /\ leaseJob'[l] = leaseJob[l]
           \/ /\ leaseJob'[l] \in Jobs /\ GrantLease(l, leaseJob'[l])
              /\ job'[leaseJob'[l]] = "LEASED"
<1>1. CASE leaseState[l] = Absent
    <2>1. leaseState'[l] # Absent
        BY DEF Live, LiveLeaseStates, Absent
    <2>2. PICK j \in Jobs : GrantLease(l, j)
        BY <1>1, <2>1, NewLease
    <2>3. leaseJob'[l] = j /\ job'[j] = "LEASED"
        BY <2>2 DEF GrantLease, StoreInv, StoreTypeOK
    <2> QED
        BY <2>2, <2>3
<1>2. CASE leaseState[l] # Absent
    <2>1. leaseJob'[l] = leaseJob[l]
        BY <1>2, GrantStays DEF StoreInv
    <2>2. Abstract!LeaseMoves(leaseState[l], leaseState'[l])
        BY LeaseRefines DEF StoreInv
    <2>3. \A from, to : Abstract!validateLeaseTransition(from, to) /\ to \in LiveLeaseStates => from \in LiveLeaseStates
        BY DEF Abstract!validateLeaseTransition, Abstract!leaseTransitions, Abstract!LeaseStates, LiveLeaseStates
    <2> QED
        BY <1>2, <2>1, <2>2, <2>3, SameTables DEF Abstract!LeaseMoves, Live
<1> QED
    BY <1>1, <1>2

\* A job whose attempt has SUCCEEDED is leased no more.
LEMMA StaysUnleased ==
    ASSUME StoreInv, [StoreNext]_storeVars, NEW j \in Jobs, attempt[j] = "SUCCEEDED",
           \A m \in Leases : leaseJob[m] = j => ~Live(m),
           NEW m \in Leases, leaseJob'[m] = j
    PROVE  ~Live(m)'
<1> SUFFICES ASSUME Live(m)' PROVE FALSE
    OBVIOUS
<1>1. CASE Live(m) /\ leaseJob'[m] = leaseJob[m]
    BY <1>1
<1>2. CASE GrantLease(m, j)
    BY <1>2 DEF GrantLease, CanGrantLease, validateJobTransition, jobTransitions
<1> QED
    BY <1>1, <1>2, LiveBefore

(***************************************************************************)
(* What a step of a handler does to the run and the jobs.                  *)
(***************************************************************************)

\* A job is queued by the loops that queue jobs, and fails by its completion;
\* the run is queued, fails and is canceled only where the code says so.
MovesRows(t) ==
    /\ \A j \in Jobs : job'[j] = "QUEUED" =>
          job[j] = "QUEUED" \/ (t \in Mains \union {Starter} /\ th[t].pc = "queueJob" /\ th[t].job = j)
    /\ \A j \in Jobs : job'[j] = "FAILED" =>
          job[j] = "FAILED" \/ (t \in Mains /\ th[t].pc = "compJob" /\ JobOf(t) = j)
    /\ \A j \in Jobs : job'[j] = "TIMED_OUT" => job[j] = "TIMED_OUT"
    /\ run' = "QUEUED" => run = "QUEUED" \/ t = Starter
    /\ run' = "FAILED" => \/ run = "FAILED"
                          \/ t = Starter /\ th[t].pc = "failRun"
                          \/ th[t].pc = "finWrite" /\ th[t].status = "FAILED"
    /\ run' = "CANCELED" => run = "CANCELED" \/ th[t].pc = "finCancelWrite"
    /\ deps' \subseteq deps \union PlannedDeps

\* The states that are written without ado.
PlainRunStates == RunStates \ {"QUEUED", "FAILED", "CANCELED"}
PlainJobStates == JobStates \ {"QUEUED", "FAILED", "TIMED_OUT"}

\* A step that writes at most the run, or at most one job, to such a state.
PlainRows ==
    /\ deps' = deps
    /\ \/ UNCHANGED <<run, job>>
       \/ run' \in PlainRunStates /\ job' = job
       \/ run' = run /\ \E j, s : job' = [job EXCEPT ![j] = s] /\ s \in PlainJobStates

LEMMA PlainRowsMove ==
    ASSUME ThreadsInv, NEW t, PlainRows
    PROVE  MovesRows(t)
<1>1. run' = run \/ run' \notin {"QUEUED", "FAILED", "CANCELED"}
    BY DEF PlainRows, PlainRunStates
<1>2. \A j \in Jobs : job'[j] = job[j] \/ job'[j] \notin {"QUEUED", "FAILED", "TIMED_OUT"}
    BY DEF PlainRows, PlainJobStates, ThreadsInv, StoreInv, StoreTypeOK
<1> QED
    BY <1>1, <1>2 DEF MovesRows, PlainRows

\* The run is written, or reported.
LEMMA RunPlain ==
    ASSUME NEW t, NEW place, reportRun(t, place) \/ \E next \in PlainRunStates : TryRun(t, next, place)
    PROVE  PlainRows
<1>1. CASE UNCHANGED storeVars
    BY <1>1 DEF PlainRows, storeVars
<1>2. ASSUME NEW next \in PlainRunStates, TransitionRunState(next) PROVE PlainRows
    BY <1>2 DEF PlainRows, TransitionRunState
<1>3. "REPORTED" \in PlainRunStates
    BY DEF PlainRunStates, RunStates
<1> QED
    BY <1>1, <1>2, <1>3 DEF reportRun, TryRun

\* The worker writes LEASED and RUNNING.
LEMMA GrantPlain == \A t : GrantSteps(t) => PlainRows
<1> SUFFICES ASSUME NEW t, GrantSteps(t) PROVE PlainRows
    OBVIOUS
<1>1. CASE GrantLease_Grant(t)
    <2>1. CASE UNCHANGED storeVars
        BY <2>1 DEF PlainRows, storeVars
    <2>2. CASE GrantLease(LeaseOf(t), th[t].job)
        <3>1. UNCHANGED <<run, deps>> /\ job' = [job EXCEPT ![th[t].job] = "LEASED"]
            BY <2>2 DEF GrantLease
        <3>2. "LEASED" \in PlainJobStates
            BY DEF PlainJobStates, JobStates
        <3> QED
            BY <3>1, <3>2 DEF PlainRows
    <2> QED
        BY <1>1, <2>1, <2>2 DEF GrantLease_Grant
<1>2. CASE GrantLease_Run(t) \/ GrantLease_Report(t)
    BY <1>2, RunPlain DEF GrantLease_Run, GrantLease_Report, PlainRunStates, RunStates
<1>3. CASE UNCHANGED <<run, job, deps>>
    BY <1>3 DEF PlainRows
<1> QED
    BY <1>1, <1>2, <1>3 DEF GrantSteps, Dequeue, PurgeQueue, DequeueJobAttempt, GrantLease_Read,
           GrantLease_Dispatched, AckJobAttemptDispatch, storeVars

\* transitionJobAndAttempt writes the state it is given.
LEMMA BothPlain ==
    ASSUME NEW t, NEW j, NEW next \in PlainJobStates, NEW places, transitionJobAndAttempt(t, j, next, places)
    PROVE  PlainRows
BY DEF transitionJobAndAttempt, TryAttempt, TryJob, TransitionJobState, TransitionJobAttemptState, PlainRows, storeVars

\* The acknowledgement writes STARTING and RUNNING.
LEMMA AckPlain == \A t : AckSteps(t) => PlainRows
<1> SUFFICES ASSUME NEW t, AckSteps(t) PROVE PlainRows
    OBVIOUS
<1>1. CASE AckLease_Start(t)
    BY <1>1, BothPlain DEF AckLease_Start, PlainJobStates, JobStates
<1> QED
    BY <1>1 DEF AckSteps, AckLease_Acknowledge, AcknowledgeLease, RenewLease, AckLease_Read, AckLease_Run, TryRun,
           TransitionRunState, PlainRows, PlainRunStates, RunStates, storeVars

\* The heartbeat writes RUNNING.
LEMMA HeartbeatPlain == \A t : HeartbeatSteps(t) => PlainRows
<1> SUFFICES ASSUME NEW t, HeartbeatSteps(t) PROVE PlainRows
    OBVIOUS
<1>1. CASE Heartbeat_Running(t)
    BY <1>1, BothPlain DEF Heartbeat_Running, PlainJobStates, JobStates
<1> QED
    BY <1>1 DEF HeartbeatSteps, CheckLease, Heartbeat_Touch, TouchLeaseHeartbeat, RenewLease, Heartbeat_ReadAttempt,
           Heartbeat_ReadJob, Heartbeat_ReadRun, Heartbeat_Run, Heartbeat_Reply, TryRun,
           TransitionRunState, PlainRows, PlainRunStates, RunStates, storeVars

\* The acknowledgement of a cancellation writes CANCELED.
LEMMA CancelAckPlain == \A t : CancelAckSteps(t) => PlainRows
<1> SUFFICES ASSUME NEW t, CancelAckSteps(t) PROVE PlainRows
    OBVIOUS
<1>1. CASE CancelLease_Cancel(t)
    BY <1>1, BothPlain DEF CancelLease_Cancel, PlainJobStates, JobStates
<1> QED
    BY <1>1 DEF CancelAckSteps, CheckLease, CancelLease_ReadJob, CancelLease_Lease, CompleteLease, PlainRows, storeVars

\* queueJobAttempt queues the job in hand.
LEMMA QueueMoves ==
    ASSUME ThreadsInv, NEW t \in Mains \union {Starter}, queueJobAttempt(t)
    PROVE  MovesRows(t)
<1>1. CASE At(t, "queueJob") /\ TransitionJobState(th[t].job, "QUEUED")
    BY <1>1 DEF MovesRows, At, TransitionJobState, ThreadsInv, StoreInv, StoreTypeOK
<1>2. CASE UNCHANGED <<run, job, deps>>
    BY <1>2, PlainRowsMove DEF PlainRows
<1> QED
    BY <1>1, <1>2 DEF queueJobAttempt, queueJobAttempt_Skip, TransitionJobAttemptState, EnqueueJobAttempt, storeVars

\* The end of a request writes the verdict, or CANCELED.
LEMMA EndMoves ==
    ASSUME ThreadsInv, NEW t \in Threads,
           finalizeRunIfReady(t) \/ finalizeCancelIfReady(t) \/ ReportVerdict(t)
    PROVE  MovesRows(t)
<1>1. CASE At(t, "finWrite") /\ TransitionRunState(th[t].status)
    <2>1. UNCHANGED <<job, deps>> /\ run' = th[t].status /\ th[t].pc = "finWrite"
        BY <1>1 DEF At, TransitionRunState
    <2>2. th[t].status \notin {"QUEUED", "CANCELED"}
        BY DEF ThreadsInv, Frames, Absent
    <2> QED
        BY <2>1, <2>2 DEF MovesRows
<1>2. CASE At(t, "finCancelWrite") /\ TransitionRunState("CANCELED")
    BY <1>2 DEF MovesRows, At, TransitionRunState
<1>3. CASE PlainRows
    BY <1>3, PlainRowsMove
<1> QED
    BY <1>1, <1>2, <1>3
       DEF finalizeRunIfReady, finalizeCancelIfReady, ReportVerdict, reportRun, TransitionRunState, PlainRows,
           PlainRunStates, RunStates, storeVars

\* The dependents of a completed job are queued.
LEMMA DependentsMove ==
    ASSUME ThreadsInv, NEW t \in Mains, enqueueReadyDependents(t)
    PROVE  MovesRows(t)
<1>1. CASE queueJobAttempt(t)
    BY <1>1, QueueMoves
<1>2. CASE UNCHANGED storeVars
    BY <1>2, PlainRowsMove DEF PlainRows, storeVars
<1> QED
    BY <1>1, <1>2 DEF enqueueReadyDependents

\* The completion writes RUNNING, UPLOADING and the result.
LEMMA CompleteMoves ==
    ASSUME ThreadsInv, NEW t \in Mains, CompleteSteps(t)
    PROVE  MovesRows(t)
<1>1. t \in Threads
    BY DEF Threads
<1>2. CASE Complete_Running(t) \/ Complete_Uploading(t)
    BY <1>2, BothPlain, PlainRowsMove DEF Complete_Running, Complete_Uploading, PlainJobStates, JobStates
<1>3. CASE Complete_Result(t)
    <2>1. CASE UNCHANGED <<run, job, deps>>
        BY <2>1, PlainRowsMove DEF PlainRows
    <2>2. CASE At(t, "compJob") /\ TransitionJobState(JobOf(t), th[t].status)
        <3>1. /\ UNCHANGED <<run, deps>> /\ th[t].pc = "compJob"
              /\ \A j \in Jobs : job'[j] = job[j] \/ (j = JobOf(t) /\ job'[j] = th[t].status)
            BY <2>2 DEF TransitionJobState, At, ThreadsInv, StoreInv, StoreTypeOK
        <3>2. th[t].status \notin {"QUEUED", "TIMED_OUT"}
            BY <1>1 DEF ThreadsInv, Frames, Absent
        <3> QED
            BY <3>1, <3>2 DEF MovesRows
    <2> QED
        BY <1>3, <2>1, <2>2 DEF Complete_Result, transitionJobAndAttempt, TryAttempt, TryJob,
               TransitionJobAttemptState, storeVars
<1>4. CASE UNCHANGED <<run, job, deps>>
    BY <1>4, PlainRowsMove DEF PlainRows
<1> QED
    BY <1>1, <1>2, <1>3, <1>4, DependentsMove, EndMoves
       DEF CompleteSteps, CheckLease, Complete_ReadAttempt, Complete_ReadRun, Complete_Lease, CompleteLease, storeVars

\* startRun creates the plan, queues the roots, and the run; or it fails the run.
LEMMA StartMoves ==
    ASSUME ThreadsInv, startRun
    PROVE  MovesRows(Starter)
<1>1. CASE startRun_Create \/ startRun_Plan
    BY <1>1, PlainRowsMove DEF startRun_Create, CreateRun, startRun_Plan, PlainRows, PlainRunStates, RunStates, storeVars
<1>2. CASE startRun_Planning \/ startRun_Report
    BY <1>2, RunPlain, PlainRowsMove DEF startRun_Planning, startRun_Report, PlainRunStates, RunStates
<1>3. CASE failRun
    BY <1>3 DEF failRun, At, MovesRows, TransitionRunState, storeVars
<1>4. CASE startRun_Jobs
    <2>1. CASE UNCHANGED <<run, job, deps>>
        BY <2>1, PlainRowsMove DEF PlainRows
    <2>2. ASSUME NEW j, CreateJob(j) PROVE MovesRows(Starter)
        <3>1. UNCHANGED <<run, deps>> /\ job' = [job EXCEPT ![j] = "CREATED"] /\ "CREATED" \in PlainJobStates
            BY <2>2 DEF CreateJob, PlainJobStates, JobStates
        <3> QED
            BY <3>1, PlainRowsMove DEF PlainRows
    <2> QED
        BY <1>4, <2>1, <2>2 DEF startRun_Jobs, CreateJobAttempt, storeVars
<1>5. CASE startRun_Dependencies
    <2>1. UNCHANGED <<run, job>>
        BY <1>5 DEF startRun_Dependencies, RecordJobDependency, storeVars
    <2>2. deps' \subseteq deps \union PlannedDeps
        <3>1. CASE deps' = deps
            BY <3>1
        <3>2. ASSUME NEW pair \in PlannedDeps, RecordJobDependency(pair[1], pair[2])
              PROVE  deps' \subseteq deps \union PlannedDeps
            <4>1. pair = <<pair[1], pair[2]>>
                BY DEF PlannedDeps
            <4> QED
                BY <3>2, <4>1 DEF RecordJobDependency
        <3> QED
            BY <1>5, <3>1, <3>2 DEF startRun_Dependencies, storeVars
    <2> QED
        BY <2>1, <2>2 DEF MovesRows
<1>6. CASE startRun_Queued
    <2>1. CASE UNCHANGED storeVars
        BY <2>1, PlainRowsMove DEF PlainRows, storeVars
    <2>2. CASE TransitionRunState("QUEUED")
        BY <2>2 DEF MovesRows, TransitionRunState
    <2> QED
        BY <1>6, <2>1, <2>2 DEF startRun_Queued, TryRun
<1> QED
    BY <1>1, <1>2, <1>3, <1>4, <1>5, <1>6, QueueMoves DEF startRun

\* CancelRun writes CANCEL_REQUESTED and CANCELED.
LEMMA CancelMoves ==
    ASSUME ThreadsInv, CancelRun
    PROVE  MovesRows(Canceler)
<1>1. Canceler \in Threads
    BY DEF Threads
<1>2. CASE CancelRun_Request \/ CancelRun_Report
    BY <1>2, RunPlain, PlainRowsMove DEF CancelRun_Request, CancelRun_Report, PlainRunStates, RunStates
<1>3. CASE CancelRun_Job
    <2>1. {"CANCEL_REQUESTED", "CANCELED"} \subseteq PlainJobStates
        BY DEF PlainJobStates, JobStates
    <2>2. CASE UNCHANGED storeVars
        BY <2>2, PlainRowsMove DEF PlainRows, storeVars
    <2> QED
        BY <1>3, <2>1, <2>2, BothPlain, PlainRowsMove DEF CancelRun_Job
<1>4. CASE CancelRun_List
    BY <1>4, PlainRowsMove DEF CancelRun_List, PlainRows, storeVars
<1> QED
    BY <1>1, <1>2, <1>3, <1>4, EndMoves DEF CancelRun

\* Every handler.
LEMMA HandlerMoves ==
    ASSUME ThreadsInv, NEW t \in Threads, Handler(t)
    PROVE  MovesRows(t)
<1>1. CASE GrantSteps(t) \/ AckSteps(t) \/ HeartbeatSteps(t) \/ CancelAckSteps(t)
    BY <1>1, GrantPlain, AckPlain, HeartbeatPlain, CancelAckPlain, PlainRowsMove
<1> QED
    BY <1>1, CompleteMoves, StartMoves, CancelMoves DEF Handler

(***************************************************************************)
(* What holds of the frames of other threads keeps holding.                *)
(***************************************************************************)

\* The jobs that thread t is going to queue, and has found not queued yet.
Claims(t, f) ==
    {j \in Jobs : \/ t = Starter /\ f.pc \in EarlyPlaces
                  \/ t = Starter /\ f.pc \in QueuePlaces /\ j \in f.todo
                  \/ t = Starter /\ f.pc = "queueJob" /\ j = f.job
                  \/ t \in Mains /\ f.pc \in {"depAttempt", "queueJob"} /\ j = f.job}

LEMMA ResultFrameStays ==
    ASSUME StoreInv, [StoreNext]_storeVars, NEW t \in Threads, NEW f, ResultFrame(t, f), FrameOK(t, f),
           \A j \in Claims(t, f) : job'[j] # "QUEUED",
           \A j \in Jobs : job[j] \in {"FAILED", "CANCELED"} => job'[j] = job[j],
           t = Starter /\ f.pc \in StartingPlaces => run' \in Unstarted,
           t \in Mains /\ f.pc # "compLease" /\ Live(LeaseOf(t)) => job'[leaseJob[LeaseOf(t)]] # "FAILED",
           Independent /\ run \notin Unstarted /\ ~CancelPending => ~CancelPending'
    PROVE  ResultFrame(t, f)'
<1>1. \A j \in Claims(t, f) : job[j] \in Unqueued => job'[j] \in Unqueued
    BY RowsMove, JobGoesOn DEF Claims
<1>2. t = Starter => StarterOK(f)'
    <2> SUFFICES ASSUME t = Starter PROVE StarterOK(f)'
        OBVIOUS
    <2>1. StarterOK(f)
        BY DEF ResultFrame
    <2>2. \A j \in Jobs : f.pc \in EarlyPlaces => j \in Claims(t, f)
        BY DEF Claims
    <2>3. \A j \in Jobs : f.pc \in QueuePlaces /\ j \in f.todo => j \in Claims(t, f)
        BY DEF Claims
    <2>4. f.pc = "queueJob" => f.job \in Claims(t, f)
        BY DEF Claims, FrameOK, JobPlaces, QueuePlaces
    <2>5. Roots \subseteq Jobs
        BY DEF Roots
    <2> QED
        BY <1>1, <2>1, <2>2, <2>3, <2>4, <2>5 DEF StarterOK
<1>3. ASSUME t \in Mains PROVE CompleterOK(LeaseOf(t), f)'
    <2>1. PICK l \in Leases : l = LeaseOf(t)
        BY <1>3, ThreadKinds
    <2>2. CompleterOK(l, f)
        BY <1>3, <2>1 DEF ResultFrame
    <2>3. f.pc \in LoopPlaces \union {"compLease"} => leaseState[l] # Absent
        BY <1>3, <2>1 DEF FrameOK, LoopPlaces, QueuePlaces, WorkerPlaces
    <2>4. leaseState[l] # Absent => leaseJob'[l] = leaseJob[l] /\ leaseJob[l] \in Jobs
        BY GrantStays DEF StoreInv, GrantedOnQueued
    <2>5. leaseJob[l] \in Jobs /\ attempt[leaseJob[l]] = "SUCCEEDED" => attempt'[leaseJob[l]] = "SUCCEEDED"
        BY RowsMove, RowStays
    <2>6. f.pc \in LoopPlaces => \A m \in Leases : leaseJob'[m] = leaseJob'[l] => ~Live(m)'
        BY <2>2, <2>3, <2>4, StaysUnleased DEF CompleterOK
    <2>7. f.pc \in {"depAttempt", "queueJob"} => job'[f.job] \in Unqueued
        BY <1>1, <1>3, <2>2 DEF CompleterOK, Claims, FrameOK, JobPlaces, QueuePlaces
    <2>8. f.pc # "compLease" /\ Live(l)' => job'[leaseJob'[l]] # "FAILED"
        BY <1>3, <2>1, LiveBefore
    <2>9. CompleterOK(l, f)'
        BY <2>2, <2>3, <2>4, <2>5, <2>6, <2>7, <2>8 DEF CompleterOK, LoopPlaces, QueuePlaces
    <2> QED
        BY <2>1, <2>9
<1>4. f.pc \in VerdictPlaces => run' \notin Unstarted
    BY RunGoesOn DEF ResultFrame
<1>5. f.pc = "finWrite" /\ f.status = "FAILED" => \E j \in Required : job'[j] \in {"FAILED", "CANCELED"}
    BY PlanAssumption DEF ResultFrame
<1>6. Independent /\ f.pc = "finCancelWrite" => ~CancelPending'
    BY DEF ResultFrame, VerdictPlaces
<1> QED
    BY <1>2, <1>3, <1>4, <1>5, <1>6 DEF ResultFrame

(***************************************************************************)
(* The frame of the thread that takes the step.                            *)
(***************************************************************************)

\* A runner that is not queueing dependents, nor about to end its lease.
LEMMA CompleterPlain ==
    ASSUME StoreInv, [StoreNext]_storeVars, NEW t \in Mains, ResultFrame(t, th[t]), MovesRows(t),
           th[t].pc # "compLease", th[t].pc = "compJob" => job' = job,
           NEW f, f.pc \notin LoopPlaces \union {"compLease"}
    PROVE  CompleterOK(LeaseOf(t), f)'
<1>1. PICK l \in Leases : l = LeaseOf(t)
    BY ThreadKinds
<1>2. ASSUME Live(l)' PROVE job'[leaseJob'[l]] # "FAILED"
    <2>1. CASE Live(l) /\ leaseJob'[l] = leaseJob[l]
        <3>1. leaseJob[l] \in Jobs /\ job[leaseJob[l]] # "FAILED"
            BY <1>1, <2>1 DEF ResultFrame, CompleterOK, StoreInv, LiveLeaseIsCurrent
        <3> QED
            BY <2>1, <3>1 DEF MovesRows
    <2> QED
        BY <1>2, <2>1, LiveBefore
<1>3. CompleterOK(l, f)'
    BY <1>2 DEF CompleterOK, LoopPlaces, QueuePlaces
<1> QED
    BY <1>1, <1>3

\* Outside the places the invariant speaks about.
LEMMA PlainPlaceFrame ==
    ASSUME StoreInv, [StoreNext]_storeVars, NEW t \in Threads, t # Starter, ResultFrame(t, th[t]), MovesRows(t),
           th[t].pc # "compLease", th[t].pc = "compJob" => job' = job,
           NEW f, f.pc \notin LoopPlaces \union VerdictPlaces \union {"compLease"}
    PROVE  ResultFrame(t, f)'
<1>1. t \in Mains => CompleterOK(LeaseOf(t), f)'
    BY CompleterPlain
<1> QED
    BY <1>1 DEF ResultFrame, VerdictPlaces

\* Where an error or the end of a request leads.
LEMMA ExitPlaces ==
    ASSUME ThreadsInv, NEW t \in Threads, Fails(t) \/ Returns(t)
    PROVE  th'[t].pc \notin LoopPlaces \union VerdictPlaces \union {"compLease"}
<1>1. \E place \in {"idle", "gone", "off", "done"} : Finish(t, place)
    BY ThreadKinds DEF Fails, Returns
<1>2. th'[t].pc \in {"idle", "gone", "off", "done"}
    BY <1>1, FrameAfter
<1> QED
    BY <1>2 DEF LoopPlaces, QueuePlaces, VerdictPlaces

\* The places the invariant speaks about.
Watched == LoopPlaces \union VerdictPlaces \union {"compLease"}

\* A step between other places.
Unwatched(t) == th[t].pc \notin {"compJob", "compLease"} /\ th'[t].pc \notin Watched

\* A worker that looks for a lease.
LEMMA GrantUnwatched ==
    ASSUME ThreadsInv, NEW t \in Threads, GrantSteps(t)
    PROVE  Unwatched(t)
<1>1. th[t].pc \in {"idle", "dequeue", "grantRead", "grant", "grantDispatched", "grantRun", "grantReport"}
    BY DEF GrantSteps, Dequeue, GrantLease_Read, GrantLease_Grant, GrantLease_Dispatched, GrantLease_Run,
           GrantLease_Report, At
<1>2. CASE Dequeue(t)
    <2>1. ASSUME NEW j, GotoWith(t, [NewFrame EXCEPT !.pc = "grantRead", !.job = j])
          PROVE  th'[t].pc = "grantRead"
        <3>1. [NewFrame EXCEPT !.pc = "grantRead", !.job = j].pc = "grantRead"
            BY DEF NewFrame
        <3> QED
            BY <2>1, <3>1, FrameAfter
    <2>2. th'[t].pc \in {"dequeue", "grantRead", "idle"}
        BY <1>2, <2>1, FrameAfter DEF Dequeue
    <2> QED
        BY <1>1, <2>2 DEF Unwatched, Watched, LoopPlaces, QueuePlaces, VerdictPlaces
<1>3. CASE GrantLease_Read(t) \/ GrantLease_Grant(t) \/ GrantLease_Run(t)
    BY <1>1, <1>3, FrameAfter, ExitPlaces
       DEF GrantLease_Read, GrantLease_Grant, GrantLease_Run, TryRun,
           Unwatched, Watched, LoopPlaces, QueuePlaces, VerdictPlaces
<1>4. CASE GrantLease_Dispatched(t)
    <2>1. [NewFrame EXCEPT !.pc = "grantRun"].pc = "grantRun"
        BY DEF NewFrame
    <2> QED
        BY <1>1, <1>4, <2>1, FrameAfter
           DEF GrantLease_Dispatched, Unwatched, Watched, LoopPlaces, QueuePlaces, VerdictPlaces
<1>5. CASE GrantLease_Report(t)
    BY <1>1, <1>5, FrameAfter
       DEF GrantLease_Report, reportRun, Unwatched, Watched, LoopPlaces, QueuePlaces, VerdictPlaces
<1> QED
    BY <1>2, <1>3, <1>4, <1>5 DEF GrantSteps

\* transitionJobAndAttempt, except where it writes the result.
LEMMA BothUnwatched ==
    ASSUME ThreadsInv, NEW t \in Threads, NEW j, NEW next, NEW p, NEW q, NEW r,
           p \notin {"compJob", "compLease"}, q \notin {"compJob"} \union Watched, r \notin Watched,
           transitionJobAndAttempt(t, j, next, <<p, q, r>>)
    PROVE  Unwatched(t)
<1>1. th[t].pc \in {p, q}
    BY DEF transitionJobAndAttempt, At
<1>2. th'[t].pc \in {q, r} \/ Fails(t)
    BY FrameAfter DEF transitionJobAndAttempt, TryAttempt, TryJob
<1> QED
    BY <1>1, <1>2, ExitPlaces DEF Unwatched, Watched

\* A runner that acknowledges its lease.
LEMMA AckUnwatched ==
    ASSUME ThreadsInv, NEW t \in Threads, AckSteps(t)
    PROVE  Unwatched(t)
<1>1. CASE AckLease_Start(t)
    BY <1>1, BothUnwatched DEF AckLease_Start, Watched, LoopPlaces, QueuePlaces, VerdictPlaces
<1>2. CASE AckLease_Acknowledge(t) \/ AckLease_Read(t) \/ AckLease_Run(t)
    BY <1>2, FrameAfter, ExitPlaces
       DEF AckLease_Acknowledge, AckLease_Read, AckLease_Run, TryRun, At,
           Unwatched, Watched, LoopPlaces, QueuePlaces, VerdictPlaces
<1> QED
    BY <1>1, <1>2 DEF AckSteps

\* A heartbeat.
LEMMA HeartbeatUnwatched ==
    ASSUME ThreadsInv, NEW t \in Threads, HeartbeatSteps(t)
    PROVE  Unwatched(t)
<1>0. th[t] \in Frames
    BY DEF ThreadsInv
<1>1. CASE Heartbeat_Running(t)
    <2>1. \E r \in {"hbReply", "hbRun"} :
              transitionJobAndAttempt(t, JobOf(t), "RUNNING", <<"hbAttempt", "hbJob", r>>)
        BY <1>1 DEF Heartbeat_Running
    <2> QED
        BY <2>1, BothUnwatched DEF Watched, LoopPlaces, QueuePlaces, VerdictPlaces
<1>2. CASE CheckLease(t, "hbLease", "hbTouch") \/ Heartbeat_Touch(t) \/ Heartbeat_Run(t) \/ Heartbeat_Reply(t)
    BY <1>2, FrameAfter, ExitPlaces
       DEF CheckLease, Heartbeat_Touch, Heartbeat_Run, Heartbeat_Reply, TryRun, At,
           Unwatched, Watched, LoopPlaces, QueuePlaces, VerdictPlaces
<1>3. CASE Heartbeat_ReadAttempt(t) \/ Heartbeat_ReadJob(t)
    <2>1. PICK f : GotoWith(t, f) /\ f.pc \in {"hbReadJob", "hbReadRun"}
        <3>1. /\ \A a : [th[t] EXCEPT !.pc = "hbReadJob", !.attempt = a].pc = "hbReadJob"
              /\ \A c : [th[t] EXCEPT !.pc = "hbReadRun", !.cancel = c].pc = "hbReadRun"
            BY <1>0 DEF Frames
        <3> QED
            BY <1>3, <3>1 DEF Heartbeat_ReadAttempt, Heartbeat_ReadJob
    <2>2. th[t].pc \in {"hbReadAttempt", "hbReadJob"}
        BY <1>3 DEF Heartbeat_ReadAttempt, Heartbeat_ReadJob, At
    <2> QED
        BY <2>1, <2>2, FrameAfter DEF Unwatched, Watched, LoopPlaces, QueuePlaces, VerdictPlaces
<1>4. CASE Heartbeat_ReadRun(t)
    <2>1. PICK p, r, c : /\ GotoWith(t, [NewFrame EXCEPT !.pc = p, !.run = r, !.cancel = c])
                         /\ p \in {"hbAttempt", "hbReply", "hbRun"}
        BY <1>4 DEF Heartbeat_ReadRun
    <2>3. [NewFrame EXCEPT !.pc = p, !.run = r, !.cancel = c].pc = p
        BY DEF NewFrame
    <2>4. th'[t].pc = p
        BY <2>1, <2>3, FrameAfter
    <2>2. th[t].pc = "hbReadRun"
        BY <1>4 DEF Heartbeat_ReadRun, At
    <2> QED
        BY <2>1, <2>2, <2>4 DEF Unwatched, Watched, LoopPlaces, QueuePlaces, VerdictPlaces
<1> QED
    BY <1>1, <1>2, <1>3, <1>4 DEF HeartbeatSteps

\* The acknowledgement of a cancellation.
LEMMA CancelAckUnwatched ==
    ASSUME ThreadsInv, NEW t \in Threads, CancelAckSteps(t)
    PROVE  Unwatched(t)
<1>1. CASE CancelLease_Cancel(t)
    BY <1>1, BothUnwatched DEF CancelLease_Cancel, Watched, LoopPlaces, QueuePlaces, VerdictPlaces
<1>2. CASE CheckLease(t, "cakCheck", "cakReadJob") \/ CancelLease_ReadJob(t) \/ CancelLease_Lease(t)
    BY <1>2, FrameAfter, ExitPlaces
       DEF CheckLease, CancelLease_ReadJob, CancelLease_Lease, At,
           Unwatched, Watched, LoopPlaces, QueuePlaces, VerdictPlaces
<1> QED
    BY <1>1, <1>2 DEF CancelAckSteps

\* The step leaves its thread with a frame that is in order.
OwnFrame(t) == \E f : f = th'[t] /\ ResultFrame(t, f)'

LEMMA UnwatchedFrame ==
    ASSUME ResultInv, [StoreNext]_storeVars, NEW t \in Threads, t # Starter, MovesRows(t), Unwatched(t)
    PROVE  OwnFrame(t)
<1>1. StoreInv /\ ResultFrame(t, th[t])
    BY DEF ResultInv, TimelyInv, SystemInv
<1>2. PICK f : f = th'[t]
    OBVIOUS
<1>3. th[t].pc # "compLease" /\ th[t].pc # "compJob" /\ f.pc \notin LoopPlaces \union VerdictPlaces \union {"compLease"}
    BY <1>2 DEF Unwatched, Watched
<1>4. ResultFrame(t, f)'
    BY <1>1, <1>3, PlainPlaceFrame
<1> QED
    BY <1>2, <1>4 DEF OwnFrame

\* A completion, up to its result, and its end.
LEMMA CompleteUnwatched ==
    ASSUME ThreadsInv, NEW t \in Threads,
           \/ CheckLease(t, "compCheck", "compReadAttempt") \/ Complete_ReadAttempt(t) \/ Complete_ReadRun(t)
           \/ Complete_Running(t) \/ Complete_Uploading(t) \/ ReportVerdict(t)
           \/ At(t, "compAttempt") /\ TryAttempt(t, JobOf(t), th[t].status, "compJob")
    PROVE  Unwatched(t)
<1>0. th[t] \in Frames
    BY DEF ThreadsInv
<1>1. CASE Complete_Running(t) \/ Complete_Uploading(t)
    BY <1>1, BothUnwatched
       DEF Complete_Running, Complete_Uploading, Watched, LoopPlaces, QueuePlaces, VerdictPlaces
<1>2. CASE \/ CheckLease(t, "compCheck", "compReadAttempt") \/ ReportVerdict(t)
           \/ At(t, "compAttempt") /\ TryAttempt(t, JobOf(t), th[t].status, "compJob")
    BY <1>2, FrameAfter, ExitPlaces
       DEF CheckLease, ReportVerdict, reportRun, TryAttempt, At,
           Unwatched, Watched, LoopPlaces, QueuePlaces, VerdictPlaces
<1>3. CASE Complete_ReadAttempt(t)
    <2>1. \A a : [th[t] EXCEPT !.pc = "compReadRun", !.attempt = a].pc = "compReadRun"
        BY <1>0 DEF Frames
    <2>2. th'[t].pc = "compReadRun" /\ th[t].pc = "compReadAttempt"
        BY <1>3, <2>1, FrameAfter DEF Complete_ReadAttempt, At
    <2> QED
        BY <2>2 DEF Unwatched, Watched, LoopPlaces, QueuePlaces, VerdictPlaces
<1>4. CASE Complete_ReadRun(t)
    <2>1. PICK p, r : /\ GotoWith(t, [th[t] EXCEPT !.pc = p, !.run = r])
                      /\ p \in {"compAttempt", "compUpAttempt", "compRunAttempt"}
        BY <1>4 DEF Complete_ReadRun
    <2>2. [th[t] EXCEPT !.pc = p, !.run = r].pc = p
        BY <1>0 DEF Frames
    <2>3. th'[t].pc = p /\ th[t].pc = "compReadRun"
        BY <1>4, <2>1, <2>2, FrameAfter DEF Complete_ReadRun, At
    <2> QED
        BY <2>1, <2>3 DEF Unwatched, Watched, LoopPlaces, QueuePlaces, VerdictPlaces
<1> QED
    BY <1>1, <1>2, <1>3, <1>4

\* The client that cancels, up to the end.
LEMMA CancelUnwatched ==
    ASSUME ThreadsInv, CancelRun_Request \/ CancelRun_Report \/ CancelRun_List \/ CancelRun_Job
    PROVE  Unwatched(Canceler)
<1>0. th[Canceler] \in Frames /\ Canceler \in Threads
    BY DEF ThreadsInv, Threads
<1>1. CASE CancelRun_Request \/ CancelRun_Report
    BY <1>0, <1>1, FrameAfter, ExitPlaces
       DEF CancelRun_Request, CancelRun_Report, TryRun, reportRun, At,
           Unwatched, Watched, LoopPlaces, QueuePlaces, VerdictPlaces
<1>2. CASE CancelRun_List
    <2>1. \/ GotoWith(Canceler, [NewFrame EXCEPT !.pc = "finCancelRead"])
          \/ \E j, s, q : GotoWith(Canceler, [NewFrame EXCEPT !.pc = "cancelAttempt", !.job = j, !.todo = s, !.queued = q])
        BY <1>2 DEF CancelRun_List
    <2>3. [NewFrame EXCEPT !.pc = "finCancelRead"].pc = "finCancelRead"
        BY DEF NewFrame
    <2>4. ASSUME NEW j, NEW s, NEW q,
                 GotoWith(Canceler, [NewFrame EXCEPT !.pc = "cancelAttempt", !.job = j, !.todo = s, !.queued = q])
          PROVE  th'[Canceler].pc = "cancelAttempt"
        <3>1. [NewFrame EXCEPT !.pc = "cancelAttempt", !.job = j, !.todo = s, !.queued = q].pc = "cancelAttempt"
            BY DEF NewFrame
        <3> QED
            BY <1>0, <2>4, <3>1, FrameAfter
    <2>5. th'[Canceler].pc \in {"finCancelRead", "cancelAttempt"}
        BY <1>0, <2>1, <2>3, <2>4, FrameAfter
    <2>2. th[Canceler].pc = "cancelList"
        BY <1>2 DEF CancelRun_List, At
    <2> QED
        BY <2>2, <2>5 DEF Unwatched, Watched, LoopPlaces, QueuePlaces, VerdictPlaces
<1>3. CASE CancelRun_Job
    <2>1. CASE \/ transitionJobAndAttempt(Canceler, th[Canceler].job, "CANCEL_REQUESTED",
                                          <<"cancelAttempt", "cancelJob", "cancelQueued">>)
               \/ transitionJobAndAttempt(Canceler, th[Canceler].job, "CANCELED",
                                          <<"canceledAttempt", "canceledJob", "cancelNext">>)
        BY <1>0, <2>1, BothUnwatched DEF Watched, LoopPlaces, QueuePlaces, VerdictPlaces
    <2>2. CASE At(Canceler, "cancelQueued") /\ Goto(Canceler, "canceledAttempt")
        BY <1>0, <2>2, FrameAfter DEF At, Unwatched, Watched, LoopPlaces, QueuePlaces, VerdictPlaces
    <2>3. CASE /\ th[Canceler].pc \in {"cancelQueued", "cancelNext"}
               /\ GotoWith(Canceler, NextJob(Canceler, "cancelAttempt", "finCancelRead"))
        <3>1. NextJob(Canceler, "cancelAttempt", "finCancelRead").pc \in {"cancelAttempt", "finCancelRead"}
            BY <1>0 DEF NextJob, NewFrame, Frames
        <3> QED
            BY <1>0, <2>3, <3>1, FrameAfter DEF Unwatched, Watched, LoopPlaces, QueuePlaces, VerdictPlaces
    <2> QED
        BY <1>3, <2>1, <2>2, <2>3 DEF CancelRun_Job, At
<1> QED
    BY <1>1, <1>2, <1>3

\* The job is given its result.
LEMMA ResultStepFrame ==
    ASSUME ResultInv, [StoreNext]_storeVars, NEW t \in Mains, MovesRows(t),
           At(t, "compJob"), TryJob(t, JobOf(t), th[t].status, "compLease")
    PROVE  OwnFrame(t)
<1>1. /\ ThreadsInv /\ StoreInv /\ t \in Threads /\ t # Starter /\ th[t] \in Frames
      /\ FrameOK(t, th[t]) /\ ResultFrame(t, th[t]) /\ th[t].pc = "compJob"
    BY ThreadKinds DEF ResultInv, TimelyInv, SystemInv, ThreadsInv, Threads, At
<1>2. PICK f : f = th'[t]
    OBVIOUS
<1>3. CASE Fails(t) /\ UNCHANGED storeVars
    <2>1. f.pc \notin LoopPlaces \union VerdictPlaces \union {"compLease"} /\ job' = job
        BY <1>1, <1>2, <1>3, ExitPlaces DEF storeVars
    <2>2. ResultFrame(t, f)'
        BY <1>1, <2>1, PlainPlaceFrame
    <2> QED
        BY <1>2, <2>2 DEF OwnFrame
<1>4. CASE TransitionJobState(JobOf(t), th[t].status) /\ Goto(t, "compLease")
    <2>1. f = [th[t] EXCEPT !.pc = "compLease"]
        BY <1>1, <1>2, <1>4 DEF Goto, ThreadsInv
    <2>2. f.pc = "compLease" /\ f.status = th[t].status
        BY <1>1, <2>1 DEF Frames
    <2>3. UNCHANGED <<attempt, leaseJob>>
        BY <1>4 DEF TransitionJobState, leaseVars
    <2>4. PICK l \in Leases : l = LeaseOf(t)
        BY ThreadKinds
    <2>5. f.status = "SUCCEEDED" => attempt'[leaseJob'[l]] = "SUCCEEDED"
        BY <1>1, <2>2, <2>3, <2>4 DEF FrameOK, JobOf
    <2>6. CompleterOK(l, f)'
        BY <2>2, <2>5 DEF CompleterOK, LoopPlaces, QueuePlaces
    <2>7. ResultFrame(t, f)'
        BY <1>1, <2>2, <2>4, <2>6 DEF ResultFrame, VerdictPlaces
    <2> QED
        BY <1>2, <2>7 DEF OwnFrame
<1> QED
    BY <1>3, <1>4 DEF TryJob

\* The lease is closed: it was the only live one on its job.
LEMMA CloseStepFrame ==
    ASSUME ResultInv, [StoreNext]_storeVars, NEW t \in Mains, Complete_Lease(t)
    PROVE  OwnFrame(t)
<1>1. /\ ThreadsInv /\ StoreInv /\ t \in Threads /\ t # Starter /\ th[t] \in Frames
      /\ ResultFrame(t, th[t]) /\ th[t].pc = "compLease" /\ deps \subseteq PlannedDeps
    BY ThreadKinds DEF ResultInv, TimelyInv, SystemInv, ThreadsInv, Threads, Complete_Lease, At
<1>2. PICK f : f = th'[t]
    OBVIOUS
<1>3. PICK l \in Leases : l = LeaseOf(t) /\ t = Main(l)
    BY ThreadKinds
<1>4. leaseState[l] = "ACTIVE"
    BY <1>1, <1>3 DEF ResultInv, TimelyInv, HeldIsLive, AckedPlaces
<1>5. /\ leaseState' = [leaseState EXCEPT ![l] = "COMPLETED"]
      /\ UNCHANGED <<attempt, attemptLease, leaseJob>>
      /\ f = AfterComplete(t)
    <2>1. validateLeaseTransition("ACTIVE", "COMPLETED")
        BY DEF validateLeaseTransition, leaseTransitions, LeaseStates
    <2>2. CompleteLease(LeaseOf(t), "COMPLETED") /\ GotoWith(t, AfterComplete(t))
        BY <1>3, <1>4, <2>1 DEF Complete_Lease
    <2>3. f = AfterComplete(t)
        BY <1>1, <1>2, <2>2, FrameAfter
    <2> QED
        BY <1>3, <2>2, <2>3 DEF CompleteLease
<1>6. ~Live(l)'
    BY <1>1, <1>5 DEF Live, LiveLeaseStates, StoreInv, StoreTypeOK
<1>7. CASE f.pc \notin LoopPlaces \union VerdictPlaces \union {"compLease"}
    <2>1. CompleterOK(l, f)'
        BY <1>6, <1>7 DEF CompleterOK, LoopPlaces, QueuePlaces
    <2>2. ResultFrame(t, f)'
        BY <1>1, <1>3, <1>7, <2>1 DEF ResultFrame, VerdictPlaces
    <2> QED
        BY <1>2, <2>2 DEF OwnFrame
<1>8. CASE f.pc = "depNext" /\ f.todo = ListJobDependents(JobOf(t)) /\ th[t].status = "SUCCEEDED"
    <2>1. attempt'[leaseJob'[l]] = "SUCCEEDED"
        BY <1>1, <1>3, <1>5, <1>8 DEF ResultFrame, CompleterOK
    <2>2. \A m \in Leases : leaseJob'[m] = leaseJob'[l] => ~Live(m)'
        <3> SUFFICES ASSUME NEW m \in Leases, leaseJob'[m] = leaseJob'[l], Live(m)' PROVE FALSE
            OBVIOUS
        <3>1. m # l
            BY <1>6
        <3>2. Live(m) /\ leaseJob[m] = leaseJob[l]
            BY <1>1, <1>5, <3>1 DEF Live, StoreInv, StoreTypeOK
        <3>3. Live(l)
            BY <1>4 DEF Live, LiveLeaseStates
        <3> QED
            BY <1>1, <3>1, <3>2, <3>3 DEF StoreInv, LiveLeaseIsCurrent
    <2>3. \A d \in f.todo : leaseJob'[l] \in DependsOn[d]
        BY <1>1, <1>3, <1>5, <1>8 DEF ListJobDependents, PlannedDeps, JobOf
    <2>4. CompleterOK(l, f)'
        BY <1>8, <2>1, <2>2, <2>3 DEF CompleterOK, QueuePlaces
    <2>5. ResultFrame(t, f)'
        BY <1>1, <1>3, <1>8, <2>4 DEF ResultFrame, VerdictPlaces
    <2> QED
        BY <1>2, <2>5 DEF OwnFrame
<1>9. f.pc \in {"finCancelRead", "finRead"}
      \/ (f.pc = "depNext" /\ f.todo = ListJobDependents(JobOf(t)) /\ th[t].status = "SUCCEEDED")
    BY <1>5 DEF AfterComplete, NewFrame
<1> QED
    BY <1>7, <1>8, <1>9 DEF LoopPlaces, QueuePlaces, VerdictPlaces

\* The loop over the dependents goes on, with a job it had in hand or had still
\* to visit, or it ends.
LEMMA LoopFrame ==
    ASSUME ResultInv, [StoreNext]_storeVars, NEW t \in Mains, MovesRows(t), th[t].pc \in LoopPlaces,
           NEW f,
           \/ f.pc \notin LoopPlaces \union VerdictPlaces \union {"compLease"}
           \/ /\ f.pc \in LoopPlaces
              /\ f.todo \subseteq th[t].todo
              /\ f.pc \in QueuePlaces => f.job \in th[t].todo \/ (th[t].pc \in QueuePlaces /\ f.job = th[t].job)
              /\ f.pc \in {"depAttempt", "queueJob"} => job'[f.job] \in Unqueued
    PROVE  ResultFrame(t, f)'
<1>1. /\ StoreInv /\ t \in Threads /\ t # Starter /\ ResultFrame(t, th[t]) /\ FrameOK(t, th[t])
    BY ThreadKinds DEF ResultInv, TimelyInv, SystemInv, Threads
<1>2. th[t].pc # "compLease" /\ th[t].pc # "compJob"
    BY DEF LoopPlaces, QueuePlaces
<1>3. CASE f.pc \notin LoopPlaces \union VerdictPlaces \union {"compLease"}
    BY <1>1, <1>2, <1>3, PlainPlaceFrame
<1>4. CASE f.pc \in LoopPlaces
    <2>1. PICK l \in Leases : l = LeaseOf(t)
        BY ThreadKinds
    <2>2. CompleterOK(l, th[t])
        BY <1>1, <2>1 DEF ResultFrame
    <2>3. leaseState[l] # Absent
        BY <1>1, <2>1 DEF FrameOK, LoopPlaces, QueuePlaces, WorkerPlaces
    <2>4. leaseJob'[l] = leaseJob[l] /\ leaseJob[l] \in Jobs
        BY <1>1, <2>3, GrantStays DEF StoreInv, GrantedOnQueued
    <2>5. attempt[leaseJob[l]] = "SUCCEEDED" /\ \A m \in Leases : leaseJob[m] = leaseJob[l] => ~Live(m)
        BY <2>2 DEF CompleterOK
    <2>6. attempt'[leaseJob[l]] = "SUCCEEDED"
        BY <1>1, <2>4, <2>5, RowsMove, RowStays
    <2>7. \A m \in Leases : leaseJob'[m] = leaseJob'[l] => ~Live(m)'
        BY <1>1, <2>4, <2>5, StaysUnleased
    <2>8. \A d \in f.todo : leaseJob'[l] \in DependsOn[d]
        BY <1>2, <1>3, <1>4, <2>2, <2>4 DEF CompleterOK
    <2>9. f.pc \in QueuePlaces => leaseJob'[l] \in DependsOn[f.job]
        BY <1>3, <1>4, <2>2, <2>4 DEF CompleterOK
    <2>10. f.pc \in {"depAttempt", "queueJob"} => job'[f.job] \in Unqueued
        BY <1>4
    <2>11. CompleterOK(l, f)'
        BY <1>4, <2>4, <2>6, <2>7, <2>8, <2>9, <2>10 DEF CompleterOK, LoopPlaces, QueuePlaces
    <2> QED
        BY <1>1, <1>4, <2>1, <2>11 DEF ResultFrame, LoopPlaces, QueuePlaces, VerdictPlaces
<1> QED
    BY <1>3, <1>4

\* The next round of the loop.
LEMMA NextRound ==
    ASSUME NEW t \in Mains, th[t] \in Frames
    PROVE  \/ QueueLoop(t).pc = "finRead"
           \/ QueueLoop(t).pc = "depNext" /\ QueueLoop(t).todo = th[t].todo
BY ThreadKinds DEF QueueLoop, NewFrame, Frames

\* A dependent is queued, or passed over.
LEMMA DependentsFrame ==
    ASSUME ResultInv, [StoreNext]_storeVars, NEW t \in Mains, MovesRows(t), enqueueReadyDependents(t)
    PROVE  OwnFrame(t)
<1>1. /\ ThreadsInv /\ StoreInv /\ t \in Threads /\ t # Starter /\ th[t] \in Frames
      /\ ResultFrame(t, th[t])
    BY ThreadKinds DEF ResultInv, TimelyInv, SystemInv, ThreadsInv, Threads
<1>2. PICK f : f = th'[t]
    OBVIOUS
<1>3. th[t].pc \in LoopPlaces
    BY DEF enqueueReadyDependents, queueJobAttempt, At, LoopPlaces, QueuePlaces
<1>4. SUFFICES ResultFrame(t, f)'
    BY <1>2 DEF OwnFrame
<1>5. CASE GotoWith(t, QueueLoop(t))
    <2>1. f = QueueLoop(t)
        BY <1>1, <1>2, <1>5, FrameAfter
    <2>2. f.pc = "finRead" \/ (f.pc = "depNext" /\ f.todo = th[t].todo)
        BY <1>1, <2>1, NextRound
    <2> QED
        BY <1>3, <2>2, LoopFrame DEF LoopPlaces, QueuePlaces, VerdictPlaces
<1>6. ASSUME NEW place \in {"queueAttempt", "enqueue"}, Goto(t, place), th[t].pc \in QueuePlaces
      PROVE  ResultFrame(t, f)'
    <2>1. f = [th[t] EXCEPT !.pc = place]
        BY <1>1, <1>2, <1>6 DEF Goto, ThreadsInv
    <2>2. f.pc = place /\ f.job = th[t].job /\ f.todo = th[t].todo
        BY <1>1, <2>1 DEF Frames
    <2> QED
        BY <1>3, <1>6, <2>2, LoopFrame DEF LoopPlaces, QueuePlaces
<1>7. CASE queueJobAttempt(t)
    BY <1>1, <1>5, <1>6, <1>7 DEF queueJobAttempt, queueJobAttempt_Skip, At, QueuePlaces
<1>8. CASE At(t, "depAttempt") /\ GotoWith(t, [th[t] EXCEPT !.pc = "queueJob"]) /\ UNCHANGED storeVars
    <2>1. f = [th[t] EXCEPT !.pc = "queueJob"]
        BY <1>1, <1>2, <1>8, FrameAfter
    <2>2. f.pc = "queueJob" /\ f.job = th[t].job /\ f.todo = th[t].todo
        BY <1>1, <2>1 DEF Frames
    <2>3. job'[f.job] \in Unqueued
        BY <1>1, <1>8, <2>2 DEF ResultFrame, CompleterOK, At, storeVars
    <2> QED
        BY <1>3, <1>8, <2>2, <2>3, LoopFrame DEF LoopPlaces, QueuePlaces, At
<1>9. ASSUME NEW d \in th[t].todo, At(t, "depNext"), UNCHANGED storeVars,
             GotoWith(t, [[th[t] EXCEPT !.todo = @ \ {d}] EXCEPT !.pc = "depAttempt", !.job = d]), job[d] = "CREATED"
      PROVE  ResultFrame(t, f)'
    <2>1. f = [[th[t] EXCEPT !.todo = @ \ {d}] EXCEPT !.pc = "depAttempt", !.job = d]
        BY <1>1, <1>2, <1>9, FrameAfter
    <2>2. f.pc = "depAttempt" /\ f.job = d /\ f.todo \subseteq th[t].todo
        BY <1>1, <2>1 DEF Frames
    <2>3. job'[f.job] \in Unqueued
        BY <1>9, <2>2 DEF Unqueued, storeVars
    <2> QED
        BY <1>3, <2>2, <2>3, LoopFrame DEF LoopPlaces, QueuePlaces
<1>10. ASSUME NEW d \in th[t].todo, At(t, "depNext"), GotoWith(t, [th[t] EXCEPT !.todo = @ \ {d}])
       PROVE  ResultFrame(t, f)'
    <2>1. f = [th[t] EXCEPT !.todo = @ \ {d}]
        BY <1>1, <1>2, <1>10, FrameAfter
    <2>2. f.pc = "depNext" /\ f.todo \subseteq th[t].todo
        BY <1>1, <1>10, <2>1 DEF Frames, At
    <2> QED
        BY <1>3, <2>2, LoopFrame DEF LoopPlaces, QueuePlaces
<1>11. ASSUME GotoWith(t, [NewFrame EXCEPT !.pc = "finRead"])
       PROVE  ResultFrame(t, f)'
    <2>1. f.pc = "finRead"
        BY <1>1, <1>2, <1>11, FrameAfter DEF NewFrame
    <2> QED
        BY <1>3, <2>1, LoopFrame DEF LoopPlaces, QueuePlaces, VerdictPlaces
<1>12. CASE /\ At(t, "depNext")
            /\ \E d \in th[t].todo :
                  LET rest == [th[t] EXCEPT !.todo = @ \ {d}]
                  IN  GotoWith(t, IF DependenciesSatisfied(d) /\ job[d] = "CREATED"
                                  THEN [rest EXCEPT !.pc = "depAttempt", !.job = d]
                                  ELSE IF rest.todo = {} THEN [NewFrame EXCEPT !.pc = "finRead"] ELSE rest)
            /\ UNCHANGED storeVars
    <2>1. PICK d \in th[t].todo :
                  LET rest == [th[t] EXCEPT !.todo = @ \ {d}]
                  IN  GotoWith(t, IF DependenciesSatisfied(d) /\ job[d] = "CREATED"
                                  THEN [rest EXCEPT !.pc = "depAttempt", !.job = d]
                                  ELSE IF rest.todo = {} THEN [NewFrame EXCEPT !.pc = "finRead"] ELSE rest)
        BY <1>12
    <2>2. \/ /\ GotoWith(t, [[th[t] EXCEPT !.todo = @ \ {d}] EXCEPT !.pc = "depAttempt", !.job = d])
             /\ job[d] = "CREATED"
          \/ GotoWith(t, [th[t] EXCEPT !.todo = @ \ {d}])
          \/ GotoWith(t, [NewFrame EXCEPT !.pc = "finRead"])
        BY <2>1
    <2> QED
        BY <1>9, <1>10, <1>11, <1>12, <2>2
<1> QED
    BY <1>5, <1>7, <1>8, <1>12 DEF enqueueReadyDependents

\* The verdict on a run that cannot be a success: a required job has failed.
LEMMA FailedVerdict ==
    ASSUME \A j \in Jobs : job[j] # "TIMED_OUT", RunVerdict = "FAILED"
    PROVE  \E j \in Required : job[j] \in {"FAILED", "CANCELED"}
<1>1. PICK S : S = {j \in Required : job[j] # "SUCCEEDED"}
    OBVIOUS
<1>2. S # {} /\ job[FirstOf(S)] \in {"FAILED", "TIMED_OUT", "CANCELED"}
    BY <1>1 DEF RunVerdict, Absent
<1>3. FirstOf(S) \in S /\ S \subseteq Jobs
    BY <1>1, <1>2, FirstOfRange, PlanAssumption
<1> QED
    BY <1>1, <1>2, <1>3

\* A request that decides about the run, or about its cancellation.
LEMMA VerdictFrame ==
    ASSUME ResultInv, [StoreNext]_storeVars, NEW t \in Threads, t # Starter, MovesRows(t),
           finalizeRunIfReady(t) \/ finalizeCancelIfReady(t)
    PROVE  OwnFrame(t)
<1>1. /\ ThreadsInv /\ StoreInv /\ th[t] \in Frames /\ ResultFrame(t, th[t])
      /\ \A j \in Jobs : job[j] # "TIMED_OUT"
    BY DEF ResultInv, TimelyInv, SystemInv, ThreadsInv
<1>2. PICK f : f = th'[t]
    OBVIOUS
<1>3. SUFFICES ResultFrame(t, f)'
    BY <1>2 DEF OwnFrame
<1>4. th[t].pc \in VerdictPlaces \union {"finRead", "finCancelRead"}
    BY DEF finalizeRunIfReady, finalizeCancelIfReady, At, VerdictPlaces
<1>5. th[t].pc # "compLease" /\ th[t].pc # "compJob"
    BY <1>4 DEF VerdictPlaces
<1>6. CASE Returns(t)
    <2>1. f.pc \notin LoopPlaces \union VerdictPlaces \union {"compLease"}
        BY <1>1, <1>2, <1>6, ExitPlaces
    <2> QED
        BY <1>1, <1>5, <2>1, PlainPlaceFrame
<1>7. CASE Goto(t, "finReport")
    <2>1. f.pc = "finReport"
        BY <1>1, <1>2, <1>7, FrameAfter
    <2>2. f.pc \notin LoopPlaces \union VerdictPlaces \union {"compLease"}
        BY <2>1 DEF LoopPlaces, QueuePlaces, VerdictPlaces
    <2> QED
        BY <1>1, <1>5, <2>2, PlainPlaceFrame
<1>8. ASSUME f.pc \in VerdictPlaces, run' \notin Unstarted,
             f.pc = "finWrite" /\ f.status = "FAILED" => \E j \in Required : job'[j] \in {"FAILED", "CANCELED"},
             f.pc = "finCancelWrite" => ~CancelPending'
      PROVE  ResultFrame(t, f)'
    <2>1. f.pc \notin LoopPlaces \union {"compLease"}
        BY <1>8 DEF LoopPlaces, QueuePlaces, VerdictPlaces
    <2>2. t \in Mains => CompleterOK(LeaseOf(t), f)'
        BY <1>1, <1>5, <2>1, CompleterPlain
    <2> QED
        BY <1>8, <2>2 DEF ResultFrame
<1>9. CASE \/ At(t, "finRead") /\ run = "RUNNING" /\ Goto(t, "finList") /\ UNCHANGED storeVars
           \/ At(t, "finCancelRead") /\ run = "CANCEL_REQUESTED" /\ Goto(t, "finCancelList") /\ UNCHANGED storeVars
           \/ At(t, "finCancelList") /\ ~CancelPending /\ Goto(t, "finCancelWrite") /\ UNCHANGED storeVars
    <2>1. f.pc \in VerdictPlaces /\ f.pc # "finWrite"
        BY <1>1, <1>2, <1>9, FrameAfter DEF VerdictPlaces
    <2>2. run' \notin Unstarted
        BY <1>1, <1>9 DEF ResultFrame, VerdictPlaces, At, Unstarted, Absent, storeVars
    <2>3. f.pc = "finCancelWrite" => ~CancelPending'
        <3>1. f.pc = "finCancelWrite" => ~CancelPending /\ job' = job
            BY <1>1, <1>2, <1>9, FrameAfter DEF storeVars
        <3> QED
            BY <3>1 DEF CancelPending
    <2> QED
        BY <1>8, <2>1, <2>2, <2>3
<1>10. CASE /\ At(t, "finList") /\ UNCHANGED storeVars
            /\ GotoWith(t, [th[t] EXCEPT !.pc = "finWrite", !.status = RunVerdict])
    <2>1. PICK v : v = RunVerdict
        OBVIOUS
    <2>2. f = [th[t] EXCEPT !.pc = "finWrite", !.status = v]
        BY <1>1, <1>2, <1>10, <2>1, FrameAfter
    <2>3. f.pc = "finWrite" /\ f.status = v
        BY <1>1, <2>2 DEF Frames
    <2>4. run' \notin Unstarted
        BY <1>1, <1>10 DEF ResultFrame, VerdictPlaces, At, storeVars
    <2>5. v = "FAILED" => \E j \in Required : job'[j] \in {"FAILED", "CANCELED"}
        BY <1>1, <1>10, <2>1, FailedVerdict DEF storeVars
    <2> QED
        BY <1>8, <2>3, <2>4, <2>5 DEF VerdictPlaces
<1> QED
    BY <1>6, <1>7, <1>9, <1>10 DEF finalizeRunIfReady, finalizeCancelIfReady

\* A completion, at any place.
LEMMA CompleteFrame ==
    ASSUME ResultInv, [StoreNext]_storeVars, NEW t \in Mains, MovesRows(t), CompleteSteps(t)
    PROVE  OwnFrame(t)
<1>1. ThreadsInv /\ t \in Threads /\ t # Starter
    BY ThreadKinds DEF ResultInv, TimelyInv, SystemInv, ThreadsInv, Threads
<1>2. CASE At(t, "compJob") /\ TryJob(t, JobOf(t), th[t].status, "compLease")
    BY <1>2, ResultStepFrame
<1>3. CASE Complete_Lease(t)
    BY <1>3, CloseStepFrame
<1>4. CASE enqueueReadyDependents(t)
    BY <1>4, DependentsFrame
<1>5. CASE finalizeRunIfReady(t) \/ finalizeCancelIfReady(t)
    BY <1>1, <1>5, VerdictFrame
<1>6. CASE \/ CheckLease(t, "compCheck", "compReadAttempt") \/ Complete_ReadAttempt(t) \/ Complete_ReadRun(t)
           \/ Complete_Running(t) \/ Complete_Uploading(t) \/ ReportVerdict(t)
           \/ At(t, "compAttempt") /\ TryAttempt(t, JobOf(t), th[t].status, "compJob")
    BY <1>1, <1>6, CompleteUnwatched, UnwatchedFrame
<1> QED
    BY <1>2, <1>3, <1>4, <1>5, <1>6 DEF CompleteSteps, Complete_Result, transitionJobAndAttempt

\* startRun is over, or past the queueing.
LEMMA StartedFrame ==
    ASSUME NEW f, f.pc \notin StartingPlaces \union VerdictPlaces
    PROVE  ResultFrame(Starter, f)'
<1>1. Starter \notin Mains
    BY ThreadKinds
<1> QED
    BY <1>1 DEF ResultFrame, StarterOK, StartingPlaces, EarlyPlaces, QueuePlaces, VerdictPlaces

\* A job that startRun does not queue in this step.
LEMMA StarterLeaves ==
    ASSUME StoreInv, [StoreNext]_storeVars, MovesRows(Starter), NEW j \in Jobs, job[j] \in Unqueued,
           ~ (th[Starter].pc = "queueJob" /\ th[Starter].job = j)
    PROVE  job'[j] \in Unqueued
<1>1. job'[j] \in Unqueued \union {"QUEUED"}
    BY RowsMove, JobGoesOn
<1> QED
    BY <1>1 DEF MovesRows, Unqueued, Absent

\* Before anything is queued.
LEMMA EarlyFrame ==
    ASSUME ResultInv, [StoreNext]_storeVars, MovesRows(Starter), th[Starter].pc \in EarlyPlaces,
           run' \in Unstarted, NEW f, f.pc \in EarlyPlaces
    PROVE  ResultFrame(Starter, f)'
<1>1. StoreInv /\ StarterOK(th[Starter]) /\ Starter \notin Mains
    BY ThreadKinds DEF ResultInv, TimelyInv, SystemInv, ResultFrame, Threads
<1>2. \A j \in Jobs : job'[j] \in Unqueued
    BY <1>1, StarterLeaves DEF StarterOK, EarlyPlaces
<1> QED
    BY <1>1, <1>2 DEF ResultFrame, StarterOK, EarlyPlaces, QueuePlaces, VerdictPlaces

\* The job in hand is queued; those left are still unqueued.
LEMMA QueueingFrame ==
    ASSUME ResultInv, [StoreNext]_storeVars, MovesRows(Starter), th[Starter].pc \in QueuePlaces,
           run' = run, NEW f, f.pc \in {"queueAttempt", "enqueue", "startQueued", "queueJob"},
           f.pc \in {"queueAttempt", "enqueue"} => f.job = th[Starter].job /\ f.todo = th[Starter].todo,
           f.pc = "queueJob" => /\ f.job \in th[Starter].todo /\ f.todo = th[Starter].todo \ {f.job}
                                /\ th[Starter].pc # "queueJob"
    PROVE  ResultFrame(Starter, f)'
<1>1. StoreInv /\ StarterOK(th[Starter]) /\ Starter \notin Mains /\ Roots \subseteq Jobs
    BY ThreadKinds DEF ResultInv, TimelyInv, SystemInv, ResultFrame, Threads, Roots
<1>2. /\ th[Starter].job \in Roots /\ th[Starter].todo \subseteq Roots /\ th[Starter].job \notin th[Starter].todo
      /\ run' \in Unstarted
    BY <1>1 DEF StarterOK, StartingPlaces
<1>3. \A r \in th[Starter].todo : job'[r] \in Unqueued
    BY <1>1, <1>2, StarterLeaves DEF StarterOK
<1> QED
    BY <1>1, <1>2, <1>3 DEF ResultFrame, StarterOK, StartingPlaces, EarlyPlaces, QueuePlaces, VerdictPlaces

\* The roots are taken up.
LEMMA RootsFrame ==
    ASSUME ResultInv, [StoreNext]_storeVars, MovesRows(Starter), th[Starter].pc = "startDeps", run' = run, NEW f,
           \/ f.pc = "startQueued"
           \/ f.pc = "queueJob" /\ f.job \in Roots /\ f.todo = Roots \ {f.job}
    PROVE  ResultFrame(Starter, f)'
<1>1. StoreInv /\ StarterOK(th[Starter]) /\ Starter \notin Mains /\ Roots \subseteq Jobs
    BY ThreadKinds DEF ResultInv, TimelyInv, SystemInv, ResultFrame, Threads, Roots
<1>2. run' \in Unstarted
    BY <1>1 DEF StarterOK, StartingPlaces, EarlyPlaces
<1>3. \A j \in Jobs : job'[j] \in Unqueued
    BY <1>1, StarterLeaves DEF StarterOK, EarlyPlaces
<1> QED
    BY <1>1, <1>2, <1>3 DEF ResultFrame, StarterOK, StartingPlaces, EarlyPlaces, QueuePlaces, VerdictPlaces

\* startRun queues a root.
LEMMA RootFrame ==
    ASSUME ResultInv, [StoreNext]_storeVars, MovesRows(Starter), queueJobAttempt(Starter)
    PROVE  OwnFrame(Starter)
<1>1. ThreadsInv /\ Starter \in Threads /\ th[Starter] \in Frames
    BY DEF ResultInv, TimelyInv, SystemInv, ThreadsInv, Threads
<1>2. PICK f : f = th'[Starter]
    OBVIOUS
<1>3. SUFFICES ResultFrame(Starter, f)'
    BY <1>2 DEF OwnFrame
<1>4. th[Starter].pc \in QueuePlaces /\ run' = run
    BY DEF queueJobAttempt, queueJobAttempt_Skip, TransitionJobState, TransitionJobAttemptState,
           EnqueueJobAttempt, At, QueuePlaces, storeVars
<1>5. CASE Fails(Starter)
    <2>1. \A place : Finish(Starter, place) => th'[Starter].pc = place
        BY <1>1, FrameAfter
    <2>2. f.pc \in {"idle", "done"}
        BY <1>1, <1>2, <1>5, <2>1, ThreadKinds DEF Fails
    <2>3. Starter \notin Mains \union Ticks /\ Starter # Canceler
        BY ThreadKinds
    <2>4. f.pc = "done"
        BY <1>2, <1>5, <2>1, <2>3 DEF Fails
    <2> QED
        BY <2>4, StartedFrame DEF StartingPlaces, EarlyPlaces, QueuePlaces, VerdictPlaces
<1>6. ASSUME NEW place \in {"queueAttempt", "enqueue"}, Goto(Starter, place) PROVE ResultFrame(Starter, f)'
    <2>1. f = [th[Starter] EXCEPT !.pc = place]
        BY <1>1, <1>2, <1>6 DEF Goto, ThreadsInv
    <2>2. f.pc = place /\ f.job = th[Starter].job /\ f.todo = th[Starter].todo
        BY <1>1, <2>1 DEF Frames
    <2> QED
        BY <1>4, <2>2, QueueingFrame
<1>7. CASE At(Starter, "enqueue") /\ GotoWith(Starter, QueueLoop(Starter))
    <2>1. f = NextJob(Starter, "queueJob", "startQueued")
        BY <1>1, <1>2, <1>7, FrameAfter DEF QueueLoop
    <2>2. CASE th[Starter].todo = {}
        <3>1. f.pc = "startQueued"
            BY <2>1, <2>2 DEF NextJob, NewFrame
        <3> QED
            BY <1>4, <3>1, QueueingFrame
    <2>3. CASE th[Starter].todo # {}
        <3>1. PICK j : j = FirstOf(th[Starter].todo)
            OBVIOUS
        <3>2. j \in th[Starter].todo
            BY <1>1, <2>3, <3>1, FirstOfRange DEF Frames
        <3>3. f = [th[Starter] EXCEPT !.pc = "queueJob", !.job = j, !.todo = @ \ {j}]
            BY <2>1, <2>3, <3>1 DEF NextJob
        <3>4. f.pc = "queueJob" /\ f.job = j /\ f.todo = th[Starter].todo \ {j}
            BY <1>1, <3>3 DEF Frames
        <3> QED
            BY <1>4, <1>7, <3>2, <3>4, QueueingFrame DEF At
    <2> QED
        BY <2>2, <2>3
<1> QED
    BY <1>5, <1>6, <1>7 DEF queueJobAttempt, queueJobAttempt_Skip

\* startRun, at any place.
LEMMA StartFrame ==
    ASSUME ResultInv, [StoreNext]_storeVars, MovesRows(Starter), startRun
    PROVE  OwnFrame(Starter)
<1>1. ThreadsInv /\ Starter \in Threads /\ th[Starter] \in Frames /\ StarterOK(th[Starter])
    BY DEF ResultInv, TimelyInv, SystemInv, ThreadsInv, Threads, ResultFrame
<1>2. PICK f : f = th'[Starter]
    OBVIOUS
<1>3. SUFFICES ASSUME ~queueJobAttempt(Starter) PROVE ResultFrame(Starter, f)'
    BY <1>2, RootFrame DEF OwnFrame
<1>4. ASSUME NEW place, Goto(Starter, place) PROVE f.pc = place
    BY <1>1, <1>2, <1>4, FrameAfter
<1>5. ASSUME Fails(Starter) \/ Returns(Starter) PROVE ResultFrame(Starter, f)'
    <2>1. \A place : Finish(Starter, place) => th'[Starter].pc = place
        BY <1>1, FrameAfter
    <2>2. Starter \notin Mains \union Ticks /\ Starter # Canceler
        BY ThreadKinds
    <2>3. f.pc = "done"
        BY <1>2, <1>5, <2>1, <2>2 DEF Fails, Returns
    <2> QED
        BY <2>3, StartedFrame DEF StartingPlaces, EarlyPlaces, QueuePlaces, VerdictPlaces
<1>6. th[Starter].pc \in EarlyPlaces => run \in Unstarted
    BY <1>1 DEF StarterOK, StartingPlaces
<1>7. ASSUME f.pc \in EarlyPlaces, th[Starter].pc \in EarlyPlaces,
             run' = run \/ run' \in {"CREATED", "PLANNING", "PLAN_FAILED"}
      PROVE  ResultFrame(Starter, f)'
    <2>1. run' \in Unstarted
        BY <1>6, <1>7 DEF Unstarted
    <2> QED
        BY <1>7, <2>1, EarlyFrame
<1>8. ASSUME Goto(Starter, "startReport") PROVE ResultFrame(Starter, f)'
    <2>1. f.pc = "startReport"
        BY <1>4, <1>8
    <2> QED
        BY <2>1, StartedFrame DEF StartingPlaces, EarlyPlaces, QueuePlaces, VerdictPlaces
<1>9. CASE startRun_Create \/ startRun_Planning
    <2>1. CASE Fails(Starter)
        BY <1>5, <2>1
    <2>2. CASE ~Fails(Starter)
        <3>1. f.pc \in EarlyPlaces
            BY <1>4, <1>9, <2>2 DEF startRun_Create, startRun_Planning, TryRun, EarlyPlaces
        <3>2. th[Starter].pc \in EarlyPlaces /\ run' \in {"CREATED", "PLANNING"}
            BY <1>9, <2>2 DEF startRun_Create, startRun_Planning, TryRun, TransitionRunState, CreateRun, At, EarlyPlaces
        <3> QED
            BY <1>7, <3>1, <3>2
    <2> QED
        BY <2>1, <2>2
<1>10. CASE startRun_Plan
    <2>1. \A s : [NewFrame EXCEPT !.pc = "startJobs", !.todo = s].pc = "startJobs"
        BY DEF NewFrame
    <2>2. f.pc \in {"startJobs", "failRunPlan"}
        BY <1>1, <1>2, <1>4, <1>10, <2>1, FrameAfter DEF startRun_Plan
    <2>3. th[Starter].pc = "startPlan" /\ run' = run
        BY <1>10 DEF startRun_Plan, At, storeVars
    <2> QED
        BY <1>7, <2>2, <2>3 DEF EarlyPlaces
<1>11. CASE failRun
    <2>1. CASE At(Starter, "failRunPlan")
        <3>1. Goto(Starter, "failRun")
            BY <1>11, <2>1 DEF failRun, At
        <3>2. run' = run \/ run' = "PLAN_FAILED"
            BY <1>11, <2>1 DEF failRun, At, TransitionRunState, storeVars
        <3> QED
            BY <1>4, <1>7, <2>1, <3>1, <3>2 DEF EarlyPlaces, At
    <2>2. CASE ~At(Starter, "failRunPlan")
        BY <1>8, <1>11, <2>2 DEF failRun
    <2> QED
        BY <2>1, <2>2
<1>12. CASE startRun_Jobs
    <2>1. th[Starter].pc = "startJobs" /\ run' = run
        BY <1>12 DEF startRun_Jobs, At, CreateJob, CreateJobAttempt, storeVars
    <2>2. f.pc \in {"startJobs", "startDeps"}
        <3>1. ASSUME NEW j, GotoWith(Starter, [th[Starter] EXCEPT !.todo = @ \ {j}]) PROVE f.pc = "startJobs"
            <4>1. [th[Starter] EXCEPT !.todo = @ \ {j}].pc = "startJobs"
                BY <1>1, <2>1 DEF Frames
            <4> QED
                BY <1>1, <1>2, <3>1, <4>1, FrameAfter
        <3>2. th' = th => f.pc = "startJobs"
            BY <1>2, <2>1
        <3> QED
            BY <1>4, <1>12, <3>1, <3>2 DEF startRun_Jobs
    <2> QED
        BY <1>7, <2>1, <2>2 DEF EarlyPlaces
<1>13. CASE startRun_Dependencies
    <2>1. th[Starter].pc = "startDeps" /\ run' = run
        BY <1>13 DEF startRun_Dependencies, At, RecordJobDependency, storeVars
    <2>2. CASE th' = th
        BY <1>2, <1>7, <2>1, <2>2 DEF EarlyPlaces
    <2>3. CASE Roots = {} /\ GotoWith(Starter, [NewFrame EXCEPT !.pc = "startQueued"])
        <3>1. f.pc = "startQueued"
            BY <1>1, <1>2, <2>3, FrameAfter DEF NewFrame
        <3> QED
            BY <2>1, <3>1, RootsFrame
    <2>4. CASE /\ Roots # {}
               /\ GotoWith(Starter, [NewFrame EXCEPT !.pc = "queueJob", !.job = FirstOf(Roots),
                                                     !.todo = Roots \ {FirstOf(Roots)}])
        <3>1. PICK j : j = FirstOf(Roots)
            OBVIOUS
        <3>2. j \in Roots
            BY <2>4, <3>1, FirstOfRange DEF Roots
        <3>3. f = [NewFrame EXCEPT !.pc = "queueJob", !.job = j, !.todo = Roots \ {j}]
            BY <1>1, <1>2, <2>4, <3>1, FrameAfter
        <3>4. f.pc = "queueJob" /\ f.job = j /\ f.todo = Roots \ {j}
            BY <3>3 DEF NewFrame
        <3> QED
            BY <2>1, <3>2, <3>4, RootsFrame
    <2> QED
        BY <1>13, <2>2, <2>3, <2>4 DEF startRun_Dependencies
<1>14. CASE startRun_Queued
    BY <1>5, <1>8, <1>14 DEF startRun_Queued, TryRun
<1>15. CASE startRun_Report
    BY <1>5, <1>15 DEF startRun_Report, reportRun
<1> QED
    BY <1>3, <1>9, <1>10, <1>11, <1>12, <1>13, <1>14, <1>15 DEF startRun

(***************************************************************************)
(* A step of a handler keeps the invariant.                                *)
(***************************************************************************)

\* The frame of the thread itself.
LEMMA HandlerFrame ==
    ASSUME ResultInv, [StoreNext]_storeVars, NEW t \in Threads, Handler(t)
    PROVE  OwnFrame(t)
<1>1. ThreadsInv /\ MovesRows(t)
    BY HandlerMoves DEF ResultInv, TimelyInv, SystemInv, ThreadsInv
<1>2. CASE t = Starter /\ startRun
    BY <1>1, <1>2, StartFrame
<1>3. CASE t = Canceler /\ CancelRun
    <2>1. t # Starter
        BY <1>3, ThreadKinds
    <2>2. CASE finalizeCancelIfReady(Canceler)
        BY <1>1, <1>3, <2>1, <2>2, VerdictFrame
    <2>3. CASE ReportVerdict(Canceler)
        BY <1>1, <1>3, <2>1, <2>3, CompleteUnwatched, UnwatchedFrame
    <2>4. CASE CancelRun_Request \/ CancelRun_Report \/ CancelRun_List \/ CancelRun_Job
        BY <1>1, <1>3, <2>1, <2>4, CancelUnwatched, UnwatchedFrame
    <2> QED
        BY <1>3, <2>2, <2>3, <2>4 DEF CancelRun
<1>4. CASE t \in Mains \union Ticks /\ (GrantSteps(t) \/ AckSteps(t) \/ HeartbeatSteps(t) \/ CancelAckSteps(t))
    <2>1. t # Starter
        BY <1>4, ThreadKinds
    <2>2. Unwatched(t)
        BY <1>1, <1>4, GrantUnwatched, AckUnwatched, HeartbeatUnwatched, CancelAckUnwatched
    <2> QED
        BY <1>1, <2>1, <2>2, UnwatchedFrame
<1>5. CASE t \in Mains /\ CompleteSteps(t)
    BY <1>1, <1>5, CompleteFrame
<1> QED
    BY <1>2, <1>3, <1>4, <1>5 DEF Handler

\* What a thread claims has not been queued.
LEMMA ClaimsUnqueued ==
    ASSUME NEW t \in Threads, NEW f, ResultFrame(t, f), NEW j \in Claims(t, f)
    PROVE  job[j] \in Unqueued
BY DEF Claims, ResultFrame, StarterOK, CompleterOK

\* A dependent has one completion that may queue it, and a root has none.
LEMMA NobodyElseQueues ==
    ASSUME NoFanIn, ResultInv, NEW t \in Mains \union {Starter}, th[t].pc = "queueJob",
           NEW u \in Threads, u # t, NEW j \in Claims(u, th[u])
    PROVE  th[t].job # j
<1>1. StoreInv /\ FrameOK(t, th[t]) /\ ResultFrame(t, th[t]) /\ ResultFrame(u, th[u]) /\ OneLoop
    BY DEF ResultInv, TimelyInv, SystemInv, Threads
<1>2. SUFFICES ASSUME th[t].job = j PROVE FALSE
    OBVIOUS
<1>3. CASE t \in Mains
    <2>1. PICK l \in Leases : l = LeaseOf(t) /\ t = Main(l)
        BY <1>3, ThreadKinds
    <2>2. leaseJob[l] \in DependsOn[j] /\ j \in Jobs /\ leaseJob[l] \in Jobs /\ job[leaseJob[l]] \notin Unqueued
        <3>1. leaseState[l] # Absent
            BY <1>1, <1>3, <2>1 DEF FrameOK, WorkerPlaces
        <3> QED
            BY <1>1, <1>2, <1>3, <2>1, <3>1
               DEF ResultFrame, CompleterOK, QueuePlaces, Claims, StoreInv, GrantedOnQueued
    <2>3. CASE u = Starter
        <3>1. StarterOK(th[u]) /\ u \notin Mains
            BY <1>1, <2>3, ThreadKinds DEF ResultFrame
        <3>2. th[u].pc \notin EarlyPlaces
            BY <2>2, <3>1 DEF StarterOK
        <3>3. j \in Roots
            BY <3>1, <3>2 DEF Claims, StarterOK, QueuePlaces
        <3> QED
            BY <2>2, <3>3 DEF Roots
    <2>4. CASE u \in Mains
        <3>1. PICK m \in Leases : m = LeaseOf(u) /\ u = Main(m)
            BY <2>4, ThreadKinds
        <3>2. th[u].pc \in {"depAttempt", "queueJob"} /\ th[u].job = j
            BY <2>4, ThreadKinds DEF Claims
        <3>3. leaseJob[m] \in DependsOn[j]
            BY <1>1, <2>4, <3>1, <3>2 DEF ResultFrame, CompleterOK, QueuePlaces
        <3>4. leaseJob[l] = leaseJob[m]
            BY <2>2, <3>3 DEF NoFanIn
        <3>5. l = m
            BY <1>1, <2>1, <3>1, <3>2, <3>4 DEF OneLoop, LoopPlaces, QueuePlaces
        <3> QED
            BY <2>1, <3>1, <3>5
    <2> QED
        BY <2>3, <2>4 DEF Claims
<1>4. CASE t = Starter
    <2>1. j \in Roots /\ u \in Mains
        BY <1>1, <1>2, <1>4 DEF ResultFrame, StarterOK, QueuePlaces, Claims
    <2>2. PICK m \in Leases : m = LeaseOf(u)
        BY <2>1, ThreadKinds
    <2>3. leaseJob[m] \in DependsOn[j]
        BY <1>1, <1>4, <2>1, <2>2 DEF ResultFrame, CompleterOK, QueuePlaces, Claims
    <2> QED
        BY <2>1, <2>3 DEF Roots
<1> QED
    BY <1>3, <1>4

\* A job that has FAILED, or has been CANCELED, is left alone.
LEMMA FailedStays ==
    ASSUME ResultInv, [StoreNext]_storeVars, NEW t \in Threads, MovesRows(t),
           NEW j \in Jobs, job[j] \in {"FAILED", "CANCELED"}
    PROVE  job'[j] = job[j]
<1>1. StoreInv /\ ResultFrame(t, th[t])
    BY DEF ResultInv, TimelyInv, SystemInv
<1>2. job'[j] \in {"FAILED", "QUEUED"} \/ job'[j] = job[j]
    BY <1>1, RowsMove, JobGoesOn
<1>3. job'[j] # "QUEUED"
    <2>1. t \in Mains \union {Starter} /\ th[t].pc = "queueJob" => job[th[t].job] \in Unqueued
        BY <1>1 DEF ResultFrame, StarterOK, CompleterOK
    <2> QED
        BY <2>1 DEF MovesRows, Unqueued, Absent
<1>4. job[j] = "CANCELED" => job'[j] = job[j]
    BY <1>1, RowsMove, JobGoesOn
<1> QED
    BY <1>2, <1>3, <1>4

\* Once the run is started, nothing of it becomes pending again, when no job
\* waits for another.
LEMMA NothingPendingStays ==
    ASSUME Independent, ResultInv, [StoreNext]_storeVars, run \notin Unstarted, ~CancelPending,
           \A j \in Jobs : job'[j] = "QUEUED" /\ job[j] # "QUEUED" =>
               \E t \in Mains \union {Starter} : th[t].pc = "queueJob" /\ th[t].job = j
    PROVE  ~CancelPending'
<1>1. StoreInv /\ \A j \in Jobs : job[j] # "TIMED_OUT"
    BY DEF ResultInv, TimelyInv, SystemInv
<1>2. ASSUME NEW t \in Mains \union {Starter}, th[t].pc = "queueJob", th[t].job \in Jobs PROVE FALSE
    <2>1. ResultFrame(t, th[t])
        BY DEF ResultInv, Threads
    <2>2. t # Starter
        BY <1>2, <2>1 DEF ResultFrame, StarterOK, StartingPlaces, QueuePlaces
    <2> QED
        BY <1>2, <2>1, <2>2 DEF ResultFrame, CompleterOK, QueuePlaces, Independent
<1>3. \A j \in Jobs : job[j] \notin {"QUEUED", "LEASED", "STARTING", "RUNNING", "CANCEL_REQUESTED"}
    BY DEF CancelPending
<1>4. \A from, to : /\ Abstract!JobMoves(from, to)
                   /\ to \in {"LEASED", "STARTING", "RUNNING", "CANCEL_REQUESTED"}
                   => from \in {"QUEUED", "LEASED", "STARTING", "RUNNING", "CANCEL_REQUESTED"}
    BY DEF Abstract!JobMoves, Abstract!JobStates, Abstract!validateJobTransition, Abstract!jobTransitions, Abstract!Absent
<1>5. ASSUME NEW j \in Jobs PROVE job'[j] \notin {"QUEUED", "LEASED", "STARTING", "RUNNING", "CANCEL_REQUESTED"}
    <2>1. job'[j] # "QUEUED"
        BY <1>2, <1>3
    <2> QED
        BY <1>1, <1>3, <1>4, <2>1, RowsMove
<1> QED
    BY <1>5 DEF CancelPending

\* The frames of the other threads.
LEMMA OtherFrames ==
    ASSUME NoFanIn, ResultInv, [StoreNext]_storeVars, NEW t \in Threads, MovesRows(t),
           NEW u \in Threads, u # t, NEW f, f = th[u]
    PROVE  ResultFrame(u, f)'
<1>1. /\ StoreInv /\ ResultFrame(t, th[t]) /\ ResultFrame(u, f) /\ FrameOK(u, f)
    BY DEF ResultInv, TimelyInv, SystemInv
<1>2. ASSUME NEW j \in Claims(u, f) PROVE job'[j] # "QUEUED"
    <2>1. job[j] # "QUEUED" /\ j \in Jobs
        BY <1>1, <1>2, ClaimsUnqueued DEF Unqueued, Absent, Claims
    <2>2. ~ (t \in Mains \union {Starter} /\ th[t].pc = "queueJob" /\ th[t].job = j)
        BY <1>2, NobodyElseQueues
    <2> QED
        BY <2>1, <2>2 DEF MovesRows
<1>3. \A j \in Jobs : job[j] \in {"FAILED", "CANCELED"} => job'[j] = job[j]
    BY FailedStays
<1>4. ASSUME u = Starter, f.pc \in StartingPlaces PROVE run' \in Unstarted
    <2>1. run \in Unstarted /\ run' \in Unstarted \union {"QUEUED", "FAILED"}
        BY <1>1, <1>4, RunGoesOn DEF ResultFrame, StarterOK
    <2>2. th[t].pc \notin VerdictPlaces
        BY <1>1, <2>1 DEF ResultFrame
    <2> QED
        BY <1>4, <2>1, <2>2 DEF MovesRows, Unstarted, Absent, VerdictPlaces
<1>5. ASSUME u \in Mains, f.pc # "compLease", Live(LeaseOf(u)) PROVE job'[leaseJob[LeaseOf(u)]] # "FAILED"
    <2>1. PICK l \in Leases : l = LeaseOf(u) /\ u = Main(l)
        BY <1>5, ThreadKinds
    <2>2. leaseJob[l] \in Jobs /\ attemptLease[leaseJob[l]] = l /\ job[leaseJob[l]] # "FAILED"
        BY <1>1, <1>5, <2>1 DEF ResultFrame, CompleterOK, StoreInv, LiveLeaseIsCurrent
    <2>3. ASSUME t \in Mains, th[t].pc = "compJob", JobOf(t) = leaseJob[l] PROVE FALSE
        <3>1. PICK m \in Leases : m = LeaseOf(t) /\ t = Main(m)
            BY <2>3, ThreadKinds
        <3>2. Live(m)
            BY <2>3, <3>1 DEF ResultInv, TimelyInv, HeldIsLive, HeldPlaces, AckedPlaces
        <3>3. m = l
            BY <1>1, <2>2, <2>3, <3>1, <3>2 DEF StoreInv, LiveLeaseIsCurrent, JobOf
        <3> QED
            BY <2>1, <3>1, <3>3
    <2> QED
        BY <2>1, <2>2, <2>3 DEF MovesRows
<1>6. Independent /\ run \notin Unstarted /\ ~CancelPending => ~CancelPending'
    BY NothingPendingStays DEF MovesRows
<1> QED
    BY <1>1, <1>2, <1>3, <1>4, <1>5, <1>6, ResultFrameStays

\* The loop over the dependents is entered from the end of a lease.
LEMMA LoopEntry ==
    ASSUME ThreadsInv, NEW t \in Mains, Handler(t), th'[t].pc \in LoopPlaces
    PROVE  th[t].pc \in LoopPlaces \union {"compLease"}
<1>1. t \in Threads /\ t # Starter /\ t # Canceler
    BY ThreadKinds DEF Threads
<1>2. ~Unwatched(t)
    BY DEF Unwatched, Watched
<1>3. CompleteSteps(t)
    BY <1>1, <1>2, GrantUnwatched, AckUnwatched, HeartbeatUnwatched, CancelAckUnwatched DEF Handler
<1>4. ~ (At(t, "compJob") /\ TryJob(t, JobOf(t), th[t].status, "compLease"))
    <2>1. ASSUME Goto(t, "compLease") \/ Fails(t) PROVE FALSE
        BY <1>1, <2>1, FrameAfter, ExitPlaces DEF LoopPlaces, QueuePlaces
    <2> QED
        BY <2>1 DEF TryJob
<1>5. ~ (finalizeRunIfReady(t) \/ finalizeCancelIfReady(t))
    <2>1. ~Returns(t)
        BY <1>1, ExitPlaces
    <2>2. \A place \in {"finList", "finReport", "finCancelList", "finCancelWrite"} : ~Goto(t, place)
        BY <1>1, FrameAfter DEF LoopPlaces, QueuePlaces
    <2>3. ~GotoWith(t, [th[t] EXCEPT !.pc = "finWrite", !.status = RunVerdict])
        <3>1. \A v : [th[t] EXCEPT !.pc = "finWrite", !.status = v].pc = "finWrite"
            BY <1>1 DEF ThreadsInv, Frames
        <3> QED
            BY <1>1, <3>1, FrameAfter DEF LoopPlaces, QueuePlaces
    <2> QED
        BY <2>1, <2>2, <2>3 DEF finalizeRunIfReady, finalizeCancelIfReady
<1>6. ~ (\/ CheckLease(t, "compCheck", "compReadAttempt") \/ Complete_ReadAttempt(t) \/ Complete_ReadRun(t)
         \/ Complete_Running(t) \/ Complete_Uploading(t) \/ ReportVerdict(t)
         \/ At(t, "compAttempt") /\ TryAttempt(t, JobOf(t), th[t].status, "compJob"))
    BY <1>1, <1>2, CompleteUnwatched
<1>7. Complete_Lease(t) \/ enqueueReadyDependents(t)
    BY <1>3, <1>4, <1>5, <1>6 DEF CompleteSteps, Complete_Result, transitionJobAndAttempt
<1> QED
    BY <1>7 DEF Complete_Lease, enqueueReadyDependents, queueJobAttempt, At, LoopPlaces, QueuePlaces

\* There is never a second completion to queue the dependents of a job: the
\* first one ended the last lease on it.
LEMMA OneLoopStep ==
    ASSUME ResultInv, [StoreNext]_storeVars, NEW t \in Threads, Handler(t),
           \A u \in Threads : u # t => th'[u] = th[u]
    PROVE  OneLoop'
<1>1. ThreadsInv /\ StoreInv /\ OneLoop
    BY DEF ResultInv, TimelyInv, SystemInv, ThreadsInv
<1>2. ASSUME NEW l \in Leases, th'[Main(l)].pc \in LoopPlaces
      PROVE  /\ leaseJob'[l] = leaseJob[l]
             /\ th[Main(l)].pc \in LoopPlaces \/ (t = Main(l) /\ Live(l))
    <2>1. Main(l) \in Mains /\ Main(l) \in Threads /\ LeaseOf(Main(l)) = l
        BY ThreadKinds DEF Threads
    <2>2. th[Main(l)].pc \in LoopPlaces \/ (t = Main(l) /\ th[Main(l)].pc = "compLease")
        BY <1>1, <1>2, <2>1, LoopEntry
    <2>3. th[Main(l)].pc = "compLease" => Live(l)
        BY DEF ResultInv, TimelyInv, HeldIsLive, HeldPlaces, AckedPlaces
    <2>4. leaseState[l] # Absent
        BY <2>1, <2>2 DEF ResultInv, TimelyInv, SystemInv, FrameOK, LoopPlaces, QueuePlaces, WorkerPlaces
    <2> QED
        BY <1>1, <2>2, <2>3, <2>4, GrantStays DEF StoreInv
<1>3. ASSUME NEW l \in Leases, th[Main(l)].pc \in LoopPlaces
      PROVE  \A m \in Leases : leaseJob[m] = leaseJob[l] => ~Live(m)
    <2>1. Main(l) \in Mains /\ Main(l) \in Threads /\ LeaseOf(Main(l)) = l
        BY ThreadKinds DEF Threads
    <2> QED
        BY <1>3, <2>1 DEF ResultInv, ResultFrame, CompleterOK
<1>4. \A l, m \in Leases : Main(l) = Main(m) => l = m
    BY ThreadKinds
<1> QED
    BY <1>1, <1>2, <1>3, <1>4 DEF OneLoop

\* A step of a handler.
LEMMA HandlerKeeps ==
    ASSUME ~SlowRunners, NoFanIn, ResultInv, [Next]_vars, NEW t \in Threads, Handler(t)
    PROVE  ResultInv'
<1>1. TimelyInv' /\ SystemInv' /\ [StoreNext]_storeVars
    BY TimelyStep, SystemStep DEF ResultInv, TimelyInv
<1>2. ThreadsInv /\ MovesRows(t)
    BY HandlerMoves DEF ResultInv, TimelyInv, SystemInv, ThreadsInv
<1>3. \A u \in Threads : u # t => th'[u] = th[u]
    BY <1>2, HandlerGood DEF Good, ResultInv, TimelyInv, SystemInv, ThreadsInv
<1>4. ASSUME NEW u \in Threads PROVE ResultFrame(u, th[u])'
    <2>1. PICK f : f = th'[u]
        OBVIOUS
    <2>2. ResultFrame(u, f)'
        <3>1. CASE u = t
            <4>1. OwnFrame(t)
                BY <1>1, HandlerFrame
            <4> QED
                BY <2>1, <3>1, <4>1 DEF OwnFrame
        <3>2. CASE u # t
            <4>1. f = th[u]
                BY <1>3, <2>1, <3>2
            <4> QED
                BY <1>1, <1>2, <3>2, <4>1, OtherFrames
        <3> QED
            BY <3>1, <3>2
    <2> QED
        BY <2>1, <2>2
<1>5. deps' \subseteq PlannedDeps /\ \A j \in Jobs : job'[j] # "TIMED_OUT"
    BY <1>2 DEF MovesRows, ResultInv
<1>6. OneLoop'
    BY <1>1, <1>3, OneLoopStep
<1>7. ASSUME Independent PROVE NothingPending'
    <2>1. Independent /\ run \notin Unstarted /\ ~CancelPending => ~CancelPending'
        BY <1>1, <1>2, NothingPendingStays DEF MovesRows
    <2>2. run' = "CANCELED" => run \notin Unstarted /\ ~CancelPending
        <3>1. run = "CANCELED" => run \notin Unstarted /\ ~CancelPending
            BY <1>7 DEF ResultInv, NothingPending, Unstarted, Absent
        <3>2. th[t].pc = "finCancelWrite" => run \notin Unstarted /\ ~CancelPending
            BY <1>7 DEF ResultInv, ResultFrame, VerdictPlaces
        <3> QED
            BY <1>2, <3>1, <3>2 DEF MovesRows
    <2> QED
        BY <1>7, <2>1, <2>2 DEF NothingPending
<1> QED
    BY <1>1, <1>4, <1>5, <1>6, <1>7 DEF ResultInv

\* A step of a runner leaves the rows alone, and its thread outside the places
\* the invariant speaks about.
LEMMA RowsLeftAlone ==
    ASSUME ResultInv, TimelyInv', UNCHANGED storeVars,
           NEW t \in Threads, t # Starter, th[t].pc # "compLease", th'[t].pc \notin Watched,
           \A u \in Threads : u # t => th'[u] = th[u]
    PROVE  ResultInv'
<1>1. ThreadsInv /\ StoreInv /\ [StoreNext]_storeVars
    BY DEF ResultInv, TimelyInv, SystemInv, ThreadsInv
<1>2. UNCHANGED <<run, job, attempt, leaseState, leaseJob, deps>>
    BY DEF storeVars, leaseVars
<1>3. ASSUME NEW u \in Threads PROVE ResultFrame(u, th[u])'
    <2>1. PICK f : f = th'[u]
        OBVIOUS
    <2>2. ResultFrame(u, th[u])
        BY DEF ResultInv
    <2>3. ResultFrame(u, f)'
        <3>1. CASE u = t
            <4>1. MovesRows(t)
                BY <1>1, <1>2, PlainRowsMove DEF PlainRows
            <4>2. f.pc \notin LoopPlaces \union VerdictPlaces \union {"compLease"}
                BY <2>1, <3>1 DEF Watched
            <4> QED
                BY <1>1, <1>2, <2>2, <3>1, <4>1, <4>2, PlainPlaceFrame
        <3>2. CASE u # t
            <4>1. f = th[u]
                BY <2>1, <3>2
            <4>2. ResultFrame(u, f)
                BY <2>2, <4>1
            <4> QED
                BY <1>2, <4>2 DEF ResultFrame, StarterOK, CompleterOK, Live, CancelPending
        <3> QED
            BY <3>1, <3>2
    <2> QED
        BY <2>1, <2>3
<1>4. OneLoop'
    <2>1. \A l \in Leases : Main(l) \in Threads
        BY ThreadKinds DEF Threads
    <2>2. \A l \in Leases : th'[Main(l)].pc \in LoopPlaces => th[Main(l)].pc \in LoopPlaces
        BY <2>1 DEF Watched
    <2> QED
        BY <1>2, <2>2 DEF OneLoop, ResultInv
<1>5. NothingPending => NothingPending'
    BY <1>2 DEF NothingPending, CancelPending
<1> QED
    BY <1>2, <1>3, <1>4, <1>5 DEF ResultInv

\* A command that ends, a ticker that fires, a runner that dies, a request to
\* cancel.
LEMMA RunnerKeeps ==
    ASSUME ~SlowRunners, ResultInv, [Next]_vars,
           \/ \E l \in Leases : CommandEnds(l) \/ TickerFires(l) \/ RunnerCrashes(l)
           \/ CancelRequested
    PROVE  ResultInv'
<1>1. TimelyInv' /\ ThreadsInv
    BY TimelyStep DEF ResultInv, TimelyInv, SystemInv, ThreadsInv
<1>2. {"cakCheck", "compCheck", "hbLease", "gone", "cancelRun"} \cap Watched = {}
    BY DEF Watched, LoopPlaces, QueuePlaces, VerdictPlaces
<1>3. \A l \in Leases : /\ Main(l) \in Threads /\ Tick(l) \in Threads
                        /\ Main(l) # Starter /\ Tick(l) # Starter
    BY ThreadKinds DEF Threads
<1>4. Canceler \in Threads /\ Canceler # Starter
    BY ThreadKinds DEF Threads
<1>5. ASSUME NEW l \in Leases, CommandEnds(l) PROVE ResultInv'
    <2>1. PICK f : th' = [th EXCEPT ![Main(l)] = f] /\ f.pc \in {"cakCheck", "compCheck"}
        <3>1. CASE Finish(Main(l), "cakCheck")
            BY <3>1, FinishFrame
        <3>2. ASSUME NEW s, GotoWith(Main(l), [NewFrame EXCEPT !.pc = "compCheck", !.status = s])
              PROVE  \E f : th' = [th EXCEPT ![Main(l)] = f] /\ f.pc \in {"cakCheck", "compCheck"}
            <4>1. [NewFrame EXCEPT !.pc = "compCheck", !.status = s].pc = "compCheck"
                BY DEF NewFrame
            <4> QED
                BY <3>2, <4>1 DEF GotoWith
        <3> QED
            BY <1>5, <3>1, <3>2 DEF CommandEnds
    <2>2. UNCHANGED storeVars /\ th[Main(l)].pc # "compLease"
        BY <1>5 DEF CommandEnds, At
    <2>3. th'[Main(l)].pc \notin Watched /\ \A u \in Threads : u # Main(l) => th'[u] = th[u]
        BY <1>1, <1>2, <1>3, <2>1 DEF ThreadsInv
    <2> QED
        BY <1>1, <1>3, <2>2, <2>3, RowsLeftAlone
<1>6. ASSUME NEW l \in Leases, TickerFires(l) PROVE ResultInv'
    <2>1. UNCHANGED storeVars /\ th[Tick(l)].pc # "compLease" /\ Goto(Tick(l), "hbLease")
        BY <1>6 DEF TickerFires, At
    <2>2. th'[Tick(l)].pc = "hbLease"
        BY <1>1, <1>3, <2>1, FrameAfter
    <2>3. \A u \in Threads : u # Tick(l) => th'[u] = th[u]
        BY <1>1, <2>1 DEF Goto, ThreadsInv
    <2> QED
        BY <1>1, <1>2, <1>3, <2>1, <2>2, <2>3, RowsLeftAlone
<1>7. ASSUME NEW l \in Leases, RunnerCrashes(l) PROVE ResultInv'
    <2>1. UNCHANGED storeVars /\ th[Main(l)].pc # "compLease"
        BY <1>7 DEF RunnerCrashes
    <2>2. PICK f : th' = [th EXCEPT ![Main(l)] = f] /\ f.pc = "gone"
        BY <1>7, FinishFrame DEF RunnerCrashes
    <2>3. th'[Main(l)].pc \notin Watched /\ \A u \in Threads : u # Main(l) => th'[u] = th[u]
        BY <1>1, <1>2, <1>3, <2>2 DEF ThreadsInv
    <2> QED
        BY <1>1, <1>3, <2>1, <2>3, RowsLeftAlone
<1>8. ASSUME CancelRequested PROVE ResultInv'
    <2>1. UNCHANGED storeVars /\ th[Canceler].pc # "compLease" /\ Goto(Canceler, "cancelRun")
        BY <1>8 DEF CancelRequested, CancelRun_Read, At
    <2>2. th'[Canceler].pc = "cancelRun"
        BY <1>1, <1>4, <2>1, FrameAfter
    <2>3. \A u \in Threads : u # Canceler => th'[u] = th[u]
        BY <1>1, <2>1 DEF Goto, ThreadsInv
    <2> QED
        BY <1>1, <1>2, <1>4, <2>1, <2>2, <2>3, RowsLeftAlone
<1> QED
    BY <1>5, <1>6, <1>7, <1>8

\* The sweep and the clock: a lease that expires is abandoned, so its job has no
\* result, and is queued again.
LEMMA ClockKeeps ==
    ASSUME ~SlowRunners, ResultInv, [Next]_vars,
           \/ \E l \in Leases : Sweep(l) \/ LeaseTimesOut(l)
           \/ \E j \in Jobs : VisibilityTimesOut(j)
           \/ UNCHANGED vars
    PROVE  ResultInv' /\ \A j \in Jobs : job[j] \in {"FAILED", "CANCELED"} => job'[j] = job[j]
<1>1. TimelyInv' /\ [StoreNext]_storeVars
    BY TimelyStep, SystemStep DEF ResultInv, TimelyInv
<1>2. StoreInv /\ \A u \in Threads : FrameOK(u, th[u]) /\ ResultFrame(u, th[u])
    BY DEF ResultInv, TimelyInv, SystemInv
<1>3. UNCHANGED <<run, leaseJob, deps, th>>
    BY DEF Sweep, ExpireLease, LeaseTimesOut, LeaseFallsDue, VisibilityTimesOut, VisibilityLapses,
           vars, storeVars, leaseVars
<1>4. ASSUME NEW j \in Jobs
      PROVE  job'[j] = job[j] \/ (job'[j] = "QUEUED" /\ job[j] \in RunningJobStates)
    <2>1. ASSUME NEW l \in Leases, Sweep(l), job'[j] # job[j]
          PROVE  job'[j] = "QUEUED" /\ job[j] \in RunningJobStates
        <3>1. Live(l) /\ due[l] /\ job'[j] = "QUEUED" /\ leaseJob[l] = j
            BY <1>2, <2>1 DEF Sweep, ExpireLease, StoreInv, StoreTypeOK
        <3>2. th[Main(l)].pc = "gone"
            BY <3>1 DEF ResultInv, TimelyInv, DueIsAbandoned, Abandoned, At
        <3>3. Main(l) \in Threads /\ Main(l) \in Mains /\ LeaseOf(Main(l)) = l
            BY ThreadKinds DEF Threads
        <3>4. job[j] # "FAILED"
            BY <1>2, <3>1, <3>2, <3>3 DEF ResultFrame, CompleterOK
        <3>5. job[j] \notin Unqueued
            BY <1>2, <3>1 DEF StoreInv, GrantedOnQueued, Live, LiveLeaseStates, Absent
        <3>6. Abstract!JobMoves(job[j], "QUEUED") /\ job[j] # "TIMED_OUT"
            BY <1>1, <1>2, <3>1, RowsMove DEF ResultInv
        <3> QED
            BY <2>1, <3>1, <3>4, <3>5, <3>6, SameTables
               DEF Abstract!JobMoves, Abstract!JobStates, Abstract!validateJobTransition, Abstract!jobTransitions,
                   Unqueued, Absent, Abstract!Absent, RunningJobStates
    <2>2. (\A l \in Leases : ~Sweep(l)) => job' = job
        BY DEF LeaseTimesOut, LeaseFallsDue, VisibilityTimesOut, VisibilityLapses, vars, storeVars
    <2> QED
        BY <2>1, <2>2
<1>5. ASSUME NEW u \in Threads PROVE ResultFrame(u, th[u])'
    <2>1. PICK f : f = th[u]
        OBVIOUS
    <2>2. \A j \in Claims(u, f) : job'[j] # "QUEUED"
        BY <1>2, <1>4, <2>1, ClaimsUnqueued DEF Unqueued, Absent, Claims, RunningJobStates
    <2>3. u = Starter /\ f.pc \in StartingPlaces => run' \in Unstarted
        BY <1>2, <1>3, <2>1 DEF ResultFrame, StarterOK
    <2>4. u \in Mains /\ f.pc # "compLease" /\ Live(LeaseOf(u)) => job'[leaseJob[LeaseOf(u)]] # "FAILED"
        BY <1>2, <1>4, <2>1, ThreadKinds DEF ResultFrame, CompleterOK, StoreInv, LiveLeaseIsCurrent
    <2>5. \A j \in Jobs : job[j] \in {"FAILED", "CANCELED"} => job'[j] = job[j]
        BY <1>4 DEF RunningJobStates
    <2>6. ~CancelPending => ~CancelPending'
        BY <1>4 DEF CancelPending, RunningJobStates
    <2>7. ResultFrame(u, f)'
        BY <1>1, <1>2, <2>1, <2>2, <2>3, <2>4, <2>5, <2>6, ResultFrameStays
    <2>8. f = th'[u]
        BY <1>3, <2>1
    <2> QED
        BY <2>7, <2>8
<1>6. \A j \in Jobs : job'[j] # "TIMED_OUT"
    BY <1>4 DEF ResultInv
<1>7. OneLoop'
    BY <1>3 DEF OneLoop, ResultInv
<1>8. NothingPending => NothingPending'
    BY <1>3, <1>4 DEF NothingPending, CancelPending, RunningJobStates
<1> QED
    BY <1>1, <1>3, <1>4, <1>5, <1>6, <1>7, <1>8 DEF ResultInv, RunningJobStates

(***************************************************************************)
(* The theorems about results.                                             *)
(***************************************************************************)

\* No result at the start.
LEMMA ResultInit == Init => ResultInv
<1> SUFFICES ASSUME Init PROVE ResultInv
    OBVIOUS
<1>1. \A t \in Threads : th[t].pc = "idle"
    BY DEF Init, NewFrame
<1>2. /\ run = Absent /\ deps = {} /\ \A j \in Jobs : job[j] = Absent
      /\ \A l \in Leases : leaseState[l] = Absent
    BY DEF Init, StoreInit
<1>3. \A l \in Leases : ~Live(l) /\ Main(l) \in Threads
    BY <1>2, ThreadKinds DEF Live, LiveLeaseStates, Absent, Threads
<1>4. ASSUME NEW t \in Threads PROVE ResultFrame(t, th[t])
    <2>1. StarterOK(th[t])
        BY <1>1, <1>2 DEF StarterOK, Unstarted, Unqueued, QueuePlaces
    <2>2. t \in Mains => CompleterOK(LeaseOf(t), th[t])
        BY <1>1, <1>3, ThreadKinds DEF CompleterOK, LoopPlaces, QueuePlaces
    <2> QED
        BY <1>1, <2>1, <2>2 DEF ResultFrame, VerdictPlaces
<1>5. OneLoop
    BY <1>1, <1>3 DEF OneLoop, LoopPlaces, QueuePlaces
<1>6. (\A j \in Jobs : job[j] # "TIMED_OUT") /\ NothingPending
    BY <1>2 DEF Absent, NothingPending
<1> QED
    BY <1>2, <1>4, <1>5, <1>6, TimelyInit DEF ResultInv

\* The steps of the system, when no request is cut short: a handler's, one that
\* leaves the rows alone, or one of the sweep and the clock.
LEMMA NextKinds ==
    ASSUME MaxAborts = 0, ResultInv, [Next]_vars
    PROVE  \/ \E t \in Threads : Handler(t)
           \/ /\ \/ \E l \in Leases : CommandEnds(l) \/ TickerFires(l) \/ RunnerCrashes(l)
                 \/ CancelRequested
              /\ UNCHANGED storeVars
           \/ \/ \E l \in Leases : Sweep(l) \/ LeaseTimesOut(l)
              \/ \E j \in Jobs : VisibilityTimesOut(j)
              \/ UNCHANGED vars
<1>1. \A t \in Threads : ~RequestAborts(t)
    BY DEF RequestAborts, ResultInv, TimelyInv, SystemInv
<1> QED
    BY <1>1 DEF Next, CommandEnds, TickerFires, RunnerCrashes, CancelRequested, CancelRun_Read

\* Every step keeps it.
LEMMA ResultStep ==
    ASSUME ~SlowRunners, MaxAborts = 0, NoFanIn, ResultInv, [Next]_vars
    PROVE  ResultInv'
BY NextKinds, HandlerKeeps, RunnerKeeps, ClockKeeps

\* While runners are timely, no request is cut short and no job waits for two
\* others, what is decided about a job or a run has been established and stays.
THEOREM ResultInvariant ==
    ASSUME ~SlowRunners, MaxAborts = 0, NoFanIn
    PROVE  Spec => []ResultInv
<1>1. Init => ResultInv
    BY ResultInit
<1>2. ResultInv /\ [Next]_vars => ResultInv'
    BY ResultStep
<1> QED
    BY <1>1, <1>2, PTL DEF Spec

\* A job that has its result keeps it: no sweep and no late queueing takes a
\* FAILED job back, although the table of the jobs allows it.
THEOREM FinalStateIsAlwaysKept ==
    ASSUME ~SlowRunners, MaxAborts = 0, NoFanIn
    PROVE  Spec => FinalStateIsKept
<1>1. ASSUME ResultInv, [Next]_vars, NEW j \in Jobs, job[j] \in {"SUCCEEDED", "FAILED", "CANCELED"}
      PROVE  job'[j] = job[j]
    <2>1. StoreInv /\ ThreadsInv /\ [StoreNext]_storeVars
        BY <1>1, SystemStep DEF ResultInv, TimelyInv, SystemInv, ThreadsInv
    <2>2. job[j] = "SUCCEEDED" => job'[j] = job[j]
        BY <2>1, RowsMove, JobGoesOn
    <2>3. ASSUME NEW t \in Threads, Handler(t), job[j] \in {"FAILED", "CANCELED"} PROVE job'[j] = job[j]
        BY <1>1, <2>1, <2>3, HandlerMoves, FailedStays
    <2>4. UNCHANGED storeVars => job'[j] = job[j]
        BY DEF storeVars
    <2> QED
        BY <1>1, <2>2, <2>3, <2>4, NextKinds, ClockKeeps
<1>2. ResultInv /\ [Next]_vars =>
          [\A j \in Jobs : job[j] \in {"SUCCEEDED", "FAILED", "CANCELED"} => job'[j] = job[j]]_vars
    BY <1>1
<1> QED
    BY <1>2, ResultInvariant, PTL DEF Spec, FinalStateIsKept

\* A running run fails only when a required job has failed, although the verdict
\* is computed from a list that was read in an earlier transaction.
THEOREM FailureIsAlwaysHonest ==
    ASSUME ~SlowRunners, MaxAborts = 0, NoFanIn
    PROVE  Spec => FailureIsHonest
<1>1. ASSUME ResultInv, [Next]_vars, run = "RUNNING", run' = "FAILED"
      PROVE  \E j \in Required : job[j] \in {"FAILED", "TIMED_OUT", "CANCELED"}
    <2>1. ThreadsInv
        BY <1>1 DEF ResultInv, TimelyInv, SystemInv, ThreadsInv
    <2>2. PICK t \in Threads : Handler(t)
        <3>1. run' = run \/ \E t \in Threads : Handler(t)
            BY <1>1, NextKinds DEF Sweep, ExpireLease, LeaseTimesOut, LeaseFallsDue, VisibilityTimesOut,
                   VisibilityLapses, vars, storeVars
        <3> QED
            BY <1>1, <3>1
    <2>3. MovesRows(t) /\ ResultFrame(t, th[t])
        BY <1>1, <2>1, <2>2, HandlerMoves DEF ResultInv
    <2>4. ~ (t = Starter /\ th[t].pc = "failRun")
        BY <1>1, <2>3 DEF ResultFrame, StarterOK, StartingPlaces, EarlyPlaces, Unstarted, Absent
    <2>5. th[t].pc = "finWrite" /\ th[t].status = "FAILED"
        BY <1>1, <2>3, <2>4 DEF MovesRows
    <2> QED
        BY <2>3, <2>5 DEF ResultFrame
<1>2. ResultInv /\ [Next]_vars =>
          [run = "RUNNING" /\ run' = "FAILED" =>
              \E j \in Required : job[j] \in {"FAILED", "TIMED_OUT", "CANCELED"}]_vars
    BY <1>1
<1> QED
    BY <1>2, ResultInvariant, PTL DEF Spec, FailureIsHonest

\* A plan without dependencies has no fan-in.
LEMMA IndependentPlan == Independent => NoFanIn
BY DEF Independent, NoFanIn

\* Nothing of a canceled run is left to queue, lease or acknowledge, and nothing
\* comes back, when no job waits for another.
THEOREM NothingStaysPending ==
    ASSUME ~SlowRunners, MaxAborts = 0, Independent
    PROVE  Spec => []NothingPending
<1>1. ResultInv => NothingPending
    BY DEF ResultInv
<1> QED
    BY <1>1, ResultInvariant, IndependentPlan, PTL

\* No attempt of a canceled run is handed to a runner, not even by a worker that
\* had checked the run before.
THEOREM NothingIsGrantedAfterCanceled ==
    ASSUME ~SlowRunners, MaxAborts = 0, Independent
    PROVE  Spec => NoGrantAfterCanceled
<1>1. ASSUME ResultInv, [Next]_vars, run = "CANCELED", NEW l \in Leases, leaseState[l] = Absent
      PROVE  leaseState'[l] = Absent
    <2>1. StoreInv /\ [StoreNext]_storeVars /\ NothingPending
        BY <1>1, IndependentPlan, SystemStep DEF ResultInv, TimelyInv, SystemInv
    <2>2. ASSUME NEW j \in Jobs, GrantLease(l, j) PROVE FALSE
        BY <1>1, <2>1, <2>2
           DEF GrantLease, CanGrantLease, validateJobTransition, jobTransitions, JobStates, NothingPending, CancelPending
    <2> QED
        BY <1>1, <2>1, <2>2, NewLease
<1>2. ResultInv /\ [Next]_vars =>
          [run = "CANCELED" => \A l \in Leases : leaseState[l] = Absent => leaseState'[l] = Absent]_vars
    BY <1>1
<1> QED
    BY <1>2, ResultInvariant, IndependentPlan, PTL DEF Spec, NoGrantAfterCanceled
=============================================================================
