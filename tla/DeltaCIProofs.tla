--------------------------- MODULE DeltaCIProofs ---------------------------
(***************************************************************************)
(* Theorems about the composed system, for any plan, any lease ids, any    *)
(* number of cancellations, crashes and aborted requests, and for runners  *)
(* as slow as they like.                                                   *)
(***************************************************************************)
EXTENDS DeltaCI, StoreProofs, WellFoundedInduction

(***************************************************************************)
(* The first job of a set in plan order.                                   *)
(***************************************************************************)

\* A set of naturals that is not empty has a least element.
LEMMA LeastIndex ==
    ASSUME NEW T, T \subseteq Nat, T # {}
    PROVE  \E i \in T : \A k \in T : ~ (k < i)
<1> DEFINE Less == OpToRel(<, Nat)
<1>1. IsWellFoundedOn(Less, Nat)
    BY NatLessThanWellFounded
<1>2. PICK i \in T : \A k \in T : ~ (<<k, i>> \in Less)
    <2> HIDE DEF Less
    <2> QED
        BY <1>1, WFMin
<1>3. \A k \in T : k < i => <<k, i>> \in Less
    BY DEF OpToRel
<1> QED
    BY <1>2, <1>3

\* The loops of startRun and CancelRun take their next job from the jobs that
\* are left: FirstOf returns a member of the set it is given.
LEMMA FirstOfRange ==
    ASSUME NEW S, S \subseteq Jobs, S # {}
    PROVE  FirstOf(S) \in S
<1> DEFINE T == {i \in 1 .. Len(Order) : Order[i] \in S}
<1>1. T # {} /\ T \subseteq Nat
    BY PlanAssumption
<1>2. PICK i \in T : \A k \in T : ~ (k < i)
    BY <1>1, LeastIndex
<1>3. \A k \in 1 .. i - 1 : Order[k] \notin S
    BY <1>2
<1> QED
    BY <1>2, <1>3 DEF FirstOf

(***************************************************************************)
(* What no transaction takes back.                                         *)
(***************************************************************************)

\* The states of a row that has not been queued yet.
Unqueued == {Absent, "CREATED"}

\* A granted lease is on an attempt that has been queued, as has its job.
GrantedOnQueued ==
    \A l \in Leases : leaseState[l] # Absent =>
        /\ leaseJob[l] \in Jobs
        /\ job[leaseJob[l]] \notin Unqueued
        /\ attempt[leaseJob[l]] \notin Unqueued

\* What the store keeps by itself, whatever its callers do.
StoreInv == StoreTypeOK /\ LiveLeaseIsCurrent /\ GrantedOnQueued

\* A legal move of a row leaves a final state alone, and never leads back to
\* before the row was queued.
LEMMA RowStays ==
    ASSUME NEW from, NEW to, Abstract!JobMoves(from, to)
    PROVE  /\ from \in {"SUCCEEDED", "CANCELED"} => to = from
           /\ from \notin Unqueued => to \notin Unqueued
BY SameTables DEF Abstract!JobMoves, Unqueued, Absent, Abstract!Absent, Abstract!JobStates,
       Abstract!validateJobTransition, Abstract!jobTransitions

\* A lease that was granted stays granted, on the same attempt.
LEMMA GrantStays ==
    ASSUME StoreTypeOK, [StoreNext]_storeVars, NEW l \in Leases, leaseState[l] # Absent
    PROVE  leaseState'[l] # Absent /\ leaseJob'[l] = leaseJob[l]
<1>1. leaseState'[l] # Absent
    BY LeaseRefines, SameTables
       DEF Abstract!LeaseMoves, Abstract!validateLeaseTransition, Abstract!leaseTransitions,
           Abstract!LeaseStates, Abstract!Absent, Absent, StoreTypeOK
<1>2. leaseJob' = leaseJob \/ \E m \in Leases, j \in Jobs : GrantLease(m, j)
    <2>1. ASSUME NEW i \in Jobs, JobNext(i) PROVE leaseJob' = leaseJob
        BY <2>1 DEF JobNext, CreateJob, CreateJobAttempt, RecordJobDependency, TransitionJobState,
                    TransitionJobAttemptState, EnqueueJobAttempt, DequeueJobAttempt,
                    AckJobAttemptDispatch, VisibilityLapses, leaseVars
    <2>2. ASSUME NEW m \in Leases, LeaseNext(m) PROVE leaseJob' = leaseJob \/ \E i \in Jobs : GrantLease(m, i)
        BY <2>2 DEF LeaseNext, AcknowledgeLease, TouchLeaseHeartbeat, RenewLease, CompleteLease,
                    TransitionLeaseState, ExpireLease, LeaseFallsDue
    <2> QED
        BY <2>1, <2>2 DEF StoreNext, RunNext, CreateRun, TransitionRunState, PurgeQueue, storeVars, leaseVars
<1>3. ASSUME NEW m \in Leases, NEW j \in Jobs, GrantLease(m, j) PROVE leaseJob'[l] = leaseJob[l]
    BY <1>3 DEF GrantLease, StoreTypeOK
<1> QED
    BY <1>1, <1>2, <1>3

\* No transaction moves a row to or from a state the tables do not allow.
LEMMA RowsMove ==
    ASSUME StoreInv, [StoreNext]_storeVars, NEW j \in Jobs
    PROVE  Abstract!JobMoves(job[j], job'[j]) /\ Abstract!JobMoves(attempt[j], attempt'[j])
BY JobRefines DEF StoreInv

\* The recorded dependencies only grow.
LEMMA DependenciesGrow == [StoreNext]_storeVars => deps \subseteq deps'
<1> SUFFICES ASSUME [StoreNext]_storeVars PROVE deps \subseteq deps'
    OBVIOUS
<1>1. ASSUME NEW i \in Jobs, JobNext(i) PROVE deps \subseteq deps'
    BY <1>1 DEF JobNext, CreateJob, CreateJobAttempt, RecordJobDependency, TransitionJobState,
                TransitionJobAttemptState, EnqueueJobAttempt, DequeueJobAttempt,
                AckJobAttemptDispatch, VisibilityLapses
<1>2. ASSUME NEW l \in Leases, LeaseNext(l) PROVE deps' = deps
    BY <1>2 DEF LeaseNext, GrantLease, AcknowledgeLease, TouchLeaseHeartbeat, RenewLease, CompleteLease,
                TransitionLeaseState, ExpireLease, LeaseFallsDue
<1> QED
    BY <1>1, <1>2 DEF StoreNext, RunNext, CreateRun, TransitionRunState, PurgeQueue, storeVars

\* A grant is the only transaction that makes a lease row.
LEMMA StoreInvStep == StoreInv /\ [StoreNext]_storeVars => StoreInv'
<1> SUFFICES ASSUME StoreInv, [StoreNext]_storeVars PROVE GrantedOnQueued'
    BY TypeStep, CurrentStep DEF StoreInv
<1>1. ASSUME NEW l \in Leases, leaseState[l] # Absent
      PROVE  /\ leaseJob'[l] \in Jobs
             /\ job'[leaseJob'[l]] \notin Unqueued
             /\ attempt'[leaseJob'[l]] \notin Unqueued
    BY <1>1, GrantStays, RowsMove, RowStays DEF StoreInv, GrantedOnQueued
<1>2. ASSUME NEW l \in Leases, leaseState[l] = Absent, leaseState'[l] # Absent
      PROVE  \E j \in Jobs : GrantLease(l, j)
    <2>1. ~UNCHANGED <<attemptLease, leaseState>>
        BY <1>2
    <2>2. ~ \E m \in Leases, to \in LeaseStates :
               /\ validateLeaseTransition(leaseState[m], to)
               /\ leaseState' = [leaseState EXCEPT ![m] = to]
               /\ attemptLease' = attemptLease
        BY <1>2 DEF validateLeaseTransition, LeaseStates, Absent, StoreInv, StoreTypeOK
    <2>3. PICK m \in Leases, j \in Jobs : GrantLease(m, j)
        BY <2>1, <2>2, LeaseStep DEF StoreInv
    <2> QED
        BY <1>2, <2>3 DEF GrantLease, StoreInv, StoreTypeOK
<1>3. ASSUME NEW l \in Leases, NEW j \in Jobs, GrantLease(l, j)
      PROVE  /\ leaseJob'[l] = j
             /\ job'[j] \notin Unqueued
             /\ attempt'[j] \notin Unqueued
    BY <1>3 DEF GrantLease, StoreInv, StoreTypeOK, Unqueued, Absent
<1> QED
    BY <1>1, <1>2, <1>3 DEF GrantedOnQueued

(***************************************************************************)
(* The inductive invariant.  None of the safety properties of the system   *)
(* is inductive by itself: each relates rows that a handler writes one by  *)
(* one, and between two writes it is the handler's frame that says what    *)
(* has been established.  FrameOK says it for a thread t with frame f:     *)
(*                                                                         *)
(*   - a handler that works on a job, or for a lease, has one;             *)
(*   - a job about to be queued has its dependencies recorded and          *)
(*     SUCCEEDED, as read by an earlier step (enqueueReadyDependents), or  *)
(*     has none (startRun);                                                *)
(*   - a job about to be given its result has an attempt that already has  *)
(*     it (transitionJobAndAttempt);                                       *)
(*   - a run about to become SUCCESS has only SUCCEEDED required jobs, as  *)
(*     read by an earlier step (finalizeRunIfReady).                       *)
(*                                                                         *)
(* Each of these can only become true of other threads' frames, never      *)
(* false, since no transaction takes back what they rest on.               *)
(***************************************************************************)
QueuePlaces  == {"depAttempt", "queueJob", "queueAttempt", "enqueue"}

CancelPlaces == {"cancelAttempt", "cancelJob", "cancelQueued", "canceledAttempt", "canceledJob", "cancelNext"}

JobPlaces == QueuePlaces \union CancelPlaces \union {"grantRead", "grant", "grantDispatched"}

\* Where a worker has no lease yet.
WorkerPlaces == {"idle", "dequeue", "grantRead", "grant"}

\* The plan is recorded, and everything that j waits for has SUCCEEDED.
Ready(j) == PlannedDeps \subseteq deps /\ \A d \in DependsOn[j] : job[d] = "SUCCEEDED"

FrameOK(t, f) ==
    /\ f \in Frames
    /\ f.pc \in JobPlaces => f.job \in Jobs
    /\ \/ t \in Mains /\ f.pc \notin WorkerPlaces
       \/ t \in Ticks /\ f.pc # "idle"
       => leaseState[LeaseOf(t)] # Absent
    /\ f.pc \in QueuePlaces => Ready(f.job)
    /\ t = Starter /\ f.pc \in QueuePlaces => f.todo \subseteq Roots
    /\ t \in Mains /\ f.pc = "compJob" /\ f.status = "SUCCEEDED" => attempt[JobOf(t)] = "SUCCEEDED"
    /\ t \in Mains /\ f.pc = "cakJob" => attempt[JobOf(t)] = "CANCELED"
    /\ f.pc = "canceledJob" => attempt[f.job] = "CANCELED"
    /\ f.pc = "finWrite" /\ f.status = "SUCCESS" => \A j \in Required : job[j] = "SUCCEEDED"

\* A job that has been queued, or whose attempt has, was ready.
QueuedWasReady ==
    \A j \in Jobs : job[j] \notin Unqueued \/ attempt[j] \notin Unqueued => Ready(j)

RowsOK == QueuedWasReady /\ SettledResultsAgree /\ SuccessIsHonest

SystemInv ==
    /\ StoreInv
    /\ RowsOK
    /\ \A t \in Threads : FrameOK(t, th[t])
    /\ th \in [Threads -> Frames]
    /\ sig \in [Leases -> BOOLEAN]
    /\ cancels \in 0 .. MaxCancels /\ crashes \in 0 .. MaxCrashes /\ aborts \in 0 .. MaxAborts

(***************************************************************************)
(* What holds of a frame, and of the rows, keeps holding.                  *)
(***************************************************************************)

\* A job that is ready stays ready: its dependencies stay recorded and stay
\* SUCCEEDED.
LEMMA ReadyStays ==
    ASSUME StoreInv, [StoreNext]_storeVars, NEW j \in Jobs, Ready(j)
    PROVE  Ready(j)'
BY DependenciesGrow, SucceededIsKept, PlanAssumption DEF Ready, StoreInv, PlannedDeps

\* The threads: a worker or runner and its heartbeat goroutine work for a lease.
LEMMA ThreadKinds ==
    /\ \A l \in Leases : /\ Main(l) \in Mains /\ LeaseOf(Main(l)) = l
                         /\ Tick(l) \in Ticks /\ LeaseOf(Tick(l)) = l
    /\ \A t \in Mains \union Ticks : LeaseOf(t) \in Leases /\ t \notin {Starter, Canceler}
    /\ \A t \in Mains : t \notin Ticks /\ t = Main(LeaseOf(t))
    /\ \A t \in Ticks : t = Tick(LeaseOf(t))
    /\ Starter # Canceler
BY NoLeaseAssumption DEF Mains, Ticks, Main, Tick, LeaseOf, Starter, Canceler

\* What has been established for a thread is not undone by any transaction.
LEMMA FrameStays ==
    ASSUME StoreInv, [StoreNext]_storeVars, NEW t \in Threads, NEW f, FrameOK(t, f)
    PROVE  FrameOK(t, f)'
<1>1. f \in Frames /\ (f.pc \in JobPlaces => f.job \in Jobs)
    BY DEF FrameOK
<1>2. ASSUME leaseState[LeaseOf(t)] # Absent, t \in Mains \union Ticks
      PROVE  leaseState'[LeaseOf(t)] # Absent
    BY <1>2, ThreadKinds, GrantStays DEF StoreInv
<1>3. f.pc \in QueuePlaces => Ready(f.job)'
    BY <1>1, ReadyStays DEF FrameOK, JobPlaces
<1>4. ASSUME t \in Mains, f.pc \in {"compJob", "cakJob"}, NEW s \in {"SUCCEEDED", "CANCELED"},
             attempt[JobOf(t)] = s
      PROVE  attempt'[JobOf(t)'] = s
    <2>1. LeaseOf(t) \in Leases /\ leaseState[LeaseOf(t)] # Absent
        BY <1>4, ThreadKinds DEF FrameOK, WorkerPlaces
    <2>2. JobOf(t) \in Jobs /\ JobOf(t)' = JobOf(t)
        BY <2>1, GrantStays DEF StoreInv, GrantedOnQueued, JobOf
    <2> QED
        BY <1>4, <2>2, RowsMove, RowStays
<1>5. f.pc = "canceledJob" => attempt'[f.job] = "CANCELED"
    BY <1>1, RowsMove, RowStays DEF FrameOK, JobPlaces, CancelPlaces
<1>6. f.pc = "finWrite" /\ f.status = "SUCCESS" => \A j \in Required : job'[j] = "SUCCEEDED"
    BY SucceededIsKept, PlanAssumption DEF FrameOK, StoreInv
<1> QED
    BY <1>1, <1>2, <1>3, <1>4, <1>5, <1>6 DEF FrameOK

\* The rows stay in order when a job or an attempt is queued only if it is
\* ready, a job is given a result only if its attempt has it, and the run is
\* given SUCCESS only if every required job has SUCCEEDED.
LEMMA RowsStep ==
    ASSUME StoreInv, RowsOK, [StoreNext]_storeVars,
           \A j \in Jobs : \/ job[j] \in Unqueued /\ job'[j] \notin Unqueued
                           \/ attempt[j] \in Unqueued /\ attempt'[j] \notin Unqueued
                           => Ready(j),
           \A j \in Jobs : job'[j] # job[j] /\ job'[j] \in {"SUCCEEDED", "CANCELED"} => attempt'[j] = job'[j],
           run # "SUCCESS" /\ run' = "SUCCESS" => \A j \in Required : job[j] = "SUCCEEDED"
    PROVE  RowsOK'
<1>1. QueuedWasReady'
    <2>1. ASSUME NEW j \in Jobs, job'[j] \notin Unqueued \/ attempt'[j] \notin Unqueued PROVE Ready(j)
        BY <2>1 DEF RowsOK, QueuedWasReady
    <2> QED
        BY <2>1, ReadyStays DEF QueuedWasReady
<1>2. SettledResultsAgree'
    BY RowsMove, RowStays DEF SettledResultsAgree, RowsOK
<1>3. SuccessIsHonest'
    BY SucceededIsKept, PlanAssumption DEF SuccessIsHonest, RowsOK, StoreInv
<1> QED
    BY <1>1, <1>2, <1>3 DEF RowsOK

(***************************************************************************)
(* The ways a handler takes a step.  Good(t) says what every step of       *)
(* thread t achieves: it is one transaction of the store, or none, keeps   *)
(* the rows in order, and leaves t with a frame that is in order.          *)
(***************************************************************************)
ThreadsInv == StoreInv /\ RowsOK /\ th \in [Threads -> Frames] /\ sig \in [Leases -> BOOLEAN]

Good(t) ==
    /\ [StoreNext]_storeVars
    /\ RowsOK'
    /\ sig' \in [Leases -> BOOLEAN]
    /\ \E f : FrameOK(t, f)' /\ th' = [th EXCEPT ![t] = f]

\* The places at which a frame has nothing to say about the rows.
PlainPlaces == Places \ (JobPlaces \union {"compJob", "cakJob", "finWrite"})

\* The thread has a lease, if it is one that needs one.
HasLease(t) == t \in Mains \union Ticks => leaseState[LeaseOf(t)] # Absent

\* A frame at a plain place is in order.
LEMMA PlainFrame ==
    ASSUME NEW t, NEW f \in Frames, f.pc \in PlainPlaces,
           \/ f.pc = "idle"
           \/ f.pc = "dequeue" /\ t \notin Ticks
           \/ HasLease(t)'
    PROVE  FrameOK(t, f)'
<1>1. /\ f.pc \notin JobPlaces /\ f.pc \notin QueuePlaces
      /\ f.pc \notin {"compJob", "cakJob", "finWrite", "canceledJob"}
    BY DEF PlainPlaces, JobPlaces, CancelPlaces
<1> QED
    BY <1>1 DEF FrameOK, WorkerPlaces, HasLease

\* A thread that has a lease keeps it.
LEMMA HasLeaseStays ==
    ASSUME StoreInv, [StoreNext]_storeVars, NEW t, HasLease(t)
    PROVE  HasLease(t)'
BY ThreadKinds, GrantStays DEF HasLease, StoreInv

\* The empty frame, at any place, is a frame.
LEMMA NewFrameType ==
    ASSUME NEW place \in Places
    PROVE  [NewFrame EXCEPT !.pc = place] \in Frames /\ [NewFrame EXCEPT !.pc = place].pc = place
BY DEF NewFrame, Frames, Absent

\* A step that moves no row and records no dependency keeps the rows in order.
LEMMA RowsUnread == RowsOK /\ UNCHANGED <<run, job, attempt, deps>> => RowsOK'
BY DEF RowsOK, QueuedWasReady, Ready, SettledResultsAgree, SuccessIsHonest

\* The thread goes to a plain place and its frame is reset.
LEMMA FinishGood ==
    ASSUME ThreadsInv, NEW t, UNCHANGED storeVars, sig' \in [Leases -> BOOLEAN],
           NEW place \in PlainPlaces, place = "idle" \/ HasLease(t), Finish(t, place)
    PROVE  Good(t)
<1> DEFINE f == [NewFrame EXCEPT !.pc = place]
<1>1. f \in Frames /\ f.pc = place
    BY NewFrameType DEF PlainPlaces
<1>2. FrameOK(t, f)'
    <2>1. HasLease(t) => HasLease(t)'
        BY DEF HasLease, storeVars
    <2> HIDE DEF f
    <2> QED
        BY <1>1, <2>1, PlainFrame
<1> QED
    BY <1>2, RowsUnread DEF Good, Finish, GotoWith, ThreadsInv, storeVars

\* A request that ends in an error.
LEMMA FailsGood ==
    ASSUME ThreadsInv, NEW t \in Threads, UNCHANGED storeVars, t \in Ticks => HasLease(t), Fails(t)
    PROVE  Good(t)
<1>1. sig' \in [Leases -> BOOLEAN]
    BY DEF Fails, ThreadsInv
<1>2. CASE t \in Mains
    <2>1. CASE leaseState[LeaseOf(t)] = Absent
        <3>1. Finish(t, "idle") /\ "idle" \in PlainPlaces
            BY <1>2, <2>1, ThreadKinds DEF Fails, PlainPlaces, Places, RestingPlaces, JobPlaces, QueuePlaces, CancelPlaces
        <3> QED
            BY <1>1, <3>1, FinishGood
    <2>2. CASE leaseState[LeaseOf(t)] # Absent
        <3>1. Finish(t, "gone") /\ "gone" \in PlainPlaces /\ HasLease(t)
            BY <1>2, <2>2, ThreadKinds DEF Fails, PlainPlaces, Places, RestingPlaces, JobPlaces, QueuePlaces, CancelPlaces, HasLease
        <3> QED
            BY <1>1, <3>1, FinishGood
    <2> QED
        BY <2>1, <2>2
<1>3. CASE t \in Ticks
    <2>1. Finish(t, "off") /\ "off" \in PlainPlaces
        BY <1>3, ThreadKinds DEF Fails, PlainPlaces, Places, RestingPlaces, JobPlaces, QueuePlaces, CancelPlaces
    <2> QED
        BY <1>1, <1>3, <2>1, FinishGood
<1>4. CASE t \in {Starter, Canceler}
    <2>1. \E place \in {"idle", "done"} : Finish(t, place)
        BY <1>4, ThreadKinds DEF Fails
    <2>2. {"idle", "done"} \subseteq PlainPlaces /\ HasLease(t)
        BY <1>4, ThreadKinds DEF PlainPlaces, Places, RestingPlaces, JobPlaces, QueuePlaces, CancelPlaces, HasLease
    <2> QED
        BY <1>1, <2>1, <2>2, FinishGood
<1> QED
    BY <1>2, <1>3, <1>4 DEF Threads

\* A request that returns.
LEMMA ReturnsGood ==
    ASSUME ThreadsInv, NEW t \in Threads, UNCHANGED storeVars, HasLease(t), Returns(t)
    PROVE  Good(t)
<1>1. \E place \in {"gone", "idle", "done"} : Finish(t, place)
    BY DEF Returns
<1>2. {"gone", "idle", "done"} \subseteq PlainPlaces
    BY DEF PlainPlaces, Places, RestingPlaces, JobPlaces, QueuePlaces, CancelPlaces
<1> QED
    BY <1>1, <1>2, FinishGood DEF Returns, ThreadsInv

\* A frame of the thread's, at another place.
LEMMA GotoFrame ==
    ASSUME NEW f \in Frames, NEW place \in Places
    PROVE  /\ [f EXCEPT !.pc = place] \in Frames
           /\ [f EXCEPT !.pc = place].pc = place
           /\ [f EXCEPT !.pc = place].job = f.job
           /\ [f EXCEPT !.pc = place].todo = f.todo
           /\ [f EXCEPT !.pc = place].status = f.status
BY DEF Frames

\* The thread goes on, at a plain place, after a legal step of the store.
LEMMA GotoGood ==
    ASSUME ThreadsInv, NEW t \in Threads, th[t] \in Frames, [StoreNext]_storeVars, RowsOK', sig' = sig,
           NEW place \in PlainPlaces, HasLease(t), Goto(t, place)
    PROVE  Good(t)
<1>1. PICK f : f = [th[t] EXCEPT !.pc = place]
    OBVIOUS
<1>2. f \in Frames /\ f.pc = place
    BY <1>1, GotoFrame DEF PlainPlaces
<1>3. FrameOK(t, f)'
    BY <1>2, HasLeaseStays, PlainFrame DEF ThreadsInv
<1> QED
    BY <1>1, <1>3 DEF Good, Goto, ThreadsInv

\* The thread takes up a new frame at a plain place, after a legal step of the
\* store.
LEMMA GotoWithGood ==
    ASSUME ThreadsInv, NEW t \in Threads, [StoreNext]_storeVars, RowsOK', sig' \in [Leases -> BOOLEAN],
           HasLease(t), NEW f \in Frames, f.pc \in PlainPlaces, GotoWith(t, f)
    PROVE  Good(t)
BY HasLeaseStays, PlainFrame DEF Good, GotoWith, ThreadsInv

\* The run is moved to any state but SUCCESS.
LEMMA RunWrite ==
    ASSUME ThreadsInv, NEW next, next # "SUCCESS", TransitionRunState(next)
    PROVE  [StoreNext]_storeVars /\ RowsOK'
<1>1. [StoreNext]_storeVars
    BY RunTableRange DEF TransitionRunState, StoreNext, RunNext
<1>2. run' = next /\ job' = job /\ attempt' = attempt
    BY DEF TransitionRunState
<1> QED
    BY <1>1, <1>2, RowsStep DEF ThreadsInv

\* An attempt is moved, but not to QUEUED: it had been queued before.
LEMMA AttemptWrite ==
    ASSUME ThreadsInv, NEW j \in Jobs, NEW next, next # "QUEUED", TransitionJobAttemptState(j, next)
    PROVE  [StoreNext]_storeVars /\ RowsOK' /\ attempt'[j] = next
<1>1. [StoreNext]_storeVars
    BY JobTableRange DEF TransitionJobAttemptState, StoreNext, JobNext
<1>2. run' = run /\ job' = job /\ attempt' = [attempt EXCEPT ![j] = next] /\ attempt'[j] = next
    BY DEF TransitionJobAttemptState, ThreadsInv, StoreInv, StoreTypeOK
<1>3. attempt[j] \in Unqueued => next \in Unqueued
    BY DEF TransitionJobAttemptState, validateJobTransition, jobTransitions, JobStates, Unqueued, Absent
<1>4. \A i \in Jobs : attempt[i] \in Unqueued => attempt'[i] \in Unqueued
    BY <1>2, <1>3 DEF ThreadsInv, StoreInv, StoreTypeOK
<1> QED
    BY <1>1, <1>2, <1>4, RowsStep DEF ThreadsInv

\* A job is moved, but not to QUEUED; to its result only if its attempt has it.
LEMMA JobWrite ==
    ASSUME ThreadsInv, NEW j \in Jobs, NEW next, next # "QUEUED", TransitionJobState(j, next),
           next \in {"SUCCEEDED", "CANCELED"} => attempt[j] = next
    PROVE  [StoreNext]_storeVars /\ RowsOK'
<1>1. [StoreNext]_storeVars
    BY JobTableRange DEF TransitionJobState, StoreNext, JobNext
<1>2. run' = run /\ attempt' = attempt /\ job' = [job EXCEPT ![j] = next] /\ job'[j] = next
    BY DEF TransitionJobState, ThreadsInv, StoreInv, StoreTypeOK
<1>3. job[j] \in Unqueued => next \in Unqueued
    BY DEF TransitionJobState, validateJobTransition, jobTransitions, JobStates, Unqueued, Absent
<1>4. \A i \in Jobs : (job[i] \in Unqueued => job'[i] \in Unqueued) /\ (job'[i] # job[i] => i = j)
    BY <1>2, <1>3 DEF ThreadsInv, StoreInv, StoreTypeOK
<1> QED
    BY <1>1, <1>2, <1>4, RowsStep DEF ThreadsInv

\* The same, with the frame named: the thread at a plain place.
LEMMA PlainGoto ==
    ASSUME NEW t, NEW g \in Frames, NEW place \in PlainPlaces, NEW f, f = [g EXCEPT !.pc = place], HasLease(t)'
    PROVE  FrameOK(t, f)'
<1>1. f \in Frames /\ f.pc = place
    BY GotoFrame DEF PlainPlaces
<1> QED
    BY <1>1, PlainFrame

\* The attempt or the job of a thread with a lease is one of the plan.
LEMMA JobInHand ==
    ASSUME StoreInv, NEW t \in Mains \union Ticks, HasLease(t)
    PROVE  JobOf(t) \in Jobs
BY ThreadKinds DEF StoreInv, GrantedOnQueued, HasLease, JobOf

\* A write of the run that is on its way to a plain place.
LEMMA TryRunGood ==
    ASSUME ThreadsInv, NEW t \in Threads, th[t] \in Frames, HasLease(t), NEW next, next # "SUCCESS",
           NEW place \in PlainPlaces, TryRun(t, next, place)
    PROVE  Good(t)
<1>1. CASE TransitionRunState(next) /\ Goto(t, place) /\ UNCHANGED sig
    BY <1>1, RunWrite, GotoGood
<1>2. CASE Fails(t) /\ UNCHANGED storeVars
    BY <1>2, FailsGood
<1> QED
    BY <1>1, <1>2 DEF TryRun

\* A write of an attempt, on its way to a place at which the new frame is in order.
LEMMA TryAttemptGood ==
    ASSUME ThreadsInv, NEW t \in Threads, HasLease(t), NEW j \in Jobs, NEW next, next # "QUEUED",
           NEW place, NEW f, f = [th[t] EXCEPT !.pc = place],
           TransitionJobAttemptState(j, next) => FrameOK(t, f)',
           TryAttempt(t, j, next, place)
    PROVE  Good(t)
<1>1. CASE TransitionJobAttemptState(j, next) /\ Goto(t, place) /\ UNCHANGED sig
    BY <1>1, AttemptWrite DEF Good, Goto, ThreadsInv
<1>2. CASE Fails(t) /\ UNCHANGED storeVars
    BY <1>2, FailsGood
<1> QED
    BY <1>1, <1>2 DEF TryAttempt

\* The same for a job.
LEMMA TryJobGood ==
    ASSUME ThreadsInv, NEW t \in Threads, HasLease(t), NEW j \in Jobs, NEW next, next # "QUEUED",
           next \in {"SUCCEEDED", "CANCELED"} => attempt[j] = next,
           NEW place, NEW f, f = [th[t] EXCEPT !.pc = place],
           TransitionJobState(j, next) => FrameOK(t, f)',
           TryJob(t, j, next, place)
    PROVE  Good(t)
<1>1. CASE TransitionJobState(j, next) /\ Goto(t, place) /\ UNCHANGED sig
    BY <1>1, JobWrite DEF Good, Goto, ThreadsInv
<1>2. CASE Fails(t) /\ UNCHANGED storeVars
    BY <1>2, FailsGood
<1> QED
    BY <1>1, <1>2 DEF TryJob

\* transitionJobAndAttempt to a state that is not a result, at plain places.
LEMMA TransitionBothGood ==
    ASSUME ThreadsInv, NEW t \in Threads, th[t] \in Frames, HasLease(t), NEW j \in Jobs,
           NEW next, next \notin {"QUEUED", "SUCCEEDED", "CANCELED"},
           NEW p, NEW q \in PlainPlaces, NEW r \in PlainPlaces,
           transitionJobAndAttempt(t, j, next, <<p, q, r>>)
    PROVE  Good(t)
<1>1. CASE TryAttempt(t, j, next, q)
    <2>1. PICK f : f = [th[t] EXCEPT !.pc = q]
        OBVIOUS
    <2>2. ASSUME TransitionJobAttemptState(j, next) PROVE FrameOK(t, f)'
        BY <2>1, <2>2, AttemptWrite, HasLeaseStays, PlainGoto DEF ThreadsInv
    <2> QED
        BY <1>1, <2>1, <2>2, TryAttemptGood
<1>2. CASE TryJob(t, j, next, r)
    <2>1. PICK f : f = [th[t] EXCEPT !.pc = r]
        OBVIOUS
    <2>2. ASSUME TransitionJobState(j, next) PROVE FrameOK(t, f)'
        BY <2>1, <2>2, JobWrite, HasLeaseStays, PlainGoto DEF ThreadsInv
    <2> QED
        BY <1>2, <2>1, <2>2, TryJobGood
<1> QED
    BY <1>1, <1>2 DEF transitionJobAndAttempt

\* A report, after which the request goes on or returns.
LEMMA ReportGood ==
    ASSUME ThreadsInv, NEW t \in Threads, th[t] \in Frames, HasLease(t),
           NEW place \in PlainPlaces \union {"return"}, reportRun(t, place)
    PROVE  Good(t)
<1>1. CASE TransitionRunState("REPORTED") /\ Goto(t, place) /\ UNCHANGED sig /\ place # "return"
    BY <1>1, RunWrite, GotoGood
<1>2. CASE UNCHANGED storeVars /\ Goto(t, place) /\ UNCHANGED sig /\ place # "return"
    BY <1>2, RowsUnread, GotoGood DEF ThreadsInv, storeVars
<1>3. CASE UNCHANGED storeVars /\ Returns(t)
    BY <1>3, ReturnsGood
<1>4. CASE TransitionRunState("REPORTED") /\ Returns(t)
    <2>1. \E place2 \in {"gone", "idle", "done"} : Finish(t, place2) /\ UNCHANGED sig
        BY <1>4 DEF Returns
    <2>2. \A place2 \in {"gone", "idle", "done"} :
              /\ [NewFrame EXCEPT !.pc = place2] \in Frames
              /\ [NewFrame EXCEPT !.pc = place2].pc \in PlainPlaces
        BY NewFrameType DEF PlainPlaces, Places, RestingPlaces, JobPlaces, QueuePlaces, CancelPlaces
    <2> QED
        BY <1>4, <2>1, <2>2, RunWrite, GotoWithGood DEF Finish, ThreadsInv
<1> QED
    BY <1>1, <1>2, <1>3, <1>4 DEF reportRun

(***************************************************************************)
(* Every step of every handler is good.                                    *)
(***************************************************************************)

\* The plain places of the worker, of the acknowledgement and of the runner.
LEMMA WorkerPlacesPlain ==
    {"idle", "dequeue", "grantRun", "grantReport", "granted", "ackAttempt", "ackJob", "ackRead", "ackRun",
     "exec", "cakCheck", "compCheck", "gone"} \subseteq PlainPlaces
BY DEF PlainPlaces, Places, RestingPlaces, JobPlaces, QueuePlaces, CancelPlaces

\* A worker beyond the grant, and a heartbeat under way, has its lease.
LEMMA AtWork ==
    ASSUME NEW t \in Mains \union Ticks, FrameOK(t, th[t]), th[t].pc \notin WorkerPlaces
    PROVE  t \in Threads /\ th[t] \in Frames /\ HasLease(t)
BY DEF FrameOK, WorkerPlaces, HasLease, Threads

\* The worker's dequeue.
LEMMA DequeueGood ==
    ASSUME ThreadsInv, NEW t \in Mains, FrameOK(t, th[t]), Dequeue(t)
    PROVE  Good(t)
<1>1. t \in Threads /\ th[t] \in Frames /\ t \notin Ticks
    BY ThreadKinds DEF FrameOK, Threads
<1>2. CASE PurgeQueue /\ Goto(t, "dequeue") /\ UNCHANGED sig
    <2>1. PICK f : f = [th[t] EXCEPT !.pc = "dequeue"]
        OBVIOUS
    <2>2. f \in Frames /\ f.pc = "dequeue" /\ "dequeue" \in PlainPlaces
        BY <1>1, <2>1, GotoFrame, WorkerPlacesPlain DEF PlainPlaces
    <2>3. FrameOK(t, f)'
        BY <1>1, <2>2, PlainFrame
    <2>4. [StoreNext]_storeVars /\ RowsOK'
        BY <1>2, RowsUnread DEF PurgeQueue, StoreNext, ThreadsInv
    <2> QED
        BY <1>2, <2>1, <2>3, <2>4 DEF Good, Goto, ThreadsInv
<1>3. ASSUME NEW j \in Jobs, DequeueJobAttempt(j), UNCHANGED sig,
             GotoWith(t, [NewFrame EXCEPT !.pc = "grantRead", !.job = j])
      PROVE  Good(t)
    <2>1. PICK f : f = [NewFrame EXCEPT !.pc = "grantRead", !.job = j]
        OBVIOUS
    <2>2. f \in Frames /\ f.pc = "grantRead" /\ f.job = j
        BY <2>1 DEF NewFrame, Frames, Places, Absent
    <2>3. FrameOK(t, f)'
        BY <1>1, <2>2 DEF FrameOK, WorkerPlaces, QueuePlaces, CancelPlaces
    <2>4. [StoreNext]_storeVars /\ RowsOK'
        BY <1>3, RowsUnread DEF DequeueJobAttempt, StoreNext, JobNext, ThreadsInv
    <2> QED
        BY <1>3, <2>1, <2>3, <2>4 DEF Good, GotoWith, ThreadsInv
<1>4. CASE UNCHANGED storeVars /\ Goto(t, "idle") /\ UNCHANGED sig
    <2>1. PICK f : f = [th[t] EXCEPT !.pc = "idle"]
        OBVIOUS
    <2>2. f \in Frames /\ f.pc = "idle" /\ "idle" \in PlainPlaces
        BY <1>1, <2>1, GotoFrame, WorkerPlacesPlain DEF PlainPlaces
    <2>3. FrameOK(t, f)'
        BY <2>2, PlainFrame
    <2> QED
        BY <1>4, <2>1, <2>3, RowsUnread DEF Good, Goto, ThreadsInv, storeVars
<1> QED
    BY <1>2, <1>3, <1>4 DEF Dequeue

\* GrantLease, from the check of the run to the report.
LEMMA GrantGood ==
    ASSUME ThreadsInv, NEW t \in Mains, FrameOK(t, th[t]), GrantSteps(t)
    PROVE  Good(t)
<1>1. t \in Threads /\ th[t] \in Frames /\ t \notin Ticks /\ LeaseOf(t) \in Leases
    BY ThreadKinds DEF FrameOK, Threads
<1>2. CASE GrantLease_Read(t)
    <2>1. CASE Fails(t) /\ UNCHANGED storeVars
        BY <1>1, <2>1, FailsGood
    <2>2. CASE At(t, "grantRead") /\ Goto(t, "grant") /\ UNCHANGED <<storeVars, sig>>
        <3>1. PICK f : f = [th[t] EXCEPT !.pc = "grant"]
            OBVIOUS
        <3>2. f \in Frames /\ f.pc = "grant" /\ f.job = th[t].job /\ th[t].job \in Jobs
            BY <1>1, <2>2, <3>1, GotoFrame DEF Places, FrameOK, At, JobPlaces
        <3>3. FrameOK(t, f)'
            BY <1>1, <3>2 DEF FrameOK, WorkerPlaces, QueuePlaces, CancelPlaces
        <3> QED
            BY <2>2, <3>1, <3>3, RowsUnread DEF Good, Goto, ThreadsInv, storeVars
    <2> QED
        BY <1>2, <2>1, <2>2 DEF GrantLease_Read
<1>3. CASE GrantLease_Grant(t)
    <2>1. CASE Fails(t) /\ UNCHANGED storeVars
        BY <1>1, <2>1, FailsGood
    <2>2. CASE GrantLease(LeaseOf(t), th[t].job) /\ Goto(t, "grantDispatched") /\ UNCHANGED sig
        <3>1. PICK f : f = [th[t] EXCEPT !.pc = "grantDispatched"]
            OBVIOUS
        <3>2. f \in Frames /\ f.pc = "grantDispatched" /\ f.job = th[t].job /\ th[t].job \in Jobs
            BY <1>1, <1>3, <3>1, GotoFrame DEF Places, FrameOK, GrantLease_Grant, At, JobPlaces
        <3>3. [StoreNext]_storeVars
            BY <1>1, <2>2, <3>2 DEF StoreNext, LeaseNext
        <3>4. leaseState'[LeaseOf(t)] # Absent
            BY <1>1, <2>2 DEF GrantLease, ThreadsInv, StoreInv, StoreTypeOK, Absent
        <3>5. FrameOK(t, f)'
            BY <1>1, <3>2, <3>4 DEF FrameOK, QueuePlaces, CancelPlaces
        <3>6. job[th[t].job] \notin Unqueued /\ attempt[th[t].job] \notin Unqueued
            BY <2>2 DEF GrantLease, CanGrantLease, validateJobTransition, jobTransitions, JobStates, Unqueued, Absent
        <3>7. /\ job' = [job EXCEPT ![th[t].job] = "LEASED"]
              /\ attempt' = [attempt EXCEPT ![th[t].job] = "LEASED"]
              /\ run' = run
            BY <2>2 DEF GrantLease
        <3>8. \A j \in Jobs : \/ job'[j] = job[j] /\ attempt'[j] = attempt[j]
                              \/ j = th[t].job /\ job'[j] = "LEASED"
            BY <3>7 DEF ThreadsInv, StoreInv, StoreTypeOK
        <3>9. RowsOK'
            BY <3>3, <3>6, <3>7, <3>8, RowsStep DEF ThreadsInv
        <3> QED
            BY <2>2, <3>1, <3>3, <3>5, <3>9 DEF Good, Goto, ThreadsInv
    <2> QED
        BY <1>3, <2>1, <2>2 DEF GrantLease_Grant
<1>4. CASE GrantLease_Dispatched(t)
    <2>1. th[t].job \in Jobs /\ HasLease(t)
        BY <1>4, AtWork DEF GrantLease_Dispatched, At, FrameOK, JobPlaces, WorkerPlaces
    <2>2. [StoreNext]_storeVars /\ RowsOK'
        BY <1>4, <2>1, RowsUnread DEF GrantLease_Dispatched, AckJobAttemptDispatch, StoreNext, JobNext, ThreadsInv
    <2>3. [NewFrame EXCEPT !.pc = "grantRun"] \in Frames /\ [NewFrame EXCEPT !.pc = "grantRun"].pc \in PlainPlaces
        BY NewFrameType, WorkerPlacesPlain DEF PlainPlaces
    <2> QED
        BY <1>1, <1>4, <2>1, <2>2, <2>3, GotoWithGood DEF GrantLease_Dispatched, ThreadsInv
<1>5. CASE GrantLease_Run(t)
    <2>1. HasLease(t)
        BY <1>5, AtWork DEF GrantLease_Run, At, WorkerPlaces
    <2> QED
        BY <1>1, <1>5, <2>1, TryRunGood, WorkerPlacesPlain DEF GrantLease_Run
<1>6. CASE GrantLease_Report(t)
    <2>1. HasLease(t)
        BY <1>6, AtWork DEF GrantLease_Report, At, WorkerPlaces
    <2> QED
        BY <1>1, <1>6, <2>1, ReportGood, WorkerPlacesPlain DEF GrantLease_Report
<1> QED
    BY <1>2, <1>3, <1>4, <1>5, <1>6, DequeueGood DEF GrantSteps

\* AckLease.
LEMMA AckGood ==
    ASSUME ThreadsInv, NEW t \in Mains, FrameOK(t, th[t]), AckSteps(t)
    PROVE  Good(t)
<1>1. th[t].pc \notin WorkerPlaces
    BY DEF AckSteps, AckLease_Acknowledge, AckLease_Start, AckLease_Read, AckLease_Run,
           transitionJobAndAttempt, At, WorkerPlaces
<1>2. t \in Threads /\ th[t] \in Frames /\ HasLease(t) /\ JobOf(t) \in Jobs /\ LeaseOf(t) \in Leases
    BY <1>1, AtWork, JobInHand, ThreadKinds DEF ThreadsInv
<1>3. CASE AckLease_Acknowledge(t)
    <2>1. CASE Fails(t) /\ UNCHANGED storeVars
        BY <1>2, <2>1, FailsGood
    <2>2. CASE AcknowledgeLease(LeaseOf(t)) /\ Goto(t, "ackAttempt") /\ UNCHANGED sig
        <3>1. [StoreNext]_storeVars /\ RowsOK'
            BY <1>2, <2>2, RowsUnread DEF AcknowledgeLease, RenewLease, StoreNext, LeaseNext, ThreadsInv
        <3> QED
            BY <1>2, <2>2, <3>1, GotoGood, WorkerPlacesPlain
    <2> QED
        BY <1>3, <2>1, <2>2 DEF AckLease_Acknowledge
<1>4. CASE AckLease_Start(t)
    BY <1>2, <1>4, TransitionBothGood, WorkerPlacesPlain DEF AckLease_Start
<1>5. CASE AckLease_Read(t)
    <2>1. \E place \in {"hbLease", "ackRun"} : Goto(t, place) /\ UNCHANGED <<storeVars, sig>>
        BY <1>5 DEF AckLease_Read
    <2>2. {"hbLease", "ackRun"} \subseteq PlainPlaces
        BY DEF PlainPlaces, Places, RestingPlaces, JobPlaces, QueuePlaces, CancelPlaces
    <2> QED
        BY <1>2, <2>1, <2>2, RowsUnread, GotoGood DEF ThreadsInv, storeVars
<1>6. CASE AckLease_Run(t)
    <2>1. "hbLease" \in PlainPlaces
        BY DEF PlainPlaces, Places, RestingPlaces, JobPlaces, QueuePlaces, CancelPlaces
    <2> QED
        BY <1>2, <1>6, <2>1, TryRunGood DEF AckLease_Run
<1> QED
    BY <1>3, <1>4, <1>5, <1>6 DEF AckSteps

\* The check a later message starts with.
LEMMA CheckLeaseGood ==
    ASSUME ThreadsInv, NEW t \in Threads, th[t] \in Frames, HasLease(t),
           NEW here, NEW place \in PlainPlaces, CheckLease(t, here, place)
    PROVE  Good(t)
<1>1. CASE UNCHANGED storeVars /\ Goto(t, place) /\ UNCHANGED sig
    BY <1>1, RowsUnread, GotoGood DEF ThreadsInv, storeVars
<1>2. CASE UNCHANGED storeVars /\ Fails(t)
    BY <1>2, FailsGood
<1> QED
    BY <1>1, <1>2 DEF CheckLease

\* The plain places of a heartbeat.
LEMMA HeartbeatPlacesPlain ==
    {"hbLease", "hbTouch", "hbReadAttempt", "hbReadJob", "hbReadRun",
     "hbAttempt", "hbJob", "hbRun", "hbReply", "exec", "idle"} \subseteq PlainPlaces
BY DEF PlainPlaces, Places, RestingPlaces, JobPlaces, QueuePlaces, CancelPlaces

\* A frame that also notes the answer the heartbeat will give.
LEMMA CancelFrame ==
    ASSUME NEW f \in Frames, NEW place \in Places, NEW c \in BOOLEAN
    PROVE  /\ [f EXCEPT !.pc = place, !.cancel = c] \in Frames
           /\ [f EXCEPT !.pc = place, !.cancel = c].pc = place
BY DEF Frames

\* HandleHeartbeat, sent by the runner or by its heartbeat goroutine.
LEMMA HeartbeatGood ==
    ASSUME ThreadsInv, NEW t \in Mains \union Ticks, FrameOK(t, th[t]), HeartbeatSteps(t)
    PROVE  Good(t)
<1>1. th[t].pc \notin WorkerPlaces
    BY DEF HeartbeatSteps, CheckLease, Heartbeat_Touch, Heartbeat_ReadAttempt, Heartbeat_ReadJob,
           Heartbeat_ReadRun, Heartbeat_Running, Heartbeat_Run, Heartbeat_Reply,
           transitionJobAndAttempt, At, WorkerPlaces
<1>2. t \in Threads /\ th[t] \in Frames /\ HasLease(t) /\ JobOf(t) \in Jobs /\ LeaseOf(t) \in Leases
    BY <1>1, AtWork, JobInHand, ThreadKinds DEF ThreadsInv
<1>3. CASE CheckLease(t, "hbLease", "hbTouch")
    BY <1>2, <1>3, CheckLeaseGood, HeartbeatPlacesPlain
<1>4. CASE Heartbeat_Touch(t)
    <2>1. CASE Fails(t) /\ UNCHANGED storeVars
        BY <1>2, <2>1, FailsGood
    <2>2. CASE TouchLeaseHeartbeat(LeaseOf(t)) /\ Goto(t, "hbReadAttempt") /\ UNCHANGED sig
        <3>1. [StoreNext]_storeVars /\ RowsOK'
            BY <1>2, <2>2, RowsUnread DEF TouchLeaseHeartbeat, RenewLease, StoreNext, LeaseNext, ThreadsInv
        <3> QED
            BY <1>2, <2>2, <3>1, GotoGood, HeartbeatPlacesPlain
    <2> QED
        BY <1>4, <2>1, <2>2 DEF Heartbeat_Touch
<1>5. ASSUME NEW f \in Frames, f.pc \in {"hbReadJob", "hbReadRun", "hbReply", "hbAttempt", "hbRun", "exec", "idle"},
             GotoWith(t, f), UNCHANGED storeVars, sig' \in [Leases -> BOOLEAN]
      PROVE  Good(t)
    BY <1>2, <1>5, RowsUnread, GotoWithGood, HeartbeatPlacesPlain DEF ThreadsInv, storeVars
<1>6. CASE Heartbeat_ReadAttempt(t)
    <2>1. attempt[JobOf(t)] \in JobStates \union {Absent}
        BY <1>2 DEF ThreadsInv, StoreInv, StoreTypeOK
    <2>2. [th[t] EXCEPT !.pc = "hbReadJob", !.attempt = attempt[JobOf(t)]] \in Frames
        BY <1>2, <2>1 DEF Frames, Places
    <2>3. [th[t] EXCEPT !.pc = "hbReadJob", !.attempt = attempt[JobOf(t)]].pc = "hbReadJob"
        BY <1>2 DEF Frames
    <2> QED
        BY <1>5, <1>6, <2>2, <2>3 DEF Heartbeat_ReadAttempt, ThreadsInv
<1>7. CASE Heartbeat_ReadJob(t)
    <2>1. PICK c \in BOOLEAN : c = (job[JobOf(t)] = "CANCEL_REQUESTED")
        OBVIOUS
    <2>2. GotoWith(t, [th[t] EXCEPT !.pc = "hbReadRun", !.cancel = c])
        BY <1>7, <2>1 DEF Heartbeat_ReadJob
    <2>3. /\ [th[t] EXCEPT !.pc = "hbReadRun", !.cancel = c] \in Frames
          /\ [th[t] EXCEPT !.pc = "hbReadRun", !.cancel = c].pc = "hbReadRun"
        BY <1>2, CancelFrame DEF Places
    <2> QED
        BY <1>5, <1>7, <2>2, <2>3 DEF Heartbeat_ReadJob, ThreadsInv
<1>8. CASE Heartbeat_ReadRun(t)
    <2>1. run \in RunStates \union {Absent} /\ th[t].cancel \in BOOLEAN
        BY <1>2 DEF ThreadsInv, StoreInv, StoreTypeOK, Frames
    <2>2. PICK p \in {"hbAttempt", "hbReply", "hbRun"}, c \in BOOLEAN :
              GotoWith(t, [NewFrame EXCEPT !.pc = p, !.run = run, !.cancel = c])
        BY <1>8, <2>1 DEF Heartbeat_ReadRun
    <2>3. [NewFrame EXCEPT !.pc = p, !.run = run, !.cancel = c] \in Frames
        BY <2>1 DEF NewFrame, Frames, Places, Absent
    <2>4. [NewFrame EXCEPT !.pc = p, !.run = run, !.cancel = c].pc = p
        BY DEF NewFrame
    <2> QED
        BY <1>5, <1>8, <2>2, <2>3, <2>4 DEF Heartbeat_ReadRun, ThreadsInv
<1>9. CASE Heartbeat_Running(t)
    <2>1. \E r \in {"hbReply", "hbRun"} : transitionJobAndAttempt(t, JobOf(t), "RUNNING", <<"hbAttempt", "hbJob", r>>)
        BY <1>9 DEF Heartbeat_Running
    <2> QED
        BY <1>2, <2>1, TransitionBothGood, HeartbeatPlacesPlain
<1>10. CASE Heartbeat_Run(t)
    BY <1>2, <1>10, TryRunGood, HeartbeatPlacesPlain DEF Heartbeat_Run
<1>11. CASE Heartbeat_Reply(t)
    <2>1. th[t].cancel \in BOOLEAN
        BY <1>2 DEF Frames
    <2>2. sig' \in [Leases -> BOOLEAN]
        BY <1>2, <1>11, <2>1 DEF Heartbeat_Reply, ThreadsInv
    <2>3. \A p \in {"exec", "idle"} : [NewFrame EXCEPT !.pc = p] \in Frames /\ [NewFrame EXCEPT !.pc = p].pc = p
        BY NewFrameType, HeartbeatPlacesPlain DEF PlainPlaces
    <2>4. \E p \in {"exec", "idle"} : GotoWith(t, [NewFrame EXCEPT !.pc = p])
        BY <1>11 DEF Heartbeat_Reply, Finish
    <2> QED
        BY <1>5, <1>11, <2>2, <2>3, <2>4 DEF Heartbeat_Reply
<1> QED
    BY <1>3, <1>4, <1>6, <1>7, <1>8, <1>9, <1>10, <1>11 DEF HeartbeatSteps

\* CancelLease.
LEMMA CancelAckGood ==
    ASSUME ThreadsInv, NEW t \in Mains, FrameOK(t, th[t]), CancelAckSteps(t)
    PROVE  Good(t)
<1>1. th[t].pc \notin WorkerPlaces
    BY DEF CancelAckSteps, CheckLease, CancelLease_ReadJob, CancelLease_Cancel, CancelLease_Lease,
           transitionJobAndAttempt, At, WorkerPlaces
<1>2. t \in Threads /\ th[t] \in Frames /\ HasLease(t) /\ JobOf(t) \in Jobs /\ LeaseOf(t) \in Leases
    BY <1>1, AtWork, JobInHand, ThreadKinds DEF ThreadsInv
<1>3. {"cakReadJob", "cakAttempt", "cakLease", "finCancelRead"} \subseteq PlainPlaces
    BY DEF PlainPlaces, Places, RestingPlaces, JobPlaces, QueuePlaces, CancelPlaces
<1>4. CASE CheckLease(t, "cakCheck", "cakReadJob")
    BY <1>2, <1>3, <1>4, CheckLeaseGood
<1>5. CASE CancelLease_ReadJob(t)
    <2>1. CASE Goto(t, "cakAttempt") /\ UNCHANGED <<storeVars, sig>>
        BY <1>2, <1>3, <2>1, RowsUnread, GotoGood DEF ThreadsInv, storeVars
    <2>2. CASE Fails(t) /\ UNCHANGED storeVars
        BY <1>2, <2>2, FailsGood
    <2> QED
        BY <1>5, <2>1, <2>2 DEF CancelLease_ReadJob
<1>6. CASE At(t, "cakAttempt") /\ TryAttempt(t, JobOf(t), "CANCELED", "cakJob")
    <2>1. PICK f : f = [th[t] EXCEPT !.pc = "cakJob"]
        OBVIOUS
    <2>2. ASSUME TransitionJobAttemptState(JobOf(t), "CANCELED") PROVE FrameOK(t, f)'
        <3>1. f \in Frames /\ f.pc = "cakJob"
            BY <1>2, <2>1, GotoFrame DEF Places
        <3>2. [StoreNext]_storeVars /\ attempt'[JobOf(t)] = "CANCELED"
            BY <1>2, <2>2, AttemptWrite
        <3>3. HasLease(t)' /\ JobOf(t)' = JobOf(t)
            BY <1>2, <3>2, HasLeaseStays, GrantStays DEF ThreadsInv, StoreInv, HasLease, JobOf
        <3> QED
            BY <3>1, <3>2, <3>3, ThreadKinds
               DEF FrameOK, HasLease, JobPlaces, QueuePlaces, CancelPlaces
    <2> QED
        BY <1>2, <1>6, <2>1, <2>2, TryAttemptGood
<1>7. CASE At(t, "cakJob") /\ TryJob(t, JobOf(t), "CANCELED", "cakLease")
    <2>1. PICK f : f = [th[t] EXCEPT !.pc = "cakLease"]
        OBVIOUS
    <2>2. attempt[JobOf(t)] = "CANCELED"
        BY <1>7 DEF FrameOK, At
    <2>3. ASSUME TransitionJobState(JobOf(t), "CANCELED") PROVE FrameOK(t, f)'
        BY <1>2, <1>3, <2>1, <2>2, <2>3, JobWrite, HasLeaseStays, PlainGoto DEF ThreadsInv
    <2> QED
        BY <1>2, <1>7, <2>1, <2>2, <2>3, TryJobGood
<1>8. CASE CancelLease_Lease(t)
    <2>1. CASE CompleteLease(LeaseOf(t), "CANCELED") /\ Goto(t, "finCancelRead") /\ UNCHANGED sig
        <3>1. [StoreNext]_storeVars
            BY <1>2, <2>1 DEF StoreNext, LeaseNext, LeaseStates
        <3>2. RowsOK'
            BY <2>1, RowsUnread DEF CompleteLease, ThreadsInv
        <3> QED
            BY <1>2, <1>3, <2>1, <3>1, <3>2, GotoGood
    <2>2. CASE Fails(t) /\ UNCHANGED storeVars
        BY <1>2, <2>2, FailsGood
    <2> QED
        BY <1>8, <2>1, <2>2 DEF CancelLease_Lease
<1> QED
    BY <1>4, <1>5, <1>6, <1>7, <1>8 DEF CancelAckSteps, CancelLease_Cancel, transitionJobAndAttempt

\* A step that only reads leaves the thread with a frame that is in order now.
LEMMA ReadGood ==
    ASSUME ThreadsInv, NEW t \in Threads, UNCHANGED storeVars, sig' = sig,
           NEW f, FrameOK(t, f), GotoWith(t, f)
    PROVE  Good(t)
BY FrameStays, RowsUnread DEF Good, GotoWith, ThreadsInv, storeVars

\* The verdict is SUCCESS only if every required job has SUCCEEDED.
LEMMA VerdictRange ==
    /\ RunVerdict \in {"SUCCESS", "FAILED", Absent}
    /\ RunVerdict = "SUCCESS" => \A j \in Required : job[j] = "SUCCEEDED"
<1> DEFINE Unfinished == {j \in Required : job[j] # "SUCCEEDED"}
<1>1. CASE Unfinished = {}
    BY <1>1 DEF RunVerdict
<1>2. CASE Unfinished # {} /\ job[FirstOf(Unfinished)] \in {"FAILED", "TIMED_OUT", "CANCELED"}
    <2>1. RunVerdict = "FAILED"
        BY <1>2 DEF RunVerdict
    <2> QED
        BY <2>1
<1>3. CASE Unfinished # {} /\ job[FirstOf(Unfinished)] \notin {"FAILED", "TIMED_OUT", "CANCELED"}
    <2>1. RunVerdict = Absent
        BY <1>3 DEF RunVerdict
    <2> QED
        BY <2>1 DEF Absent
<1> QED
    BY <1>1, <1>2, <1>3

\* The plain places at the end of a request.
LEMMA FinalPlacesPlain ==
    {"finRead", "finList", "finReport", "finCancelRead", "finCancelList", "finCancelWrite",
     "depNext", "compLease"} \subseteq PlainPlaces
BY DEF PlainPlaces, Places, RestingPlaces, JobPlaces, QueuePlaces, CancelPlaces

\* finalizeRunIfReady: the verdict of a list read earlier is still true when it
\* is written.
LEMMA FinalizeRunGood ==
    ASSUME ThreadsInv, NEW t \in Threads, FrameOK(t, th[t]), HasLease(t), finalizeRunIfReady(t)
    PROVE  Good(t)
<1>0. th[t] \in Frames
    BY DEF FrameOK
<1>1. CASE Goto(t, "finList") /\ UNCHANGED <<storeVars, sig>>
    BY <1>0, <1>1, RowsUnread, GotoGood, FinalPlacesPlain DEF ThreadsInv, storeVars
<1>2. CASE Returns(t) /\ UNCHANGED storeVars
    BY <1>2, ReturnsGood
<1>3. CASE /\ RunVerdict # Absent /\ UNCHANGED <<storeVars, sig>>
           /\ GotoWith(t, [th[t] EXCEPT !.pc = "finWrite", !.status = RunVerdict])
    <2>1. PICK f : f = [th[t] EXCEPT !.pc = "finWrite", !.status = RunVerdict]
        OBVIOUS
    <2>2. f \in Frames /\ f.pc = "finWrite" /\ f.status = RunVerdict
        BY <1>0, <2>1, VerdictRange DEF Frames, Places
    <2>3. FrameOK(t, f)
        BY <2>2, VerdictRange DEF FrameOK, HasLease, JobPlaces, QueuePlaces, CancelPlaces
    <2> QED
        BY <1>3, <2>1, <2>3, ReadGood
<1>4. CASE At(t, "finWrite") /\ TransitionRunState(th[t].status) /\ Goto(t, "finReport") /\ UNCHANGED sig
    <2>1. [StoreNext]_storeVars
        BY <1>4, RunTableRange DEF TransitionRunState, StoreNext, RunNext
    <2>2. th[t].status = "SUCCESS" => \A j \in Required : job[j] = "SUCCEEDED"
        BY <1>4 DEF FrameOK, At
    <2>3. RowsOK'
        BY <1>4, <2>1, <2>2, RowsStep DEF TransitionRunState, ThreadsInv
    <2> QED
        BY <1>0, <1>4, <2>1, <2>3, GotoGood, FinalPlacesPlain
<1> QED
    BY <1>1, <1>2, <1>3, <1>4 DEF finalizeRunIfReady

\* finalizeCancelIfReady, and the report of either verdict.
LEMMA FinalizeCancelGood ==
    ASSUME ThreadsInv, NEW t \in Threads, FrameOK(t, th[t]), HasLease(t),
           finalizeCancelIfReady(t) \/ ReportVerdict(t)
    PROVE  Good(t)
<1>0. th[t] \in Frames
    BY DEF FrameOK
<1>1. ASSUME NEW place \in {"finCancelList", "finCancelWrite"}, Goto(t, place), UNCHANGED <<storeVars, sig>>
      PROVE  Good(t)
    BY <1>0, <1>1, RowsUnread, GotoGood, FinalPlacesPlain DEF ThreadsInv, storeVars
<1>2. CASE Returns(t) /\ UNCHANGED storeVars
    BY <1>2, ReturnsGood
<1>3. CASE TransitionRunState("CANCELED") /\ Goto(t, "finReport") /\ UNCHANGED sig
    BY <1>0, <1>3, RunWrite, GotoGood, FinalPlacesPlain
<1>4. CASE ReportVerdict(t)
    BY <1>0, <1>4, ReportGood DEF ReportVerdict
<1> QED
    BY <1>1, <1>2, <1>3, <1>4 DEF finalizeCancelIfReady

\* A frame that takes up another job, at another place.
LEMMA JobFrame ==
    ASSUME NEW g \in Frames, NEW place \in Places, NEW j \in Jobs \union {NoJob}
    PROVE  /\ [g EXCEPT !.pc = place, !.job = j] \in Frames
           /\ [g EXCEPT !.pc = place, !.job = j].pc = place
BY DEF Frames

\* The next turn of a loop that queues jobs: the next root, or the next
\* dependent.
LEMMA QueueLoopFrame ==
    ASSUME ThreadsInv, NEW t \in Mains \union {Starter}, FrameOK(t, th[t]), HasLease(t),
           th[t].pc \in QueuePlaces, NEW f, f = QueueLoop(t)
    PROVE  FrameOK(t, f)
<1>1. th[t] \in Frames /\ PlannedDeps \subseteq deps
    BY DEF FrameOK, Ready
<1>2. CASE t = Starter /\ th[t].todo # {}
    <2>1. PICK j : j = FirstOf(th[t].todo)
        OBVIOUS
    <2>2. PICK rest : rest = th[t].todo \ {j}
        OBVIOUS
    <2>3. f = [th[t] EXCEPT !.pc = "queueJob", !.job = j, !.todo = rest]
        BY <1>2, <2>1, <2>2 DEF QueueLoop, NextJob
    <2>4. th[t].todo \subseteq Roots /\ th[t].todo \subseteq Jobs
        BY <1>2 DEF FrameOK, Roots
    <2>5. j \in Roots /\ j \in Jobs /\ rest \subseteq Roots /\ rest \in SUBSET Jobs
        BY <1>2, <2>1, <2>2, <2>4, FirstOfRange
    <2>6. "queueJob" \in Places
        BY DEF Places
    <2>7. /\ [th[t] EXCEPT !.pc = "queueJob", !.job = j, !.todo = rest] \in Frames
          /\ [th[t] EXCEPT !.pc = "queueJob", !.job = j, !.todo = rest].pc = "queueJob"
          /\ [th[t] EXCEPT !.pc = "queueJob", !.job = j, !.todo = rest].job = j
          /\ [th[t] EXCEPT !.pc = "queueJob", !.job = j, !.todo = rest].todo = rest
        BY <1>1, <2>5, <2>6 DEF Frames
    <2>8. f \in Frames /\ f.pc = "queueJob" /\ f.job = j /\ f.todo \subseteq Roots
        BY <2>3, <2>5, <2>7
    <2>9. Ready(j)
        BY <1>1, <2>5 DEF Ready, Roots
    <2> QED
        BY <2>5, <2>8, <2>9, <1>2, ThreadKinds DEF FrameOK, CancelPlaces
<1>3. CASE t = Starter /\ th[t].todo = {}
    <2>1. f = [NewFrame EXCEPT !.pc = "startQueued"] /\ "startQueued" \in PlainPlaces
        BY <1>3 DEF QueueLoop, NextJob, PlainPlaces, Places, JobPlaces, QueuePlaces, CancelPlaces
    <2>2. f \in Frames /\ f.pc = "startQueued"
        BY <2>1, NewFrameType DEF PlainPlaces
    <2> QED
        BY <1>3, <2>2, ThreadKinds DEF FrameOK, JobPlaces, QueuePlaces, CancelPlaces
<1>4. CASE t # Starter
    <2>1. {"finRead", "depNext"} \subseteq Places
        BY DEF Places
    <2>2. [NewFrame EXCEPT !.pc = "finRead"] \in Frames /\ [NewFrame EXCEPT !.pc = "finRead"].pc = "finRead"
        BY <2>1, NewFrameType
    <2>3. /\ [th[t] EXCEPT !.pc = "depNext", !.job = NoJob] \in Frames
          /\ [th[t] EXCEPT !.pc = "depNext", !.job = NoJob].pc = "depNext"
        BY <1>1, <2>1, JobFrame
    <2>4. f \in Frames /\ f.pc \in {"finRead", "depNext"}
        BY <1>4, <2>2, <2>3 DEF QueueLoop
    <2> QED
        BY <1>4, <2>4 DEF FrameOK, HasLease, JobPlaces, QueuePlaces, CancelPlaces
<1> QED
    BY <1>2, <1>3, <1>4

\* A legal step of the store that leaves the thread with a frame that was in
\* order before the step.
LEMMA StepGood ==
    ASSUME ThreadsInv, NEW t \in Threads, [StoreNext]_storeVars, RowsOK', sig' = sig,
           NEW f, FrameOK(t, f), th' = [th EXCEPT ![t] = f]
    PROVE  Good(t)
BY FrameStays DEF Good, ThreadsInv

\* A thread that is queueing a job goes on queueing it.
LEMMA QueueGoto ==
    ASSUME NEW t \in Mains \union {Starter}, FrameOK(t, th[t]), th[t].pc \in QueuePlaces,
           NEW place \in QueuePlaces, NEW f, f = [th[t] EXCEPT !.pc = place]
    PROVE  FrameOK(t, f)
<1>1. place \in Places
    BY DEF QueuePlaces, Places
<1>2. f \in Frames /\ f.pc = place /\ f.job = th[t].job /\ f.todo = th[t].todo
    BY <1>1, GotoFrame DEF FrameOK
<1>3. place \notin {"compJob", "cakJob", "canceledJob", "finWrite", "idle"} /\ th[t].pc # "idle"
    BY DEF QueuePlaces
<1>4. th[t].pc \notin WorkerPlaces /\ th[t].pc \in JobPlaces
    BY DEF QueuePlaces, WorkerPlaces, JobPlaces
<1> QED
    BY <1>2, <1>3, <1>4 DEF FrameOK

\* queueJobAttempt: the job and its attempt are queued because the job was
\* found ready, by enqueueReadyDependents or by startRun, and still is.
LEMMA QueueJobGood ==
    ASSUME ThreadsInv, NEW t \in Mains \union {Starter}, FrameOK(t, th[t]), queueJobAttempt(t)
    PROVE  Good(t)
<1>1. th[t].pc \in {"queueJob", "queueAttempt", "enqueue"}
    BY DEF queueJobAttempt, At
<1>2. /\ th[t].pc \in QueuePlaces /\ th[t].pc \in JobPlaces
      /\ th[t].pc \notin WorkerPlaces
    BY <1>1 DEF QueuePlaces, JobPlaces, WorkerPlaces
<1>3. t \in Threads /\ th[t] \in Frames /\ HasLease(t) /\ th[t].job \in Jobs /\ Ready(th[t].job)
    BY <1>2, ThreadKinds DEF FrameOK, HasLease, Threads
<1>4. ASSUME UNCHANGED storeVars, IF t = Starter THEN Fails(t) ELSE GotoWith(t, QueueLoop(t)) /\ UNCHANGED sig
      PROVE  Good(t)
    <2>1. CASE t = Starter
        BY <1>3, <1>4, <2>1, ThreadKinds, FailsGood
    <2>2. CASE t # Starter
        <3>1. PICK f : f = QueueLoop(t)
            OBVIOUS
        <3>2. FrameOK(t, f)
            BY <1>2, <1>3, <3>1, QueueLoopFrame
        <3> QED
            BY <1>3, <1>4, <2>2, <3>1, <3>2, ReadGood
    <2> QED
        BY <2>1, <2>2
<1>5. ASSUME NEW from, queueJobAttempt_Skip(t, from, "QUEUED") PROVE Good(t)
    BY <1>4, <1>5 DEF queueJobAttempt_Skip
<1>6. ASSUME NEW place \in QueuePlaces, [StoreNext]_storeVars, RowsOK', UNCHANGED sig, Goto(t, place)
      PROVE  Good(t)
    <2>1. PICK f : f = [th[t] EXCEPT !.pc = place]
        OBVIOUS
    <2>2. FrameOK(t, f)
        BY <1>2, <2>1, QueueGoto
    <2> QED
        BY <1>3, <1>6, <2>1, <2>2, StepGood DEF Goto
<1>7. CASE TransitionJobState(th[t].job, "QUEUED") /\ Goto(t, "queueAttempt") /\ UNCHANGED sig
    <2>1. [StoreNext]_storeVars
        BY <1>3, <1>7, JobTableRange DEF TransitionJobState, StoreNext, JobNext
    <2>2. run' = run /\ attempt' = attempt /\ \A j \in Jobs : job'[j] # job[j] => j = th[t].job /\ job'[j] = "QUEUED"
        BY <1>7 DEF TransitionJobState, ThreadsInv, StoreInv, StoreTypeOK
    <2>3. RowsOK'
        BY <1>3, <2>1, <2>2, RowsStep DEF ThreadsInv
    <2> QED
        BY <1>6, <1>7, <2>1, <2>3 DEF QueuePlaces
<1>8. CASE TransitionJobAttemptState(th[t].job, "QUEUED") /\ Goto(t, "enqueue") /\ UNCHANGED sig
    <2>1. [StoreNext]_storeVars
        BY <1>3, <1>8, JobTableRange DEF TransitionJobAttemptState, StoreNext, JobNext
    <2>2. run' = run /\ job' = job /\ \A j \in Jobs : attempt'[j] # attempt[j] => j = th[t].job
        BY <1>8 DEF TransitionJobAttemptState, ThreadsInv, StoreInv, StoreTypeOK
    <2>3. RowsOK'
        BY <1>3, <2>1, <2>2, RowsStep DEF ThreadsInv
    <2> QED
        BY <1>6, <1>8, <2>1, <2>3 DEF QueuePlaces
<1>9. CASE EnqueueJobAttempt(th[t].job) /\ GotoWith(t, QueueLoop(t)) /\ UNCHANGED sig
    <2>1. [StoreNext]_storeVars /\ RowsOK'
        BY <1>3, <1>9, RowsUnread DEF EnqueueJobAttempt, StoreNext, JobNext, ThreadsInv
    <2>2. PICK f : f = QueueLoop(t)
        OBVIOUS
    <2>3. FrameOK(t, f)
        BY <1>2, <1>3, <2>2, QueueLoopFrame
    <2> QED
        BY <1>3, <1>9, <2>1, <2>2, <2>3, StepGood DEF GotoWith
<1> QED
    BY <1>5, <1>7, <1>8, <1>9 DEF queueJobAttempt

\* The plan is recorded once any of its jobs has been leased.
LEMMA PlanRecorded ==
    ASSUME ThreadsInv, NEW t \in Mains, HasLease(t)
    PROVE  PlannedDeps \subseteq deps
BY ThreadKinds DEF ThreadsInv, StoreInv, GrantedOnQueued, HasLease, RowsOK, QueuedWasReady, Ready

\* A dependent whose recorded dependencies have all SUCCEEDED is ready.
LEMMA SatisfiedIsReady ==
    ASSUME PlannedDeps \subseteq deps, NEW d \in Jobs, DependenciesSatisfied(d)
    PROVE  Ready(d)
BY PlanAssumption DEF Ready, PlannedDeps, DependenciesSatisfied

\* enqueueReadyDependents: the next dependent is taken up if it is ready.
LEMMA DependentsGood ==
    ASSUME ThreadsInv, NEW t \in Mains, FrameOK(t, th[t]), HasLease(t), enqueueReadyDependents(t)
    PROVE  Good(t)
<1>1. t \in Threads /\ th[t] \in Frames /\ t \in Mains \union {Starter} /\ t # Starter
    BY ThreadKinds DEF FrameOK, Threads
<1>2. ASSUME NEW f \in Frames, f.pc \in {"depNext", "finRead"}, GotoWith(t, f), UNCHANGED <<storeVars, sig>>
      PROVE  Good(t)
    BY <1>1, <1>2, RowsUnread, GotoWithGood, FinalPlacesPlain DEF ThreadsInv, storeVars
<1>3. ASSUME At(t, "depNext"), NEW d \in th[t].todo, UNCHANGED <<storeVars, sig>>,
             NEW rest, rest = [th[t] EXCEPT !.todo = th[t].todo \ {d}],
             GotoWith(t, IF DependenciesSatisfied(d) /\ job[d] = "CREATED"
                         THEN [rest EXCEPT !.pc = "depAttempt", !.job = d]
                         ELSE IF rest.todo = {} THEN [NewFrame EXCEPT !.pc = "finRead"] ELSE rest)
      PROVE  Good(t)
    <2>1. d \in Jobs /\ th[t].todo \ {d} \in SUBSET Jobs
        BY <1>1 DEF Frames
    <2>2. rest \in Frames /\ rest.pc = "depNext"
        BY <1>1, <1>3, <2>1 DEF Frames, At
    <2>3. CASE DependenciesSatisfied(d) /\ job[d] = "CREATED"
        <3>1. PICK f : f = [rest EXCEPT !.pc = "depAttempt", !.job = d]
            OBVIOUS
        <3>2. f \in Frames /\ f.pc = "depAttempt" /\ f.job = d
            BY <2>1, <2>2, <3>1 DEF Frames, Places
        <3>3. Ready(d)
            BY <2>1, <2>3, PlanRecorded, SatisfiedIsReady
        <3>4. FrameOK(t, f)
            BY <1>1, <2>1, <3>2, <3>3 DEF FrameOK, HasLease, CancelPlaces
        <3> QED
            BY <1>1, <1>3, <2>3, <3>1, <3>4, ReadGood
    <2>4. CASE ~(DependenciesSatisfied(d) /\ job[d] = "CREATED") /\ rest.todo = {}
        <3>1. [NewFrame EXCEPT !.pc = "finRead"] \in Frames /\ [NewFrame EXCEPT !.pc = "finRead"].pc = "finRead"
            BY NewFrameType, FinalPlacesPlain DEF PlainPlaces
        <3> QED
            BY <1>2, <1>3, <2>4, <3>1
    <2>5. CASE ~(DependenciesSatisfied(d) /\ job[d] = "CREATED") /\ rest.todo # {}
        BY <1>2, <1>3, <2>2, <2>5
    <2> QED
        BY <2>3, <2>4, <2>5
<1>4. CASE /\ At(t, "depAttempt") /\ UNCHANGED <<storeVars, sig>>
           /\ GotoWith(t, IF attempt[th[t].job] = "CREATED" THEN [th[t] EXCEPT !.pc = "queueJob"]
                          ELSE QueueLoop(t))
    <2>1. th[t].pc \in QueuePlaces
        BY <1>4 DEF At, QueuePlaces
    <2>2. CASE GotoWith(t, [th[t] EXCEPT !.pc = "queueJob"])
        <3>1. PICK f : f = [th[t] EXCEPT !.pc = "queueJob"]
            OBVIOUS
        <3>2. "queueJob" \in QueuePlaces
            BY DEF QueuePlaces
        <3>3. FrameOK(t, f)
            BY <1>1, <2>1, <3>1, <3>2, QueueGoto
        <3> QED
            BY <1>1, <1>4, <2>2, <3>1, <3>3, ReadGood
    <2>3. CASE GotoWith(t, QueueLoop(t))
        <3>1. PICK f : f = QueueLoop(t)
            OBVIOUS
        <3>2. FrameOK(t, f)
            BY <1>1, <2>1, <3>1, QueueLoopFrame
        <3> QED
            BY <1>1, <1>4, <2>3, <3>1, <3>2, ReadGood
    <2> QED
        BY <1>4, <2>2, <2>3
<1>5. CASE queueJobAttempt(t)
    BY <1>1, <1>5, QueueJobGood
<1> QED
    BY <1>3, <1>4, <1>5 DEF enqueueReadyDependents

\* The plain places of a completion.
LEMMA CompletePlacesPlain ==
    {"compReadAttempt", "compReadRun", "compRunAttempt", "compRunJob", "compUpAttempt", "compUpJob",
     "compAttempt", "compLease", "depNext", "finRead", "finCancelRead"} \subseteq PlainPlaces
BY DEF PlainPlaces, Places, RestingPlaces, JobPlaces, QueuePlaces, CancelPlaces

\* The attempt, and then the job, is given the result that the runner sent.
LEMMA ResultGood ==
    ASSUME ThreadsInv, NEW t \in Mains, FrameOK(t, th[t]), HasLease(t), Complete_Result(t)
    PROVE  Good(t)
<1>1. t \in Threads /\ th[t] \in Frames /\ JobOf(t) \in Jobs /\ th[t].status \notin {"QUEUED", "CANCELED"}
    BY JobInHand DEF FrameOK, Threads, Frames, ThreadsInv, Absent
<1>2. CASE At(t, "compAttempt") /\ TryAttempt(t, JobOf(t), th[t].status, "compJob")
    <2>1. PICK f : f = [th[t] EXCEPT !.pc = "compJob"]
        OBVIOUS
    <2>2. ASSUME TransitionJobAttemptState(JobOf(t), th[t].status) PROVE FrameOK(t, f)'
        <3>1. f \in Frames /\ f.pc = "compJob" /\ f.status = th[t].status
            BY <1>1, <2>1, GotoFrame DEF Places
        <3>2. [StoreNext]_storeVars /\ attempt'[JobOf(t)] = th[t].status
            BY <1>1, <2>2, AttemptWrite
        <3>3. HasLease(t)' /\ JobOf(t)' = JobOf(t)
            BY <1>1, <3>2, HasLeaseStays, GrantStays, ThreadKinds DEF ThreadsInv, StoreInv, HasLease, JobOf
        <3> QED
            BY <3>1, <3>2, <3>3, ThreadKinds DEF FrameOK, HasLease, JobPlaces, QueuePlaces, CancelPlaces
    <2> QED
        BY <1>1, <1>2, <2>1, <2>2, TryAttemptGood
<1>3. CASE At(t, "compJob") /\ TryJob(t, JobOf(t), th[t].status, "compLease")
    <2>1. PICK f : f = [th[t] EXCEPT !.pc = "compLease"]
        OBVIOUS
    <2>2. th[t].status \in {"SUCCEEDED", "CANCELED"} => attempt[JobOf(t)] = th[t].status
        BY <1>1, <1>3 DEF FrameOK, At
    <2>3. ASSUME TransitionJobState(JobOf(t), th[t].status) PROVE FrameOK(t, f)'
        BY <1>1, <2>1, <2>2, <2>3, JobWrite, HasLeaseStays, PlainGoto, CompletePlacesPlain DEF ThreadsInv
    <2> QED
        BY <1>1, <1>3, <2>1, <2>2, <2>3, TryJobGood
<1> QED
    BY <1>2, <1>3 DEF Complete_Result, transitionJobAndAttempt

\* The frame with which the completion goes on after the lease is closed.
LEMMA AfterCompleteFrame ==
    ASSUME StoreTypeOK, NEW t
    PROVE  AfterComplete(t) \in Frames /\ AfterComplete(t).pc \in {"finCancelRead", "depNext", "finRead"}
<1>1. \A p \in {"finCancelRead", "depNext", "finRead"} :
          [NewFrame EXCEPT !.pc = p] \in Frames /\ [NewFrame EXCEPT !.pc = p].pc = p
    BY NewFrameType, CompletePlacesPlain DEF PlainPlaces
<1>2. PICK dependents : dependents = ListJobDependents(JobOf(t))
    OBVIOUS
<1>3. dependents \in SUBSET Jobs
    BY <1>2 DEF ListJobDependents
<1>4. /\ [NewFrame EXCEPT !.pc = "depNext", !.todo = dependents] \in Frames
      /\ [NewFrame EXCEPT !.pc = "depNext", !.todo = dependents].pc = "depNext"
    BY <1>3 DEF NewFrame, Frames, Places, Absent
<1> QED
    BY <1>1, <1>2, <1>4 DEF AfterComplete

\* A frame that notes the state the run was read in.
LEMMA RunFrame ==
    ASSUME NEW f \in Frames, NEW place \in Places, NEW r \in RunStates \union {Absent}
    PROVE  [f EXCEPT !.pc = place, !.run = r] \in Frames /\ [f EXCEPT !.pc = place, !.run = r].pc = place
BY DEF Frames

\* CompleteLease.
LEMMA CompleteGood ==
    ASSUME ThreadsInv, NEW t \in Mains, FrameOK(t, th[t]), CompleteSteps(t)
    PROVE  Good(t)
<1>1. th[t].pc \notin WorkerPlaces
    BY DEF CompleteSteps, CheckLease, Complete_ReadAttempt, Complete_ReadRun, Complete_Running,
           Complete_Uploading, Complete_Result, Complete_Lease, enqueueReadyDependents, queueJobAttempt,
           finalizeRunIfReady, finalizeCancelIfReady, ReportVerdict,
           transitionJobAndAttempt, At, WorkerPlaces
<1>2. t \in Threads /\ th[t] \in Frames /\ HasLease(t) /\ JobOf(t) \in Jobs /\ LeaseOf(t) \in Leases
    BY <1>1, AtWork, JobInHand, ThreadKinds DEF ThreadsInv
<1>3. CASE CheckLease(t, "compCheck", "compReadAttempt")
    BY <1>2, <1>3, CheckLeaseGood, CompletePlacesPlain
<1>4. ASSUME NEW f \in Frames, f.pc \in PlainPlaces, GotoWith(t, f), UNCHANGED <<storeVars, sig>>
      PROVE  Good(t)
    BY <1>2, <1>4, RowsUnread, GotoWithGood DEF ThreadsInv, storeVars
<1>5. CASE Complete_ReadAttempt(t)
    <2>1. attempt[JobOf(t)] \in JobStates \union {Absent}
        BY <1>2 DEF ThreadsInv, StoreInv, StoreTypeOK
    <2>2. [th[t] EXCEPT !.pc = "compReadRun", !.attempt = attempt[JobOf(t)]] \in Frames
        BY <1>2, <2>1 DEF Frames, Places
    <2>3. [th[t] EXCEPT !.pc = "compReadRun", !.attempt = attempt[JobOf(t)]].pc = "compReadRun"
        BY <1>2 DEF Frames
    <2> QED
        BY <1>4, <1>5, <2>2, <2>3, CompletePlacesPlain DEF Complete_ReadAttempt
<1>6. CASE Complete_ReadRun(t)
    <2>1. PICK p \in {"compAttempt", "compUpAttempt", "compRunAttempt"} :
              GotoWith(t, [th[t] EXCEPT !.pc = p, !.run = run])
        BY <1>6 DEF Complete_ReadRun
    <2>2. run \in RunStates \union {Absent}
        BY DEF ThreadsInv, StoreInv, StoreTypeOK
    <2>3. p \in PlainPlaces /\ p \in Places
        BY CompletePlacesPlain DEF PlainPlaces
    <2>4. PICK f : f = [th[t] EXCEPT !.pc = p, !.run = run]
        OBVIOUS
    <2>5. f \in Frames /\ f.pc = p
        BY <1>2, <2>2, <2>3, <2>4, RunFrame
    <2>6. UNCHANGED <<storeVars, sig>>
        BY <1>6 DEF Complete_ReadRun
    <2> QED
        BY <1>4, <2>1, <2>3, <2>4, <2>5, <2>6
<1>7. CASE Complete_Running(t)
    BY <1>2, <1>7, TransitionBothGood, CompletePlacesPlain DEF Complete_Running
<1>8. CASE Complete_Uploading(t)
    BY <1>2, <1>8, TransitionBothGood, CompletePlacesPlain DEF Complete_Uploading
<1>9. CASE Complete_Lease(t)
    <2>1. CASE CompleteLease(LeaseOf(t), "COMPLETED") /\ GotoWith(t, AfterComplete(t)) /\ UNCHANGED sig
        <3>1. [StoreNext]_storeVars
            BY <1>2, <2>1 DEF StoreNext, LeaseNext, LeaseStates
        <3>2. RowsOK'
            BY <2>1, RowsUnread DEF CompleteLease, ThreadsInv
        <3>3. AfterComplete(t) \in Frames /\ AfterComplete(t).pc \in PlainPlaces
            BY AfterCompleteFrame, CompletePlacesPlain DEF ThreadsInv, StoreInv
        <3> QED
            BY <1>2, <2>1, <3>1, <3>2, <3>3, GotoWithGood DEF ThreadsInv
    <2>2. CASE Fails(t) /\ UNCHANGED storeVars
        BY <1>2, <2>2, FailsGood
    <2> QED
        BY <1>9, <2>1, <2>2 DEF Complete_Lease
<1> QED
    BY <1>2, <1>3, <1>5, <1>6, <1>7, <1>8, <1>9, ResultGood, DependentsGood, FinalizeRunGood, FinalizeCancelGood
       DEF CompleteSteps

\* The plain places of startRun.
LEMMA StartPlacesPlain ==
    {"startPlanning", "startPlan", "failRunPlan", "failRun", "startJobs", "startDeps", "startQueued",
     "startReport"} \subseteq PlainPlaces
BY DEF PlainPlaces, Places, RestingPlaces, JobPlaces, QueuePlaces, CancelPlaces

\* A frame at a plain place with jobs still to visit.
LEMMA TodoFrame ==
    ASSUME NEW f \in Frames, NEW place \in Places, NEW rest \in SUBSET Jobs
    PROVE  /\ [f EXCEPT !.todo = rest] \in Frames
           /\ [f EXCEPT !.todo = rest].pc = f.pc
           /\ [NewFrame EXCEPT !.pc = place, !.todo = rest] \in Frames
           /\ [NewFrame EXCEPT !.pc = place, !.todo = rest].pc = place
BY DEF Frames, NewFrame, Absent

\* A step that inserts a row, and leaves the frame as it is.
LEMMA InsertGood ==
    ASSUME ThreadsInv, NEW t \in Threads, FrameOK(t, th[t]), [StoreNext]_storeVars,
           run' = run, NEW j \in Jobs,
           job' = job \/ job' = [job EXCEPT ![j] = "CREATED"],
           attempt' = attempt \/ attempt' = [attempt EXCEPT ![j] = "CREATED"]
    PROVE  /\ RowsOK'
           /\ UNCHANGED <<th, sig>> => Good(t)
<1>1. \A i \in Jobs : /\ job'[i] = job[i] \/ job'[i] = "CREATED"
                      /\ attempt'[i] = attempt[i] \/ attempt'[i] = "CREATED"
    BY DEF ThreadsInv, StoreInv, StoreTypeOK
<1>2. RowsOK'
    BY <1>1, RowsStep DEF ThreadsInv, Unqueued
<1>3. ASSUME UNCHANGED <<th, sig>> PROVE Good(t)
    <2>1. PICK f : f = th[t]
        OBVIOUS
    <2>2. th' = [th EXCEPT ![t] = f]
        BY <1>3, <2>1 DEF ThreadsInv
    <2> QED
        BY <1>2, <1>3, <2>1, <2>2, StepGood
<1> QED
    BY <1>2, <1>3

\* The jobs and their attempts are inserted, then the dependencies.
LEMMA RecordPlanGood ==
    ASSUME ThreadsInv, FrameOK(Starter, th[Starter]), startRun_Jobs \/ startRun_Dependencies
    PROVE  Good(Starter)
<1>1. Starter \in Threads /\ th[Starter] \in Frames /\ HasLease(Starter)
    BY ThreadKinds DEF FrameOK, HasLease, Threads
<1>2. CASE startRun_Jobs /\ th[Starter].todo = {}
    BY <1>1, <1>2, RowsUnread, GotoGood, StartPlacesPlain DEF startRun_Jobs, ThreadsInv, storeVars
<1>3. CASE startRun_Jobs /\ th[Starter].todo # {}
    <2>1. PICK j : j = FirstOf(th[Starter].todo)
        OBVIOUS
    <2>2. j \in Jobs
        BY <1>1, <1>3, <2>1, FirstOfRange DEF Frames
    <2>3. CASE CreateJob(j) /\ UNCHANGED <<th, sig>>
        <3>1. [StoreNext]_storeVars
            BY <2>2, <2>3 DEF StoreNext, JobNext
        <3>2. run' = run /\ job' = [job EXCEPT ![j] = "CREATED"] /\ attempt' = attempt
            BY <2>3 DEF CreateJob
        <3> QED
            BY <1>1, <2>2, <2>3, <3>1, <3>2, InsertGood
    <2>4. CASE /\ CreateJobAttempt(j) /\ UNCHANGED sig
               /\ GotoWith(Starter, [th[Starter] EXCEPT !.todo = @ \ {j}])
        <3>1. [StoreNext]_storeVars
            BY <2>2, <2>4 DEF StoreNext, JobNext
        <3>2. run' = run /\ job' = job /\ attempt' = [attempt EXCEPT ![j] = "CREATED"]
            BY <2>4 DEF CreateJobAttempt
        <3>3. RowsOK'
            BY <1>1, <2>2, <3>1, <3>2, InsertGood
        <3>4. PICK rest \in SUBSET Jobs : rest = th[Starter].todo \ {j}
            BY <1>1 DEF Frames
        <3>5. PICK f : f = [th[Starter] EXCEPT !.todo = rest]
            OBVIOUS
        <3>6. f \in Frames /\ f.pc = "startJobs"
            BY <1>1, <1>3, <3>5, TodoFrame, StartPlacesPlain DEF startRun_Jobs, At, PlainPlaces
        <3>7. GotoWith(Starter, f)
            BY <2>4, <3>4, <3>5
        <3> QED
            BY <1>1, <2>4, <3>1, <3>3, <3>6, <3>7, GotoWithGood, StartPlacesPlain DEF ThreadsInv
    <2> QED
        BY <1>3, <2>1, <2>3, <2>4 DEF startRun_Jobs
<1>4. ASSUME At(Starter, "startDeps"), UNCHANGED <<th, sig>>, NEW pair \in PlannedDeps,
             RecordJobDependency(pair[1], pair[2])
      PROVE  Good(Starter)
    <2>1. pair[1] \in Jobs /\ pair[2] \in Jobs
        BY DEF PlannedDeps
    <2>2. [StoreNext]_storeVars /\ run' = run /\ job' = job /\ attempt' = attempt
        BY <1>4, <2>1 DEF StoreNext, JobNext, RecordJobDependency
    <2> QED
        BY <1>1, <1>4, <2>1, <2>2, InsertGood
<1>5. ASSUME PlannedDeps \subseteq deps, UNCHANGED <<storeVars, sig>>,
             GotoWith(Starter, IF Roots = {} THEN [NewFrame EXCEPT !.pc = "startQueued"]
                               ELSE [NewFrame EXCEPT !.pc = "queueJob", !.job = FirstOf(Roots),
                                                     !.todo = Roots \ {FirstOf(Roots)}])
      PROVE  Good(Starter)
    <2>1. CASE Roots = {}
        <3>1. Finish(Starter, "startQueued")
            BY <1>5, <2>1 DEF Finish
        <3> QED
            BY <1>1, <1>5, <3>1, FinishGood, StartPlacesPlain DEF ThreadsInv
    <2>2. CASE Roots # {}
        <3>1. PICK j \in Roots : j = FirstOf(Roots)
            BY <2>2, FirstOfRange DEF Roots
        <3>2. PICK rest \in SUBSET Roots : rest = Roots \ {j}
            OBVIOUS
        <3>3. PICK f : f = [NewFrame EXCEPT !.pc = "queueJob", !.job = j, !.todo = rest]
            OBVIOUS
        <3>4. j \in Jobs /\ rest \in SUBSET Jobs /\ Ready(j)
            BY <1>5 DEF Roots, Ready
        <3>5. f \in Frames /\ f.pc = "queueJob" /\ f.job = j /\ f.todo = rest
            BY <3>3, <3>4 DEF NewFrame, Frames, Places, Absent
        <3>6. FrameOK(Starter, f)
            BY <3>4, <3>5, ThreadKinds DEF FrameOK, CancelPlaces
        <3> QED
            BY <1>1, <1>5, <2>2, <3>1, <3>2, <3>3, <3>6, ReadGood
    <2> QED
        BY <2>1, <2>2
<1> QED
    BY <1>2, <1>3, <1>4, <1>5 DEF startRun_Dependencies

\* startRun and failRun.
LEMMA StartGood ==
    ASSUME ThreadsInv, FrameOK(Starter, th[Starter]), startRun
    PROVE  Good(Starter)
<1>1. Starter \in Threads /\ th[Starter] \in Frames /\ HasLease(Starter) /\ Starter \in Mains \union {Starter}
    BY ThreadKinds DEF FrameOK, HasLease, Threads
<1>2. CASE startRun_Create
    <2>1. [StoreNext]_storeVars
        BY <1>2 DEF startRun_Create, StoreNext, RunNext
    <2>2. RowsOK'
        BY <1>2, <2>1, RowsStep DEF startRun_Create, CreateRun, ThreadsInv
    <2> QED
        BY <1>1, <1>2, <2>1, <2>2, GotoGood, StartPlacesPlain DEF startRun_Create
<1>3. CASE startRun_Planning
    BY <1>1, <1>3, TryRunGood, StartPlacesPlain DEF startRun_Planning
<1>4. CASE startRun_Plan
    <2>1. CASE Goto(Starter, "failRunPlan")
        BY <1>1, <1>4, <2>1, RowsUnread, GotoGood, StartPlacesPlain DEF startRun_Plan, ThreadsInv, storeVars
    <2>2. CASE GotoWith(Starter, [NewFrame EXCEPT !.pc = "startJobs", !.todo = Jobs])
        <3>1. PICK f : f = [NewFrame EXCEPT !.pc = "startJobs", !.todo = Jobs]
            OBVIOUS
        <3>2. f \in Frames /\ f.pc = "startJobs"
            BY <1>1, <3>1, TodoFrame, StartPlacesPlain DEF PlainPlaces
        <3>3. f.pc \in PlainPlaces
            BY <3>2, StartPlacesPlain
        <3>4. UNCHANGED <<storeVars, sig>>
            BY <1>4 DEF startRun_Plan
        <3> QED
            BY <1>1, <2>2, <3>1, <3>2, <3>3, <3>4, RowsUnread, GotoWithGood DEF ThreadsInv, storeVars
    <2> QED
        BY <1>4, <2>1, <2>2 DEF startRun_Plan
<1>5. CASE failRun
    <2>1. PICK next \in {"PLAN_FAILED", "FAILED"}, place \in {"failRun", "startReport"} :
              /\ TransitionRunState(next) \/ UNCHANGED storeVars
              /\ Goto(Starter, place) /\ UNCHANGED sig
        BY <1>5 DEF failRun
    <2>2. [StoreNext]_storeVars /\ RowsOK'
        BY <2>1, RunWrite, RowsUnread DEF ThreadsInv, storeVars
    <2> QED
        BY <1>1, <2>1, <2>2, GotoGood, StartPlacesPlain
<1>6. CASE startRun_Queued
    BY <1>1, <1>6, TryRunGood, StartPlacesPlain DEF startRun_Queued
<1>7. CASE startRun_Report
    BY <1>1, <1>7, ReportGood DEF startRun_Report
<1> QED
    BY <1>1, <1>2, <1>3, <1>4, <1>5, <1>6, <1>7, RecordPlanGood, QueueJobGood DEF startRun

\* The plain places of CancelRun.
LEMMA CancelPlacesPlain ==
    /\ {"cancelRun", "cancelReport", "cancelList", "finCancelRead"} \subseteq PlainPlaces
    /\ CancelPlaces \subseteq Places
BY DEF PlainPlaces, Places, RestingPlaces, JobPlaces, QueuePlaces, CancelPlaces

\* CancelRun's loop, at a job of the plan.
LEMMA CancelLoopFrame ==
    ASSUME NEW f \in Frames, f.pc \in CancelPlaces, f.job \in Jobs,
           f.pc = "canceledJob" => attempt[f.job] = "CANCELED"
    PROVE  FrameOK(Canceler, f)
BY ThreadKinds DEF FrameOK, CancelPlaces, QueuePlaces

\* The same after a step.
LEMMA CancelLoopFrameNext ==
    ASSUME NEW f \in Frames, f.pc \in CancelPlaces, f.job \in Jobs,
           f.pc = "canceledJob" => attempt'[f.job] = "CANCELED"
    PROVE  FrameOK(Canceler, f)'
BY ThreadKinds DEF FrameOK, CancelPlaces, QueuePlaces

\* The next turn of CancelRun's loop.
LEMMA CancelNextFrame ==
    ASSUME th[Canceler] \in Frames, NEW f, f = NextJob(Canceler, "cancelAttempt", "finCancelRead")
    PROVE  FrameOK(Canceler, f)
<1>1. CASE th[Canceler].todo = {}
    <2>1. f \in Frames /\ f.pc = "finCancelRead"
        BY <1>1, NewFrameType, CancelPlacesPlain DEF NextJob, PlainPlaces
    <2> QED
        BY <2>1, ThreadKinds DEF FrameOK, JobPlaces, QueuePlaces, CancelPlaces
<1>2. CASE th[Canceler].todo # {}
    <2>1. PICK j : j = FirstOf(th[Canceler].todo)
        OBVIOUS
    <2>2. j \in Jobs
        BY <1>2, <2>1, FirstOfRange DEF Frames
    <2>3. PICK rest \in SUBSET Jobs : rest = th[Canceler].todo \ {j}
        BY DEF Frames
    <2>4. f = [th[Canceler] EXCEPT !.pc = "cancelAttempt", !.job = j, !.todo = rest]
        BY <1>2, <2>1, <2>3 DEF NextJob
    <2>5. "cancelAttempt" \in Places
        BY DEF Places
    <2>6. f \in Frames /\ f.pc = "cancelAttempt" /\ f.job = j
        BY <2>2, <2>4, <2>5 DEF Frames
    <2> QED
        BY <2>2, <2>6, CancelLoopFrame DEF CancelPlaces
<1> QED
    BY <1>1, <1>2

\* CancelRun: a queued job is canceled only after its attempt was.
LEMMA CancelJobGood ==
    ASSUME ThreadsInv, FrameOK(Canceler, th[Canceler]), CancelRun_Job
    PROVE  Good(Canceler)
<1>1. th[Canceler].pc \in CancelPlaces
    BY DEF CancelRun_Job, transitionJobAndAttempt, At, CancelPlaces
<1>2. /\ Canceler \in Threads /\ th[Canceler] \in Frames /\ HasLease(Canceler)
      /\ th[Canceler].job \in Jobs
    BY <1>1, ThreadKinds DEF FrameOK, HasLease, Threads, JobPlaces
<1>3. \A place \in CancelPlaces :
          /\ [th[Canceler] EXCEPT !.pc = place] \in Frames
          /\ [th[Canceler] EXCEPT !.pc = place].pc = place
          /\ [th[Canceler] EXCEPT !.pc = place].job = th[Canceler].job
    BY <1>2, CancelPlacesPlain, GotoFrame
<1>4. ASSUME NEW place \in CancelPlaces, NEW next \in {"CANCEL_REQUESTED", "CANCELED"},
             TryAttempt(Canceler, th[Canceler].job, next, place),
             place = "canceledJob" => next = "CANCELED"
      PROVE  Good(Canceler)
    <2>1. PICK f : f = [th[Canceler] EXCEPT !.pc = place]
        OBVIOUS
    <2>2. ASSUME TransitionJobAttemptState(th[Canceler].job, next) PROVE FrameOK(Canceler, f)'
        <3>1. attempt'[th[Canceler].job] = next
            BY <1>2, <2>2, AttemptWrite
        <3> QED
            <4>1. f \in Frames /\ f.pc = place /\ f.job = th[Canceler].job
                BY <1>3, <2>1
            <4>2. f.pc = "canceledJob" => attempt'[f.job] = "CANCELED"
                BY <1>4, <3>1, <4>1
            <4> QED
                BY <1>2, <4>1, <4>2, CancelLoopFrameNext
    <2> QED
        BY <1>2, <1>4, <2>1, <2>2, TryAttemptGood
<1>5. ASSUME NEW place \in CancelPlaces \ {"canceledJob"}, NEW next \in {"CANCEL_REQUESTED", "CANCELED"},
             TryJob(Canceler, th[Canceler].job, next, place),
             next = "CANCELED" => attempt[th[Canceler].job] = "CANCELED"
      PROVE  Good(Canceler)
    <2>1. PICK f : f = [th[Canceler] EXCEPT !.pc = place]
        OBVIOUS
    <2>2. FrameOK(Canceler, f)'
        BY <1>2, <1>3, <2>1, CancelLoopFrameNext
    <2> QED
        BY <1>2, <1>5, <2>1, <2>2, TryJobGood
<1>6. CASE transitionJobAndAttempt(Canceler, th[Canceler].job, "CANCEL_REQUESTED",
                                   <<"cancelAttempt", "cancelJob", "cancelQueued">>)
    BY <1>4, <1>5, <1>6 DEF transitionJobAndAttempt, CancelPlaces
<1>7. CASE transitionJobAndAttempt(Canceler, th[Canceler].job, "CANCELED",
                                   <<"canceledAttempt", "canceledJob", "cancelNext">>)
    <2>1. At(Canceler, "canceledJob") => attempt[th[Canceler].job] = "CANCELED"
        BY DEF FrameOK, At
    <2> QED
        BY <1>4, <1>5, <1>7, <2>1 DEF transitionJobAndAttempt, CancelPlaces
<1>8. CASE Goto(Canceler, "canceledAttempt") /\ UNCHANGED <<storeVars, sig>>
    <2>1. PICK f : f = [th[Canceler] EXCEPT !.pc = "canceledAttempt"]
        OBVIOUS
    <2>2. "canceledAttempt" \in CancelPlaces
        BY DEF CancelPlaces
    <2>3. FrameOK(Canceler, f)
        BY <1>2, <1>3, <2>1, <2>2, CancelLoopFrame
    <2> QED
        BY <1>2, <1>8, <2>1, <2>3, ReadGood DEF Goto, GotoWith
<1>9. CASE /\ GotoWith(Canceler, NextJob(Canceler, "cancelAttempt", "finCancelRead"))
           /\ UNCHANGED <<storeVars, sig>>
    <2>1. PICK f : f = NextJob(Canceler, "cancelAttempt", "finCancelRead")
        OBVIOUS
    <2>2. FrameOK(Canceler, f)
        BY <1>2, <2>1, CancelNextFrame
    <2> QED
        BY <1>2, <1>9, <2>1, <2>2, ReadGood
<1> QED
    BY <1>6, <1>7, <1>8, <1>9 DEF CancelRun_Job

\* CancelRun.
LEMMA CancelGood ==
    ASSUME ThreadsInv, FrameOK(Canceler, th[Canceler]), CancelRun \/ CancelRun_Read
    PROVE  Good(Canceler)
<1>1. Canceler \in Threads /\ th[Canceler] \in Frames /\ HasLease(Canceler)
    BY ThreadKinds DEF FrameOK, HasLease, Threads
<1>2. CASE CancelRun_Read
    BY <1>1, <1>2, RowsUnread, GotoGood, CancelPlacesPlain DEF CancelRun_Read, ThreadsInv, storeVars
<1>3. CASE CancelRun_Request
    BY <1>1, <1>3, TryRunGood, CancelPlacesPlain DEF CancelRun_Request
<1>4. CASE CancelRun_Report
    BY <1>1, <1>4, ReportGood, CancelPlacesPlain DEF CancelRun_Report
<1>5. CASE CancelRun_List
    <2>1. PICK active \in SUBSET Jobs : active = {j \in Jobs : job[j] \in RunningJobStates \union {"QUEUED"}}
        OBVIOUS
    <2>2. CASE active = {}
        <3>1. Finish(Canceler, "finCancelRead") /\ UNCHANGED <<storeVars, sig>>
            BY <1>5, <2>1, <2>2 DEF CancelRun_List, Finish
        <3> QED
            BY <1>1, <3>1, FinishGood, CancelPlacesPlain DEF ThreadsInv
    <2>3. CASE active # {}
        <3>1. PICK j \in Jobs : j = FirstOf(active)
            BY <2>3, FirstOfRange
        <3>2. PICK rest \in SUBSET Jobs, queued \in SUBSET Jobs :
                  rest = active \ {j} /\ queued = {i \in active : job[i] = "QUEUED"}
            OBVIOUS
        <3>3. PICK f : f = [NewFrame EXCEPT !.pc = "cancelAttempt", !.job = j, !.todo = rest, !.queued = queued]
            OBVIOUS
        <3>4. f \in Frames /\ f.pc = "cancelAttempt" /\ f.job = j
            BY <3>3 DEF NewFrame, Frames, Places, Absent
        <3>5. FrameOK(Canceler, f)
            BY <3>4, CancelLoopFrame DEF CancelPlaces
        <3>6. GotoWith(Canceler, f) /\ UNCHANGED <<storeVars, sig>>
            BY <1>5, <2>1, <2>3, <3>1, <3>2, <3>3 DEF CancelRun_List
        <3> QED
            BY <1>1, <3>5, <3>6, ReadGood
    <2> QED
        BY <2>2, <2>3
<1> QED
    BY <1>1, <1>2, <1>3, <1>4, <1>5, CancelJobGood, FinalizeCancelGood DEF CancelRun

\* Every handler.
LEMMA HandlerGood ==
    ASSUME ThreadsInv, NEW t \in Threads, FrameOK(t, th[t]), Handler(t)
    PROVE  Good(t)
<1>1. CASE t \in Mains /\ (GrantSteps(t) \/ AckSteps(t) \/ CompleteSteps(t) \/ CancelAckSteps(t))
    BY <1>1, GrantGood, AckGood, CompleteGood, CancelAckGood
<1>2. CASE t \in Mains \union Ticks /\ HeartbeatSteps(t)
    BY <1>2, HeartbeatGood
<1>3. CASE t = Starter /\ startRun
    BY <1>3, StartGood
<1>4. CASE t = Canceler /\ CancelRun
    BY <1>4, CancelGood
<1> QED
    BY <1>1, <1>2, <1>3, <1>4 DEF Handler

\* A command that ends, a ticker that fires, a runner that dies.
LEMMA RunnerGood ==
    ASSUME ThreadsInv, \A t \in Threads : FrameOK(t, th[t]),
           NEW l \in Leases, CommandEnds(l) \/ TickerFires(l) \/ RunnerCrashes(l)
    PROVE  \E t \in Threads : Good(t)
<1>1. /\ Main(l) \in Threads /\ Tick(l) \in Threads
      /\ Main(l) \in Mains /\ LeaseOf(Main(l)) = l /\ LeaseOf(Tick(l)) = l
    BY ThreadKinds DEF Threads
<1>2. th[Main(l)] \in Frames /\ th[Tick(l)] \in Frames
    BY <1>1 DEF ThreadsInv
<1>3. th[Main(l)].pc \in {"exec", "granted"}
    BY DEF CommandEnds, TickerFires, RunnerCrashes, At
<1>4. leaseState[l] # Absent
    BY <1>1, <1>3 DEF FrameOK, WorkerPlaces
<1>5. HasLease(Main(l)) /\ HasLease(Tick(l))
    BY <1>1, <1>4 DEF HasLease
<1>6. CASE CommandEnds(l) /\ sig[l]
    BY <1>1, <1>5, <1>6, FinishGood, WorkerPlacesPlain DEF CommandEnds, ThreadsInv
<1>7. CASE CommandEnds(l) /\ ~sig[l]
    <2>1. PICK s \in {"SUCCEEDED", "FAILED"} : GotoWith(Main(l), [NewFrame EXCEPT !.pc = "compCheck", !.status = s])
        BY <1>7 DEF CommandEnds
    <2>2. PICK f : f = [NewFrame EXCEPT !.pc = "compCheck", !.status = s]
        OBVIOUS
    <2>3. f \in Frames /\ f.pc = "compCheck"
        BY <2>2 DEF NewFrame, Frames, Places, Absent
    <2>4. UNCHANGED <<storeVars, sig>>
        BY <1>7 DEF CommandEnds
    <2>5. f.pc \in PlainPlaces
        BY <2>3, WorkerPlacesPlain
    <2> QED
        BY <1>1, <1>5, <2>1, <2>2, <2>3, <2>4, <2>5, RowsUnread, GotoWithGood DEF ThreadsInv, storeVars
<1>8. CASE TickerFires(l)
    <2>1. Goto(Tick(l), "hbLease") /\ UNCHANGED <<storeVars, sig>>
        BY <1>8 DEF TickerFires
    <2> QED
        BY <1>1, <1>2, <1>5, <2>1, RowsUnread, GotoGood, HeartbeatPlacesPlain DEF ThreadsInv, storeVars
<1>9. CASE RunnerCrashes(l)
    BY <1>1, <1>5, <1>9, FinishGood, WorkerPlacesPlain DEF RunnerCrashes, ThreadsInv
<1> QED
    BY <1>6, <1>7, <1>8, <1>9

\* A request that is cut short.
LEMMA AbortGood ==
    ASSUME ThreadsInv, NEW t \in Threads, FrameOK(t, th[t]), RequestAborts(t)
    PROVE  Good(t)
<1>1. th[t].pc # "idle" /\ UNCHANGED storeVars /\ Fails(t)
    BY DEF RequestAborts, InRequest, RestingPlaces
<1>2. t \in Ticks => HasLease(t)
    BY <1>1 DEF FrameOK, HasLease
<1> QED
    BY <1>1, <1>2, FailsGood

\* The sweep, and the clock, keep the rows in order.
LEMMA ClockRows ==
    ASSUME SystemInv,
           \/ \E l \in Leases : ExpireLease(l) \/ LeaseFallsDue(l)
           \/ \E j \in Jobs : VisibilityLapses(j)
    PROVE  [StoreNext]_storeVars /\ RowsOK'
<1>1. ASSUME NEW l \in Leases, ExpireLease(l) PROVE [StoreNext]_storeVars /\ RowsOK'
    <2>1. [StoreNext]_storeVars
        BY <1>1 DEF StoreNext, LeaseNext
    <2>2. Live(l)
        BY <1>1 DEF ExpireLease
    <2>3. leaseState[l] # Absent
        BY <2>2 DEF Live, LiveLeaseStates, Absent
    <2>4. PICK j \in Jobs : j = leaseJob[l] /\ job[j] \notin Unqueued /\ attempt[j] \notin Unqueued
        BY <2>3 DEF SystemInv, StoreInv, GrantedOnQueued
    <2>5. /\ run' = run
          /\ attempt' = attempt \/ attempt' = [attempt EXCEPT ![j] = "QUEUED"]
          /\ job' = job \/ job' = [job EXCEPT ![j] = "QUEUED"]
        BY <1>1, <2>4 DEF ExpireLease
    <2>6. \A i \in Jobs : /\ attempt'[i] = attempt[i] \/ i = j
                          /\ job'[i] = job[i] \/ (i = j /\ job'[i] = "QUEUED")
        BY <2>5 DEF SystemInv, StoreInv, StoreTypeOK
    <2> QED
        BY <2>1, <2>4, <2>5, <2>6, RowsStep DEF SystemInv
<1>2. ASSUME NEW l \in Leases, LeaseFallsDue(l) PROVE [StoreNext]_storeVars /\ RowsOK'
    BY <1>2, RowsUnread DEF LeaseFallsDue, StoreNext, LeaseNext, SystemInv
<1>3. ASSUME NEW j \in Jobs, VisibilityLapses(j) PROVE [StoreNext]_storeVars /\ RowsOK'
    BY <1>3, RowsUnread DEF VisibilityLapses, StoreNext, JobNext, SystemInv
<1> QED
    BY <1>1, <1>2, <1>3

\* A good step of one thread leaves the frames of all threads in order.
LEMMA GoodKeeps ==
    ASSUME ThreadsInv, \A t \in Threads : FrameOK(t, th[t]), NEW u \in Threads, Good(u)
    PROVE  ThreadsInv' /\ (\A t \in Threads : FrameOK(t, th[t]))'
<1>1. PICK f : FrameOK(u, f)' /\ th' = [th EXCEPT ![u] = f]
    BY DEF Good
<1>2. f \in Frames
    BY <1>1 DEF FrameOK
<1>3. ThreadsInv'
    BY <1>1, <1>2, StoreInvStep DEF Good, ThreadsInv
<1>4. ASSUME NEW t \in Threads PROVE FrameOK(t, th[t])'
    <2>1. PICK g : g = th[t]
        OBVIOUS
    <2>2. FrameOK(t, g)
        BY <2>1
    <2>3. FrameOK(t, g)'
        BY <2>2, FrameStays DEF Good, ThreadsInv
    <2>4. CASE t = u
        <3>1. th'[t] = f
            BY <1>1, <2>4 DEF ThreadsInv
        <3> QED
            BY <1>1, <2>4, <3>1 DEF FrameOK
    <2>5. CASE t # u
        <3>1. th'[t] = g
            BY <1>1, <2>1, <2>5 DEF ThreadsInv
        <3> QED
            BY <2>3, <3>1 DEF FrameOK
    <2> QED
        BY <2>4, <2>5
<1> QED
    BY <1>3, <1>4

(***************************************************************************)
(* The invariant is inductive, and every step is a step of the store.      *)
(***************************************************************************)

\* It holds at the start: nobody is inside a request and there are no rows.
LEMMA SystemInit == Init => SystemInv
<1> SUFFICES ASSUME Init PROVE SystemInv
    OBVIOUS
<1>1. StoreInv
    BY TypeInit, CurrentInit DEF Init, StoreInit, StoreInv, GrantedOnQueued, Absent
<1>2. RowsOK
    BY DEF Init, StoreInit, RowsOK, QueuedWasReady, SettledResultsAgree, SuccessIsHonest, Unqueued, Absent
<1>3. NewFrame \in Frames /\ NewFrame.pc = "idle"
    BY DEF NewFrame, Frames, Places, RestingPlaces, Absent
<1>4. th \in [Threads -> Frames] /\ \A t \in Threads : th[t] = NewFrame
    BY <1>3 DEF Init
<1>5. ASSUME NEW t \in Threads PROVE FrameOK(t, th[t])
    BY <1>3, <1>4 DEF FrameOK, WorkerPlaces, JobPlaces, QueuePlaces, CancelPlaces
<1> QED
    BY <1>1, <1>2, <1>4, <1>5, BoundsAssumption DEF SystemInv, Init

\* Every step of the system keeps it, and is one transaction of the store or
\* leaves the store alone.
LEMMA SystemStep == SystemInv /\ [Next]_vars => SystemInv' /\ [StoreNext]_storeVars
<1> SUFFICES ASSUME SystemInv, [Next]_vars PROVE SystemInv' /\ [StoreNext]_storeVars
    OBVIOUS
<1> DEFINE Counted == cancels' \in 0 .. MaxCancels /\ crashes' \in 0 .. MaxCrashes /\ aborts' \in 0 .. MaxAborts
<1>0. ThreadsInv /\ \A t \in Threads : FrameOK(t, th[t])
    BY DEF SystemInv, ThreadsInv
<1>1. /\ cancels \in 0 .. MaxCancels /\ crashes \in 0 .. MaxCrashes /\ aborts \in 0 .. MaxAborts
      /\ UNCHANGED bounds => Counted
    BY DEF SystemInv, bounds
<1>2. ASSUME NEW t \in Threads, Good(t), Counted PROVE SystemInv' /\ [StoreNext]_storeVars
    BY <1>0, <1>2, GoodKeeps DEF Good, SystemInv, ThreadsInv
<1>3. ASSUME [StoreNext]_storeVars, RowsOK', UNCHANGED <<th, sig, bounds>>
      PROVE  SystemInv' /\ [StoreNext]_storeVars
    <2>1. StoreInv'
        BY <1>0, <1>3, StoreInvStep DEF ThreadsInv
    <2>2. ASSUME NEW t \in Threads PROVE FrameOK(t, th[t])'
        <3>1. PICK f : f = th[t]
            OBVIOUS
        <3>2. FrameOK(t, f)'
            BY <1>0, <1>3, <3>1, FrameStays DEF ThreadsInv
        <3>3. th'[t] = f
            BY <1>3, <3>1
        <3> QED
            BY <3>2, <3>3 DEF FrameOK
    <2> QED
        BY <1>0, <1>1, <1>3, <2>1, <2>2 DEF SystemInv, ThreadsInv
<1>4. ASSUME NEW t \in Threads, Handler(t) PROVE SystemInv' /\ [StoreNext]_storeVars
    BY <1>0, <1>1, <1>2, <1>4, HandlerGood DEF Handler
<1>5. ASSUME NEW l \in Leases, CommandEnds(l) \/ TickerFires(l) PROVE SystemInv' /\ [StoreNext]_storeVars
    <2>1. UNCHANGED bounds
        BY <1>5 DEF CommandEnds, TickerFires
    <2> QED
        BY <1>0, <1>1, <1>2, <1>5, <2>1, RunnerGood
<1>6. CASE CancelRequested
    <2>1. Counted
        BY <1>1, <1>6, BoundsAssumption DEF CancelRequested
    <2>2. Canceler \in Threads /\ CancelRun_Read
        BY <1>6 DEF CancelRequested, Threads
    <2> QED
        BY <1>0, <1>2, <2>1, <2>2, CancelGood
<1>7. ASSUME NEW l \in Leases, Sweep(l) \/ LeaseTimesOut(l) PROVE SystemInv' /\ [StoreNext]_storeVars
    <2>1. (ExpireLease(l) \/ LeaseFallsDue(l)) /\ UNCHANGED <<th, sig, bounds>>
        BY <1>7 DEF Sweep, LeaseTimesOut
    <2> QED
        BY <1>3, <2>1, ClockRows
<1>8. ASSUME NEW j \in Jobs, VisibilityTimesOut(j) PROVE SystemInv' /\ [StoreNext]_storeVars
    <2>1. VisibilityLapses(j) /\ UNCHANGED <<th, sig, bounds>>
        BY <1>8 DEF VisibilityTimesOut
    <2> QED
        BY <1>3, <2>1, ClockRows
<1>9. ASSUME NEW l \in Leases, RunnerCrashes(l) PROVE SystemInv' /\ [StoreNext]_storeVars
    <2>1. Counted
        BY <1>1, <1>9, BoundsAssumption DEF RunnerCrashes
    <2> QED
        BY <1>0, <1>2, <1>9, <2>1, RunnerGood
<1>10. ASSUME NEW t \in Threads, RequestAborts(t) PROVE SystemInv' /\ [StoreNext]_storeVars
    <2>1. Counted
        BY <1>1, <1>10, BoundsAssumption DEF RequestAborts
    <2> QED
        BY <1>0, <1>2, <1>10, <2>1, AbortGood
<1>11. CASE UNCHANGED vars
    <2>1. UNCHANGED <<storeVars, th, sig, bounds>>
        BY <1>11 DEF vars
    <2>2. RowsOK'
        BY <1>0, <2>1, RowsUnread DEF ThreadsInv, storeVars
    <2> QED
        BY <1>3, <2>1, <2>2
<1> QED
    BY <1>4, <1>5, <1>6, <1>7, <1>8, <1>9, <1>10, <1>11 DEF Next

\* The invariant, of every behaviour.
THEOREM SystemInvariant == Spec => []SystemInv
BY SystemInit, SystemStep, PTL DEF Spec

(***************************************************************************)
(* What follows.                                                           *)
(***************************************************************************)

\* Every handler keeps its local variables in their ranges at every place it
\* can be at, whatever the other threads, crashes and late messages do.
THEOREM SystemTypeCorrect == Spec => []TypeOK
<1>1. SystemInv => TypeOK
    BY DEF SystemInv, StoreInv, TypeOK
<1> QED
    BY <1>1, SystemInvariant, PTL

\* The handlers, workers, runners and the sweeper touch the database only by
\* its transactions: the system implements the store's specification.
THEOREM SystemImplementsStore == Spec => ImplementsStore
<1>1. Init => StoreInit
    BY DEF Init
<1> QED
    BY <1>1, SystemInvariant, SystemStep, PTL DEF Spec, ImplementsStore, StoreSpec

\* So what is proved of the store holds of the system, in every interleaving of
\* its threads: the lease of an attempt is unique and the one its row names, a
\* satisfied dependency stays satisfied, and every row moves as Lifecycle says.
THEOREM SystemKeepsStorePromises ==
    Spec => /\ []LiveLeaseIsCurrent
            /\ []LeaseExclusive
            /\ DependenciesStaySatisfied
            /\ ImplementsLifecycle
BY SystemImplementsStore, LeaseIsCurrent, LeaseExclusivity, DependencyCheckIsStable,
   StoreImplementsLifecycle, PTL DEF ImplementsStore

\* No job is handed out before everything it depends on has SUCCEEDED, for any
\* plan (enqueueReadyDependents, startRun).
THEOREM DependenciesComeFirst == Spec => []DependencyOrder
<1>1. SystemInv => DependencyOrder
    BY DEF SystemInv, RowsOK, QueuedWasReady, Unqueued, Ready, DependencyOrder
<1> QED
    BY <1>1, SystemInvariant, PTL

\* A job that is SUCCEEDED or CANCELED has an attempt that is, although a handler
\* may be cut short between the two writes (transitionJobAndAttempt).  For FAILED
\* see ResultProofs.
THEOREM SettledResultsAlwaysAgree == Spec => []SettledResultsAgree
<1>1. SystemInv => SettledResultsAgree
    BY DEF SystemInv, RowsOK
<1> QED
    BY <1>1, SystemInvariant, PTL

\* A run that is SUCCESS has only SUCCEEDED required jobs, although the verdict
\* is written later than the list it is computed from is read
\* (finalizeRunIfReady).
THEOREM SuccessIsAlwaysHonest == Spec => []SuccessIsHonest
<1>1. SystemInv => SuccessIsHonest
    BY DEF SystemInv, RowsOK
<1> QED
    BY <1>1, SystemInvariant, PTL
=============================================================================
