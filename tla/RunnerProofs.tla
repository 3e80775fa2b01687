---------------------------- MODULE RunnerProofs ----------------------------
(***************************************************************************)
(* What holds while runners renew their leases in time: no lease, and no   *)
(* entry of the dispatch queue, runs out while its holder is at work       *)
(* (~SlowRunners).  The runner is built for this: it renews four times or  *)
(* more within the term of a lease (runner/main.go).  Without it, TLC      *)
(* shows how a lease that expires under its holder breaks these            *)
(* properties; with it, they hold for any plan, any number of              *)
(* cancellations, crashes, leases and, where nothing else is said, aborted *)
(* requests.                                                               *)
(***************************************************************************)
EXTENDS DeltaCIProofs

(***************************************************************************)
(* Where a runner is entitled to its attempt.                              *)
(***************************************************************************)

\* From the acknowledgement of the lease to the end of the command's report.
AckedPlaces ==
    {"ackAttempt", "ackJob", "ackRead", "ackRun",
     "hbLease", "hbTouch", "hbReadAttempt", "hbReadJob", "hbReadRun", "hbAttempt", "hbJob", "hbRun", "hbReply",
     "exec",
     "compCheck", "compReadAttempt", "compReadRun", "compRunAttempt", "compRunJob",
     "compUpAttempt", "compUpJob", "compAttempt", "compJob", "compLease",
     "cakCheck", "cakReadJob", "cakAttempt", "cakJob", "cakLease"}

\* And before it, from the grant.
HeldPlaces == AckedPlaces \union {"grantDispatched", "grantRun", "grantReport", "granted"}

\* A lease is overdue only when nobody is left who would renew it.
DueIsAbandoned == \A l \in Leases : due[l] => Abandoned(l)

\* A worker or runner that is at work on a lease holds it.
HeldIsLive ==
    \A l \in Leases :
        /\ th[Main(l)].pc \in HeldPlaces => Live(l)
        /\ th[Main(l)].pc \in AckedPlaces => leaseState[l] = "ACTIVE"

TimelyInv == SystemInv /\ DueIsAbandoned /\ HeldIsLive

(***************************************************************************)
(* What a step of a handler does to the leases.                            *)
(***************************************************************************)

\* The frame that a step leaves a thread with.
LEMMA FrameAfter ==
    ASSUME ThreadsInv, NEW t \in Threads
    PROVE  /\ \A place : Goto(t, place) => th'[t].pc = place /\ th'[t].job = th[t].job
           /\ \A f : GotoWith(t, f) => th'[t] = f
           /\ \A place : Finish(t, place) => th'[t].pc = place
<1>1. th[t] \in Frames /\ DOMAIN th = Threads
    BY DEF ThreadsInv
<1>2. ASSUME NEW place, Goto(t, place) PROVE th'[t].pc = place /\ th'[t].job = th[t].job
    BY <1>1, <1>2 DEF Goto, Frames
<1>3. ASSUME NEW f, GotoWith(t, f) PROVE th'[t] = f
    BY <1>1, <1>3 DEF GotoWith
<1>4. ASSUME NEW place, Finish(t, place) PROVE th'[t].pc = place
    BY <1>1, <1>4 DEF Finish, GotoWith, NewFrame
<1> QED
    BY <1>2, <1>3, <1>4

LeaseRows == <<leaseState, leaseJob, due>>

\* A step of t is a grant, a renewal or the end of its own lease, or leaves
\* all leases alone; and t is at work on its lease after it only if it was
\* before it, or the step granted it.
LeaseFlow(t) ==
    \/ /\ UNCHANGED LeaseRows
       /\ t \in Mains => /\ th'[t].pc \in HeldPlaces => th[t].pc \in HeldPlaces
                         /\ th'[t].pc \in AckedPlaces => th[t].pc \in AckedPlaces
    \/ /\ t \in Mains /\ th[t].pc = "grant" /\ th'[t].pc = "grantDispatched"
       /\ GrantLease(LeaseOf(t), th[t].job)
    \/ /\ t \in Mains => th[t].pc \in HeldPlaces
       /\ t \in Mains \union Ticks
       /\ RenewLease(LeaseOf(t))
    \/ /\ t \in Mains /\ th[t].pc \in {"compLease", "cakLease"} /\ th'[t].pc \notin HeldPlaces
       /\ \E next \in LeaseStates : CompleteLease(LeaseOf(t), next)

\* Leaving a request with an error, or returning from it, is no way to hold a lease.
LEMMA ExitFlow ==
    ASSUME ThreadsInv, NEW t \in Threads, UNCHANGED LeaseRows, Fails(t) \/ Returns(t)
    PROVE  LeaseFlow(t)
<1>1. t \in Mains => Finish(t, "idle") \/ Finish(t, "gone")
    BY ThreadKinds DEF Fails, Returns
<1>2. t \in Mains => th'[t].pc \in {"idle", "gone"}
    BY <1>1, FrameAfter
<1> QED
    BY <1>2 DEF LeaseFlow, HeldPlaces, AckedPlaces

\* transitionJobAndAttempt leaves the leases alone.
LEMMA BothFlow ==
    ASSUME ThreadsInv, NEW t \in Threads, NEW j, NEW next, NEW p, NEW q, NEW r,
           t \in Mains => {p, q} \subseteq AckedPlaces,
           transitionJobAndAttempt(t, j, next, <<p, q, r>>)
    PROVE  LeaseFlow(t)
<1>1. CASE At(t, p) /\ TryAttempt(t, j, next, q)
    <2>1. CASE TransitionJobAttemptState(j, next) /\ Goto(t, q)
        BY <1>1, <2>1 DEF LeaseFlow, At, HeldPlaces, TransitionJobAttemptState, leaseVars, LeaseRows
    <2>2. CASE Fails(t) /\ UNCHANGED storeVars
        BY <2>2, ExitFlow DEF storeVars, leaseVars, LeaseRows
    <2> QED
        BY <1>1, <2>1, <2>2 DEF TryAttempt
<1>2. CASE At(t, q) /\ TryJob(t, j, next, r)
    <2>1. CASE TransitionJobState(j, next) /\ Goto(t, r)
        BY <1>2, <2>1 DEF LeaseFlow, At, HeldPlaces, TransitionJobState, leaseVars, LeaseRows
    <2>2. CASE Fails(t) /\ UNCHANGED storeVars
        BY <2>2, ExitFlow DEF storeVars, leaseVars, LeaseRows
    <2> QED
        BY <1>2, <2>1, <2>2 DEF TryJob
<1> QED
    BY <1>1, <1>2 DEF transitionJobAndAttempt

\* A write of the run, or a report, leaves the leases alone.
LEMMA RunFlow ==
    ASSUME ThreadsInv, NEW t \in Threads, NEW next, NEW place,
           TryRun(t, next, place) \/ reportRun(t, place),
           t \in Mains => /\ place \in HeldPlaces => th[t].pc \in HeldPlaces
                          /\ place \in AckedPlaces => th[t].pc \in AckedPlaces
    PROVE  LeaseFlow(t)
<1>1. CASE Goto(t, place) /\ UNCHANGED LeaseRows
    BY <1>1, FrameAfter DEF LeaseFlow
<1>2. CASE (Fails(t) \/ Returns(t)) /\ UNCHANGED LeaseRows
    BY <1>2, ExitFlow
<1> QED
    BY <1>1, <1>2 DEF TryRun, reportRun, TransitionRunState, storeVars, leaseVars, LeaseRows

\* A step from one place to another that leaves the leases alone.
LEMMA GotoFlow ==
    ASSUME ThreadsInv, NEW t \in Threads, UNCHANGED LeaseRows, NEW place, Goto(t, place),
           t \in Mains => /\ place \in HeldPlaces => th[t].pc \in HeldPlaces
                          /\ place \in AckedPlaces => th[t].pc \in AckedPlaces
    PROVE  LeaseFlow(t)
BY FrameAfter DEF LeaseFlow

\* The same for a step that takes up a new frame.
LEMMA GotoWithFlow ==
    ASSUME ThreadsInv, NEW t \in Threads, UNCHANGED LeaseRows, NEW f, GotoWith(t, f),
           t \in Mains => /\ f.pc \in HeldPlaces => th[t].pc \in HeldPlaces
                          /\ f.pc \in AckedPlaces => th[t].pc \in AckedPlaces
    PROVE  LeaseFlow(t)
BY FrameAfter DEF LeaseFlow

\* What a thread without a lease of its own does is of no concern here.
LEMMA OtherFlow ==
    ASSUME NEW t, t \notin Mains, UNCHANGED LeaseRows
    PROVE  LeaseFlow(t)
BY DEF LeaseFlow

\* The worker.
LEMMA GrantFlow ==
    ASSUME ThreadsInv, NEW t \in Mains, GrantSteps(t)
    PROVE  LeaseFlow(t)
<1>1. t \in Threads
    BY DEF Threads
<1>2. CASE Dequeue(t)
    <2>1. UNCHANGED LeaseRows
        BY <1>2 DEF Dequeue, PurgeQueue, DequeueJobAttempt, storeVars, leaseVars, LeaseRows
    <2>2. CASE \E place \in {"dequeue", "idle"} : Goto(t, place)
        BY <1>1, <2>1, <2>2, GotoFlow DEF HeldPlaces, AckedPlaces
    <2>3. CASE \E j \in Jobs : GotoWith(t, [NewFrame EXCEPT !.pc = "grantRead", !.job = j])
        <3>1. \A j : [NewFrame EXCEPT !.pc = "grantRead", !.job = j].pc \notin HeldPlaces
            BY DEF NewFrame, HeldPlaces, AckedPlaces
        <3> QED
            BY <1>1, <2>1, <2>3, <3>1, GotoWithFlow DEF HeldPlaces
    <2> QED
        BY <1>2, <2>2, <2>3 DEF Dequeue
<1>3. CASE GrantLease_Read(t)
    <2>1. UNCHANGED LeaseRows
        BY <1>3 DEF GrantLease_Read, storeVars, leaseVars, LeaseRows
    <2> QED
        BY <1>1, <1>3, <2>1, ExitFlow, GotoFlow DEF GrantLease_Read, HeldPlaces, AckedPlaces
<1>4. CASE GrantLease_Grant(t)
    <2>1. CASE GrantLease(LeaseOf(t), th[t].job) /\ Goto(t, "grantDispatched")
        BY <1>1, <1>4, <2>1, FrameAfter DEF LeaseFlow, GrantLease_Grant, At
    <2>2. CASE Fails(t) /\ UNCHANGED storeVars
        BY <1>1, <2>2, ExitFlow DEF storeVars, leaseVars, LeaseRows
    <2> QED
        BY <1>4, <2>1, <2>2 DEF GrantLease_Grant
<1>5. CASE GrantLease_Dispatched(t)
    <2>1. [NewFrame EXCEPT !.pc = "grantRun"].pc = "grantRun"
        BY DEF NewFrame
    <2> QED
        BY <1>1, <1>5, <2>1, GotoWithFlow
           DEF GrantLease_Dispatched, AckJobAttemptDispatch, At, leaseVars, LeaseRows, HeldPlaces, AckedPlaces
<1>6. CASE GrantLease_Run(t)
    BY <1>1, <1>6, RunFlow DEF GrantLease_Run, At, HeldPlaces, AckedPlaces
<1>7. CASE GrantLease_Report(t)
    BY <1>1, <1>7, RunFlow DEF GrantLease_Report, At, HeldPlaces, AckedPlaces
<1> QED
    BY <1>2, <1>3, <1>4, <1>5, <1>6, <1>7 DEF GrantSteps

\* A renewal.
LEMMA RenewFlow ==
    ASSUME NEW t \in Mains \union Ticks, RenewLease(LeaseOf(t)), t \in Mains => th[t].pc \in HeldPlaces
    PROVE  LeaseFlow(t)
BY DEF LeaseFlow

\* The acknowledgement.
LEMMA AckFlow ==
    ASSUME ThreadsInv, NEW t \in Mains, AckSteps(t)
    PROVE  LeaseFlow(t)
<1>1. t \in Threads
    BY DEF Threads
<1>2. CASE AckLease_Acknowledge(t)
    <2>1. CASE AcknowledgeLease(LeaseOf(t))
        BY <1>2, <2>1, RenewFlow DEF AckLease_Acknowledge, AcknowledgeLease, At, HeldPlaces
    <2>2. CASE Fails(t) /\ UNCHANGED storeVars
        BY <1>1, <2>2, ExitFlow DEF storeVars, leaseVars, LeaseRows
    <2> QED
        BY <1>2, <2>1, <2>2 DEF AckLease_Acknowledge
<1>3. CASE AckLease_Start(t)
    BY <1>1, <1>3, BothFlow DEF AckLease_Start, AckedPlaces
<1>4. CASE AckLease_Read(t)
    BY <1>1, <1>4, GotoFlow DEF AckLease_Read, At, HeldPlaces, AckedPlaces, storeVars, leaseVars, LeaseRows
<1>5. CASE AckLease_Run(t)
    BY <1>1, <1>5, RunFlow DEF AckLease_Run, At, HeldPlaces, AckedPlaces
<1> QED
    BY <1>2, <1>3, <1>4, <1>5 DEF AckSteps

\* The check that opens a message.
LEMMA CheckFlow ==
    ASSUME ThreadsInv, NEW t \in Threads, NEW here \in AckedPlaces, NEW place, CheckLease(t, here, place)
    PROVE  LeaseFlow(t)
<1>1. UNCHANGED LeaseRows /\ th[t].pc \in AckedPlaces /\ th[t].pc \in HeldPlaces
    BY DEF CheckLease, At, HeldPlaces, storeVars, leaseVars, LeaseRows
<1> QED
    BY <1>1, ExitFlow, GotoFlow DEF CheckLease

\* The heartbeat, of the runner or of its ticker.
LEMMA HeartbeatFlow ==
    ASSUME ThreadsInv, NEW t \in Mains \union Ticks, HeartbeatSteps(t)
    PROVE  LeaseFlow(t) /\ InRequest(t)
<1>1. t \in Threads
    BY DEF Threads
<1>2. /\ th[t].pc \in {"hbLease", "hbTouch", "hbReadAttempt", "hbReadJob", "hbReadRun", "hbAttempt",
                       "hbJob", "hbRun", "hbReply"}
      /\ th[t].pc \in AckedPlaces /\ th[t].pc \in HeldPlaces
    BY DEF HeartbeatSteps, CheckLease, Heartbeat_Touch, Heartbeat_ReadAttempt, Heartbeat_ReadJob,
           Heartbeat_ReadRun, Heartbeat_Running, Heartbeat_Run, Heartbeat_Reply,
           transitionJobAndAttempt, At, HeldPlaces, AckedPlaces
<1>3. InRequest(t)
    BY <1>2 DEF InRequest, RestingPlaces
<1> SUFFICES LeaseFlow(t)
    BY <1>3
<1>4. CASE CheckLease(t, "hbLease", "hbTouch")
    BY <1>1, <1>4, CheckFlow DEF AckedPlaces
<1>5. CASE Heartbeat_Touch(t)
    <2>1. CASE TouchLeaseHeartbeat(LeaseOf(t))
        BY <1>2, <2>1, RenewFlow DEF TouchLeaseHeartbeat
    <2>2. CASE Fails(t) /\ UNCHANGED storeVars
        BY <1>1, <2>2, ExitFlow DEF storeVars, leaseVars, LeaseRows
    <2> QED
        BY <1>5, <2>1, <2>2 DEF Heartbeat_Touch
<1>6. ASSUME NEW f, GotoWith(t, f), UNCHANGED storeVars PROVE LeaseFlow(t)
    BY <1>1, <1>2, <1>6, GotoWithFlow DEF storeVars, leaseVars, LeaseRows
<1>7. CASE Heartbeat_ReadAttempt(t)
    BY <1>6, <1>7 DEF Heartbeat_ReadAttempt
<1>8. CASE Heartbeat_ReadJob(t)
    BY <1>6, <1>8 DEF Heartbeat_ReadJob
<1>9. CASE Heartbeat_ReadRun(t)
    BY <1>6, <1>9 DEF Heartbeat_ReadRun
<1>10. CASE Heartbeat_Running(t)
    <2>1. PICK r : transitionJobAndAttempt(t, JobOf(t), "RUNNING", <<"hbAttempt", "hbJob", r>>)
        BY <1>10 DEF Heartbeat_Running
    <2> QED
        BY <1>1, <2>1, BothFlow DEF AckedPlaces
<1>11. CASE Heartbeat_Run(t)
    BY <1>1, <1>2, <1>11, RunFlow DEF Heartbeat_Run
<1>12. CASE Heartbeat_Reply(t)
    BY <1>6, <1>12 DEF Heartbeat_Reply, Finish
<1> QED
    BY <1>4, <1>5, <1>7, <1>8, <1>9, <1>10, <1>11, <1>12 DEF HeartbeatSteps

\* The end of a request leaves the leases alone, and has no way back to work.
LEMMA EndFlow ==
    ASSUME ThreadsInv, NEW t \in Threads,
           enqueueReadyDependents(t) \/ finalizeRunIfReady(t) \/ finalizeCancelIfReady(t) \/ ReportVerdict(t)
    PROVE  LeaseFlow(t)
<1>1. UNCHANGED LeaseRows
    BY DEF enqueueReadyDependents, queueJobAttempt, queueJobAttempt_Skip, finalizeRunIfReady,
           finalizeCancelIfReady, ReportVerdict, reportRun, EnqueueJobAttempt, TransitionJobState,
           TransitionJobAttemptState, TransitionRunState, storeVars, leaseVars, LeaseRows
<1>2. CASE t \notin Mains
    BY <1>1, <1>2, OtherFlow
<1>3. CASE t \in Mains
    <2>1. t # Starter /\ t # Canceler /\ th[t] \in Frames
        BY <1>3, ThreadKinds DEF ThreadsInv
    <2> DEFINE Late == {"depNext", "depAttempt", "queueJob", "queueAttempt", "enqueue",
                        "finRead", "finList", "finWrite", "finReport",
                        "finCancelRead", "finCancelList", "finCancelWrite"}
    <2>2. Late \cap HeldPlaces = {} /\ AckedPlaces \subseteq HeldPlaces
        BY DEF HeldPlaces, AckedPlaces
    <2>3. ASSUME NEW f, GotoWith(t, f), f.pc \in Late PROVE LeaseFlow(t)
        BY <1>1, <2>2, <2>3, GotoWithFlow
    <2>4. ASSUME NEW place \in Late, Goto(t, place) PROVE LeaseFlow(t)
        BY <1>1, <2>2, <2>4, GotoFlow
    <2>5. ASSUME Returns(t) \/ Fails(t) PROVE LeaseFlow(t)
        BY <1>1, <2>5, ExitFlow
    <2>6. [NewFrame EXCEPT !.pc = "finRead"].pc = "finRead"
        BY DEF NewFrame
    <2>7. \A j : /\ [th[t] EXCEPT !.pc = "depNext", !.job = j].pc = "depNext"
                 /\ [th[t] EXCEPT !.pc = "depAttempt", !.job = j].pc = "depAttempt"
        BY <2>1 DEF Frames
    <2>8. ASSUME GotoWith(t, QueueLoop(t)) PROVE LeaseFlow(t)
        BY <2>1, <2>3, <2>6, <2>7, <2>8 DEF QueueLoop
    <2>9. CASE queueJobAttempt(t)
        BY <2>1, <2>4, <2>8, <2>9 DEF queueJobAttempt, queueJobAttempt_Skip
    <2>10. CASE enqueueReadyDependents(t) /\ At(t, "depNext")
        <3>1. PICK d, rest : /\ rest = [th[t] EXCEPT !.todo = th[t].todo \ {d}]
                             /\ \/ GotoWith(t, [rest EXCEPT !.pc = "depAttempt", !.job = d])
                                \/ GotoWith(t, [NewFrame EXCEPT !.pc = "finRead"])
                                \/ GotoWith(t, rest)
            BY <2>10 DEF enqueueReadyDependents, queueJobAttempt, At
        <3>2. rest.pc = "depNext" /\ [rest EXCEPT !.pc = "depAttempt", !.job = d].pc = "depAttempt"
            BY <2>1, <2>10, <3>1 DEF Frames, At
        <3> QED
            BY <2>3, <2>6, <3>1, <3>2
    <2>11. CASE enqueueReadyDependents(t) /\ At(t, "depAttempt")
        <3>1. GotoWith(t, QueueLoop(t)) \/ GotoWith(t, [th[t] EXCEPT !.pc = "queueJob"])
            BY <2>11 DEF enqueueReadyDependents, queueJobAttempt, At
        <3>2. [th[t] EXCEPT !.pc = "queueJob"].pc = "queueJob"
            BY <2>1 DEF Frames
        <3> QED
            BY <2>3, <2>8, <3>1, <3>2
    <2>12. CASE finalizeRunIfReady(t)
        <3>1. [th[t] EXCEPT !.pc = "finWrite", !.status = RunVerdict].pc = "finWrite"
            BY <2>1 DEF Frames
        <3> QED
            BY <2>3, <2>4, <2>5, <2>12, <3>1 DEF finalizeRunIfReady
    <2>13. CASE finalizeCancelIfReady(t)
        BY <2>4, <2>5, <2>13 DEF finalizeCancelIfReady
    <2>14. CASE ReportVerdict(t)
        BY <2>5, <2>14 DEF ReportVerdict, reportRun
    <2> QED
        BY <2>9, <2>10, <2>11, <2>12, <2>13, <2>14 DEF enqueueReadyDependents
<1> QED
    BY <1>2, <1>3

\* The completion.
LEMMA CompleteFlow ==
    ASSUME ThreadsInv, NEW t \in Mains, CompleteSteps(t)
    PROVE  LeaseFlow(t)
<1>1. t \in Threads /\ th[t] \in Frames
    BY DEF Threads, ThreadsInv
<1>2. CASE CheckLease(t, "compCheck", "compReadAttempt")
    BY <1>1, <1>2, CheckFlow DEF AckedPlaces
<1>3. ASSUME th[t].pc \in AckedPlaces, NEW f, GotoWith(t, f), UNCHANGED storeVars PROVE LeaseFlow(t)
    BY <1>1, <1>3, GotoWithFlow DEF HeldPlaces, storeVars, leaseVars, LeaseRows
<1>4. CASE Complete_ReadAttempt(t)
    BY <1>3, <1>4 DEF Complete_ReadAttempt, At, AckedPlaces
<1>5. CASE Complete_ReadRun(t)
    BY <1>3, <1>5 DEF Complete_ReadRun, At, AckedPlaces
<1>6. CASE Complete_Running(t) \/ Complete_Uploading(t) \/ Complete_Result(t)
    BY <1>1, <1>6, BothFlow DEF Complete_Running, Complete_Uploading, Complete_Result, AckedPlaces
<1>7. CASE Complete_Lease(t)
    <2>1. CASE CompleteLease(LeaseOf(t), "COMPLETED") /\ GotoWith(t, AfterComplete(t))
        <3>1. AfterComplete(t).pc \in {"finCancelRead", "depNext", "finRead"}
            BY AfterCompleteFrame DEF ThreadsInv, StoreInv
        <3> QED
            BY <1>1, <1>7, <2>1, <3>1, FrameAfter
               DEF LeaseFlow, Complete_Lease, At, HeldPlaces, AckedPlaces, LeaseStates
    <2>2. CASE Fails(t) /\ UNCHANGED storeVars
        BY <1>1, <2>2, ExitFlow DEF storeVars, leaseVars, LeaseRows
    <2> QED
        BY <1>7, <2>1, <2>2 DEF Complete_Lease
<1> QED
    BY <1>1, <1>2, <1>4, <1>5, <1>6, <1>7, EndFlow DEF CompleteSteps

\* The acknowledgement of a cancellation.
LEMMA CancelAckFlow ==
    ASSUME ThreadsInv, NEW t \in Mains, CancelAckSteps(t)
    PROVE  LeaseFlow(t)
<1>1. t \in Threads
    BY DEF Threads
<1>2. CASE CheckLease(t, "cakCheck", "cakReadJob")
    BY <1>1, <1>2, CheckFlow DEF AckedPlaces
<1>3. CASE CancelLease_ReadJob(t)
    <2>1. UNCHANGED LeaseRows
        BY <1>3 DEF CancelLease_ReadJob, storeVars, leaseVars, LeaseRows
    <2> QED
        BY <1>1, <1>3, <2>1, ExitFlow, GotoFlow DEF CancelLease_ReadJob, At, HeldPlaces, AckedPlaces
<1>4. CASE CancelLease_Cancel(t)
    BY <1>1, <1>4, BothFlow DEF CancelLease_Cancel, AckedPlaces
<1>5. CASE CancelLease_Lease(t)
    <2>1. CASE CompleteLease(LeaseOf(t), "CANCELED") /\ Goto(t, "finCancelRead")
        BY <1>1, <1>5, <2>1, FrameAfter
           DEF LeaseFlow, CancelLease_Lease, At, HeldPlaces, AckedPlaces, LeaseStates
    <2>2. CASE Fails(t) /\ UNCHANGED storeVars
        BY <1>1, <2>2, ExitFlow DEF storeVars, leaseVars, LeaseRows
    <2> QED
        BY <1>5, <2>1, <2>2 DEF CancelLease_Lease
<1> QED
    BY <1>2, <1>3, <1>4, <1>5 DEF CancelAckSteps

\* startRun never touches a lease.
LEMMA StartFlow == startRun => UNCHANGED LeaseRows
BY DEF startRun, startRun_Create, startRun_Planning, startRun_Plan, failRun, startRun_Jobs,
       startRun_Dependencies, queueJobAttempt, queueJobAttempt_Skip, startRun_Queued, startRun_Report,
       TryRun, reportRun, CreateRun, CreateJob, CreateJobAttempt, RecordJobDependency, EnqueueJobAttempt,
       TransitionRunState, TransitionJobState, TransitionJobAttemptState, storeVars, leaseVars, LeaseRows

\* Nor does CancelRun.
LEMMA CancelFlow == CancelRun \/ CancelRun_Read => UNCHANGED LeaseRows
BY DEF CancelRun, CancelRun_Read, CancelRun_Request, CancelRun_Report, CancelRun_List, CancelRun_Job,
       finalizeCancelIfReady, ReportVerdict, transitionJobAndAttempt, TryAttempt, TryJob, TryRun, reportRun,
       TransitionRunState, TransitionJobState, TransitionJobAttemptState, storeVars, leaseVars, LeaseRows

\* Every handler.
LEMMA HandlerFlow ==
    ASSUME ThreadsInv, NEW t \in Threads, Handler(t)
    PROVE  LeaseFlow(t) /\ (t \in Ticks => InRequest(t))
<1>1. CASE t \in Mains
    BY <1>1, GrantFlow, AckFlow, HeartbeatFlow, CompleteFlow, CancelAckFlow, ThreadKinds DEF Handler
<1>2. CASE t \in Ticks
    BY <1>2, HeartbeatFlow, ThreadKinds DEF Handler
<1>3. CASE t \in {Starter, Canceler}
    BY <1>3, StartFlow, CancelFlow, OtherFlow, ThreadKinds DEF Handler
<1> QED
    BY <1>1, <1>2, <1>3 DEF Threads

\* A runner that is gone takes no step.
LEMMA NotGone ==
    ASSUME NEW t \in Mains, Handler(t)
    PROVE  th[t].pc # "gone"
<1>1. CASE GrantSteps(t) \/ AckSteps(t)
    BY <1>1 DEF GrantSteps, Dequeue, GrantLease_Read, GrantLease_Grant, GrantLease_Dispatched, GrantLease_Run,
           GrantLease_Report, AckSteps, AckLease_Acknowledge, AckLease_Start, AckLease_Read, AckLease_Run,
           transitionJobAndAttempt, At
<1>2. CASE CompleteSteps(t)
    BY <1>2 DEF CompleteSteps, CheckLease, Complete_ReadAttempt, Complete_ReadRun, Complete_Running,
           Complete_Uploading, Complete_Result, Complete_Lease, enqueueReadyDependents, queueJobAttempt,
           finalizeRunIfReady, finalizeCancelIfReady, ReportVerdict, transitionJobAndAttempt, At
<1>3. CASE CancelAckSteps(t)
    BY <1>3 DEF CancelAckSteps, CheckLease, CancelLease_ReadJob, CancelLease_Cancel, CancelLease_Lease,
           transitionJobAndAttempt, At
<1>4. CASE HeartbeatSteps(t)
    BY <1>4 DEF HeartbeatSteps, CheckLease, Heartbeat_Touch, Heartbeat_ReadAttempt, Heartbeat_ReadJob,
           Heartbeat_ReadRun, Heartbeat_Running, Heartbeat_Run, Heartbeat_Reply, transitionJobAndAttempt, At
<1> QED
    BY <1>1, <1>2, <1>3, <1>4, ThreadKinds DEF Handler

(***************************************************************************)
(* The invariant of timely runners.                                        *)
(***************************************************************************)

\* What the invariant says of one lease.
Timely(l) ==
    /\ due[l] => Abandoned(l)
    /\ th[Main(l)].pc \in HeldPlaces => Live(l)
    /\ th[Main(l)].pc \in AckedPlaces => leaseState[l] = "ACTIVE"

\* The main thread and the ticker of a lease are different threads, and no
\* two leases share one.
LEMMA OwnThreads ==
    \A l, m \in Leases : /\ Main(l) = Main(m) => l = m
                         /\ Tick(l) = Tick(m) => l = m
                         /\ Main(l) # Tick(m)
BY ThreadKinds

\* The frame after a request, or at its start.
LEMMA FinishFrame ==
    ASSUME NEW t, NEW place, Finish(t, place)
    PROVE  \E f : th' = [th EXCEPT ![t] = f] /\ f.pc = place
<1>1. PICK f : f = [NewFrame EXCEPT !.pc = place]
    OBVIOUS
<1>2. f.pc = place
    BY <1>1 DEF NewFrame
<1> QED
    BY <1>1, <1>2 DEF Finish, GotoWith

\* A step that leaves the lease and its two threads alone.
LEMMA TimelyUntouched ==
    ASSUME NEW l \in Leases, Timely(l), leaseState'[l] = leaseState[l], due'[l] = due[l],
           th'[Main(l)] = th[Main(l)], th'[Tick(l)] = th[Tick(l)]
    PROVE  Timely(l)'
BY DEF Timely, Abandoned, At, InRequest, Live

\* A step of a handler.
LEMMA TimelyHandler ==
    ASSUME TimelyInv, NEW t \in Threads, Handler(t), NEW l \in Leases
    PROVE  Timely(l)'
<1>1. ThreadsInv /\ FrameOK(t, th[t]) /\ StoreTypeOK /\ Timely(l)
    BY DEF TimelyInv, SystemInv, ThreadsInv, StoreInv, DueIsAbandoned, HeldIsLive, Timely
<1>2. PICK f : th' = [th EXCEPT ![t] = f]
    BY <1>1, HandlerGood DEF Good
<1>3. \A u \in Threads : u # t => th'[u] = th[u]
    BY <1>1, <1>2 DEF ThreadsInv
<1>4. LeaseFlow(t) /\ (t \in Ticks => InRequest(t)) /\ (t \in Mains => th[t].pc # "gone")
    BY <1>1, HandlerFlow, NotGone
<1>5. Main(l) \in Threads /\ Tick(l) \in Threads /\ Main(l) \in Mains /\ Tick(l) \in Ticks
    BY ThreadKinds DEF Threads
<1>6. CASE t \notin {Main(l), Tick(l)}
    <2>1. t \in Mains \union Ticks => LeaseOf(t) \in Leases /\ LeaseOf(t) # l
        BY <1>6, ThreadKinds
    <2>2. leaseState'[l] = leaseState[l] /\ due'[l] = due[l]
        BY <1>1, <1>4, <2>1 DEF LeaseFlow, LeaseRows, GrantLease, RenewLease, CompleteLease, StoreTypeOK
    <2> QED
        BY <1>1, <1>3, <1>5, <1>6, <2>2, TimelyUntouched
<1>7. CASE t = Main(l)
    <2>1. ~due[l] /\ LeaseOf(t) = l /\ t \in Mains
        BY <1>1, <1>4, <1>5, <1>7, ThreadKinds DEF Timely, Abandoned, At
    <2>2. CASE /\ UNCHANGED LeaseRows
               /\ th'[t].pc \in HeldPlaces => th[t].pc \in HeldPlaces
               /\ th'[t].pc \in AckedPlaces => th[t].pc \in AckedPlaces
        BY <1>1, <1>7, <2>1, <2>2 DEF LeaseRows, Timely, Live
    <2>3. CASE GrantLease(l, th[t].job) /\ th'[t].pc = "grantDispatched"
        <3>1. leaseState'[l] = "GRANTED" /\ ~due'[l]
            BY <1>1, <2>3 DEF GrantLease, StoreTypeOK
        <3> QED
            BY <1>7, <2>3, <3>1 DEF Timely, Live, LiveLeaseStates, AckedPlaces
    <2>4. CASE RenewLease(l)
        <3>1. leaseState'[l] = "ACTIVE" /\ ~due'[l]
            BY <1>1, <2>4 DEF RenewLease, StoreTypeOK
        <3> QED
            BY <3>1 DEF Timely, Live, LiveLeaseStates
    <2>5. CASE th'[t].pc \notin HeldPlaces /\ due' = due
        BY <1>7, <2>1, <2>5 DEF Timely, HeldPlaces
    <2> QED
        BY <1>4, <2>1, <2>2, <2>3, <2>4, <2>5 DEF LeaseFlow, CompleteLease
<1>8. CASE t = Tick(l)
    <2>1. ~due[l] /\ LeaseOf(t) = l /\ t \in Ticks /\ t \notin Mains
        BY <1>1, <1>4, <1>5, <1>8, ThreadKinds DEF Timely, Abandoned
    <2>2. th'[Main(l)] = th[Main(l)]
        BY <1>3, <1>5, <1>8, ThreadKinds
    <2>3. CASE UNCHANGED LeaseRows
        BY <1>1, <2>1, <2>2, <2>3 DEF LeaseRows, Timely, Live
    <2>4. CASE RenewLease(l)
        <3>1. leaseState'[l] = "ACTIVE" /\ ~due'[l]
            BY <1>1, <2>4 DEF RenewLease, StoreTypeOK
        <3> QED
            BY <3>1 DEF Timely, Live, LiveLeaseStates
    <2> QED
        BY <1>4, <2>1, <2>3, <2>4 DEF LeaseFlow
<1> QED
    BY <1>6, <1>7, <1>8

\* A command that ends, a ticker that fires, a runner that dies, a request that
\* is cut short, a request to cancel.
LEMMA TimelyRunner ==
    ASSUME TimelyInv, NEW l \in Leases,
           \/ \E m \in Leases : CommandEnds(m) \/ TickerFires(m) \/ RunnerCrashes(m)
           \/ \E t \in Threads : RequestAborts(t)
           \/ CancelRequested
    PROVE  Timely(l)'
<1>1. ThreadsInv /\ Timely(l)
    BY DEF TimelyInv, SystemInv, ThreadsInv, DueIsAbandoned, HeldIsLive, Timely
<1>2. /\ \A m \in Leases : Main(m) \in Threads /\ Tick(m) \in Threads
      /\ Main(l) \in Mains /\ Canceler \in Threads
    BY ThreadKinds DEF Threads
<1>3. UNCHANGED <<leaseState, due>>
    BY DEF CommandEnds, TickerFires, RunnerCrashes, RequestAborts, CancelRequested, CancelRun_Read, storeVars, leaseVars
<1>4. ASSUME NEW m \in Leases, CommandEnds(m) PROVE Timely(l)'
    <2>1. PICK f : th' = [th EXCEPT ![Main(m)] = f] /\ f.pc \in {"cakCheck", "compCheck"}
        <3>1. CASE Finish(Main(m), "cakCheck")
            BY <3>1, FinishFrame
        <3>2. ASSUME NEW s, GotoWith(Main(m), [NewFrame EXCEPT !.pc = "compCheck", !.status = s])
              PROVE  \E f : th' = [th EXCEPT ![Main(m)] = f] /\ f.pc \in {"cakCheck", "compCheck"}
            <4>1. [NewFrame EXCEPT !.pc = "compCheck", !.status = s].pc = "compCheck"
                BY DEF NewFrame
            <4> QED
                BY <3>2, <4>1 DEF GotoWith
        <3> QED
            BY <1>4, <3>1, <3>2 DEF CommandEnds
    <2>2. th'[Tick(l)] = th[Tick(l)]
        BY <1>1, <1>2, <2>1, OwnThreads DEF ThreadsInv
    <2>3. CASE m = l
        <3>1. th'[Main(l)].pc \in {"cakCheck", "compCheck"} /\ th[Main(l)].pc = "exec"
            BY <1>1, <1>2, <1>4, <2>1, <2>3 DEF ThreadsInv, CommandEnds, At
        <3> QED
            BY <1>1, <1>3, <3>1 DEF Timely, Abandoned, At, Live, HeldPlaces, AckedPlaces
    <2>4. CASE m # l
        <3>1. th'[Main(l)] = th[Main(l)]
            BY <1>1, <1>2, <2>1, <2>4, OwnThreads DEF ThreadsInv
        <3> QED
            BY <1>1, <1>3, <2>2, <3>1, TimelyUntouched
    <2> QED
        BY <2>3, <2>4
<1>5. ASSUME NEW m \in Leases, TickerFires(m) PROVE Timely(l)'
    <2>1. PICK f : th' = [th EXCEPT ![Tick(m)] = f]
        BY <1>5 DEF TickerFires, Goto
    <2>2. th'[Main(l)] = th[Main(l)]
        BY <1>1, <1>2, <2>1, OwnThreads DEF ThreadsInv
    <2>3. CASE m = l
        <3>1. th[Main(l)].pc = "exec"
            BY <1>5, <2>3 DEF TickerFires, At
        <3> QED
            BY <1>1, <1>3, <2>2, <3>1 DEF Timely, Abandoned, At, Live
    <2>4. CASE m # l
        <3>1. th'[Tick(l)] = th[Tick(l)]
            BY <1>1, <1>2, <2>1, <2>4, OwnThreads DEF ThreadsInv
        <3> QED
            BY <1>1, <1>3, <2>2, <3>1, TimelyUntouched
    <2> QED
        BY <2>3, <2>4
<1>6. ASSUME NEW m \in Leases, RunnerCrashes(m) PROVE Timely(l)'
    <2>1. PICK f : th' = [th EXCEPT ![Main(m)] = f] /\ f.pc = "gone"
        BY <1>6, FinishFrame DEF RunnerCrashes
    <2>2. th'[Tick(l)] = th[Tick(l)]
        BY <1>1, <1>2, <2>1, OwnThreads DEF ThreadsInv
    <2>3. CASE m = l
        <3>1. th'[Main(l)].pc = "gone" /\ th[Main(l)].pc \in {"granted", "exec"}
            BY <1>1, <1>2, <1>6, <2>1, <2>3 DEF ThreadsInv, RunnerCrashes
        <3> QED
            BY <1>1, <1>3, <3>1 DEF Timely, Abandoned, At, HeldPlaces, AckedPlaces
    <2>4. CASE m # l
        <3>1. th'[Main(l)] = th[Main(l)]
            BY <1>1, <1>2, <2>1, <2>4, OwnThreads DEF ThreadsInv
        <3> QED
            BY <1>1, <1>3, <2>2, <3>1, TimelyUntouched
    <2> QED
        BY <2>3, <2>4
<1>7. ASSUME NEW t \in Threads, RequestAborts(t) PROVE Timely(l)'
    <2>1. InRequest(t) /\ Fails(t)
        BY <1>7 DEF RequestAborts
    <2>2. PICK f : th' = [th EXCEPT ![t] = f] /\ f.pc \in {"idle", "gone", "off", "done"}
                   /\ (t \in Mains => f.pc \in {"idle", "gone"})
        <3>1. \E place \in {"idle", "gone", "off", "done"} :
                  Finish(t, place) /\ (t \in Mains => place \in {"idle", "gone"})
            BY <2>1, ThreadKinds DEF Fails
        <3> QED
            BY <3>1, FinishFrame
    <2>3. th[t].pc # "gone"
        BY <2>1 DEF InRequest, RestingPlaces
    <2>4. CASE t = Main(l)
        <3>1. th'[Main(l)].pc \in {"idle", "gone"}
            BY <1>1, <1>2, <2>2, <2>4 DEF ThreadsInv
        <3>2. ~due[l]
            BY <1>1, <2>3, <2>4 DEF Timely, Abandoned, At
        <3> QED
            BY <1>3, <3>1, <3>2 DEF Timely, HeldPlaces, AckedPlaces
    <2>5. CASE t = Tick(l)
        <3>1. ~due[l]
            BY <1>1, <2>1, <2>5 DEF Timely, Abandoned
        <3>2. th'[Main(l)] = th[Main(l)]
            BY <1>1, <1>2, <2>2, <2>5, OwnThreads DEF ThreadsInv
        <3> QED
            BY <1>1, <1>3, <3>1, <3>2 DEF Timely, Live
    <2>6. CASE t \notin {Main(l), Tick(l)}
        <3>1. th'[Main(l)] = th[Main(l)] /\ th'[Tick(l)] = th[Tick(l)]
            BY <1>1, <1>2, <2>2, <2>6 DEF ThreadsInv
        <3> QED
            BY <1>1, <1>3, <3>1, TimelyUntouched
    <2> QED
        BY <2>4, <2>5, <2>6
<1>8. CASE CancelRequested
    <2>1. PICK f : th' = [th EXCEPT ![Canceler] = f]
        BY <1>8 DEF CancelRequested, CancelRun_Read, Goto
    <2>2. Canceler # Main(l) /\ Canceler # Tick(l)
        BY ThreadKinds
    <2>3. th'[Main(l)] = th[Main(l)] /\ th'[Tick(l)] = th[Tick(l)]
        BY <1>1, <1>2, <2>1, <2>2 DEF ThreadsInv
    <2> QED
        BY <1>1, <1>3, <2>3, TimelyUntouched
<1> QED
    BY <1>4, <1>5, <1>6, <1>7, <1>8

\* The sweep and the clock: a lease falls due only when it is abandoned.
LEMMA TimelyClock ==
    ASSUME ~SlowRunners, TimelyInv, NEW l \in Leases,
           \/ \E m \in Leases : Sweep(m) \/ LeaseTimesOut(m)
           \/ \E j \in Jobs : VisibilityTimesOut(j)
           \/ UNCHANGED vars
    PROVE  Timely(l)'
<1>1. StoreTypeOK /\ Timely(l)
    BY DEF TimelyInv, SystemInv, StoreInv, DueIsAbandoned, HeldIsLive, Timely
<1>2. th' = th
    BY DEF Sweep, LeaseTimesOut, VisibilityTimesOut, vars
<1>3. ASSUME NEW m \in Leases, Sweep(m) PROVE Timely(l)'
    <2>1. due' = due /\ due[m] /\ leaseState' = [leaseState EXCEPT ![m] = "EXPIRED"]
        BY <1>3 DEF Sweep, ExpireLease
    <2>2. CASE m = l
        <3>1. th[Main(l)].pc = "gone"
            BY <1>1, <2>1, <2>2 DEF Timely, Abandoned, At
        <3> QED
            BY <1>1, <1>2, <2>1, <3>1 DEF Timely, Abandoned, At, InRequest, HeldPlaces, AckedPlaces
    <2>3. CASE m # l
        <3>1. leaseState'[l] = leaseState[l]
            BY <1>1, <2>1, <2>3 DEF StoreTypeOK
        <3> QED
            BY <1>1, <1>2, <2>1, <3>1, TimelyUntouched
    <2> QED
        BY <2>2, <2>3
<1>4. ASSUME NEW m \in Leases, LeaseTimesOut(m) PROVE Timely(l)'
    <2>1. Abandoned(m) /\ due' = [due EXCEPT ![m] = TRUE] /\ leaseState' = leaseState
        BY <1>4 DEF LeaseTimesOut, LeaseFallsDue
    <2>2. CASE m = l
        BY <1>1, <1>2, <2>1, <2>2 DEF Timely, Abandoned, At, InRequest, Live
    <2>3. CASE m # l
        <3>1. due'[l] = due[l]
            BY <1>1, <2>1, <2>3 DEF StoreTypeOK
        <3> QED
            BY <1>1, <1>2, <2>1, <3>1, TimelyUntouched
    <2> QED
        BY <2>2, <2>3
<1>5. ASSUME UNCHANGED <<leaseState, due>> PROVE Timely(l)'
    BY <1>1, <1>2, <1>5, TimelyUntouched
<1> QED
    BY <1>3, <1>4, <1>5 DEF VisibilityTimesOut, VisibilityLapses, vars, storeVars, leaseVars

\* No lease is due, or held, at the start.
LEMMA TimelyInit == Init => TimelyInv
<1> SUFFICES ASSUME Init PROVE TimelyInv
    OBVIOUS
<1>1. \A l \in Leases : Main(l) \in Threads /\ ~due[l]
    BY ThreadKinds DEF Init, StoreInit, Threads
<1>2. \A l \in Leases : th[Main(l)].pc = "idle"
    BY <1>1 DEF Init, NewFrame
<1> QED
    BY <1>1, <1>2, SystemInit DEF TimelyInv, DueIsAbandoned, HeldIsLive, HeldPlaces, AckedPlaces

\* Every step keeps it.
LEMMA TimelyStep ==
    ASSUME ~SlowRunners, TimelyInv, [Next]_vars
    PROVE  TimelyInv'
<1>1. SystemInv'
    BY SystemStep DEF TimelyInv
<1>2. ASSUME NEW l \in Leases PROVE Timely(l)'
    BY TimelyHandler, TimelyRunner, TimelyClock DEF Next
<1> QED
    BY <1>1, <1>2 DEF TimelyInv, DueIsAbandoned, HeldIsLive, Timely

\* While runners are timely, a lease falls due only when it is abandoned, and
\* whoever works for a lease holds it.
THEOREM TimelyInvariant ==
    ASSUME ~SlowRunners
    PROVE  Spec => []TimelyInv
<1>1. Init => TimelyInv
    BY TimelyInit
<1>2. TimelyInv /\ [Next]_vars => TimelyInv'
    BY TimelyStep
<1> QED
    BY <1>1, <1>2, PTL DEF Spec

\* Two runners never execute the same attempt at once.
THEOREM OneRunnerAtATime ==
    ASSUME ~SlowRunners
    PROVE  Spec => []OneRunner
<1>1. TimelyInv => OneRunner
    <2> SUFFICES ASSUME TimelyInv, NEW l \in Leases, NEW m \in Leases,
                        At(Main(l), "exec"), At(Main(m), "exec"), leaseJob[l] = leaseJob[m]
                 PROVE  l = m
        BY DEF OneRunner
    <2>1. Live(l) /\ Live(m)
        BY DEF TimelyInv, HeldIsLive, HeldPlaces, AckedPlaces, At
    <2> QED
        BY <2>1 DEF TimelyInv, SystemInv, StoreInv, LiveLeaseIsCurrent
<1> QED
    BY <1>1, TimelyInvariant, PTL

(***************************************************************************)
(* A queued attempt is never lost, while runners renew their leases in     *)
(* time (~SlowRunners) and no request is cut short between two of its      *)
(* transactions (MaxAborts = 0), whatever crashes and is canceled.  Either *)
(* condition is needed: TLC shows both how a request that stops before     *)
(* "enqueue" leaves an attempt behind, and how a worker that returns after *)
(* its lease has expired deletes the entry the sweeper made.               *)
(***************************************************************************)

(***************************************************************************)
(* The inductive invariant.  NoLostAttempt counts a live lease as a way    *)
(* back to the queue, yet a lease ends when its runner completes it.  So   *)
(* the invariant asks for a lease that its runner is not about to end: to  *)
(* get there the runner writes the attempt, which then is QUEUED no more.  *)
(* It also asks for the undeliverable states of the run to be left out     *)
(* exactly, since those are the entries a worker purges.                   *)
(***************************************************************************)

\* Where a runner has given the attempt its result and is about to end the lease.
ClosingPlaces == {"compJob", "compLease", "cakJob", "cakLease"}

\* A lease that will bring its attempt back when it expires.
Returnable(l, j) == Live(l) /\ leaseJob[l] = j /\ th[Main(l)].pc \notin ClosingPlaces

Delivered(j) ==
    \/ queue[j] # "none"
    \/ \E t \in Threads : At(t, "enqueue") /\ th[t].job = j
    \/ \E l \in Leases : Returnable(l, j)

AlwaysDelivered == \A j \in Jobs : Deliverable(j) => Delivered(j)

\* The worker about to remove an entry from the queue holds the attempt's lease.
AcksItsOwn == \A l \in Leases : At(Main(l), "grantDispatched") => th[Main(l)].job = leaseJob[l]

DeliveryInv == TimelyInv /\ AlwaysDelivered /\ AcksItsOwn

(***************************************************************************)
(* What a step of a handler does to the queue and to the attempts.         *)
(***************************************************************************)

\* The attempt becomes QUEUED only when its entry comes next.
QueuesNext(t) ==
    \A j \in Jobs : attempt'[j] = "QUEUED" =>
        attempt[j] = "QUEUED" \/ (th'[t].pc = "enqueue" /\ th'[t].job = j)

\* An entry goes when it is undeliverable, or when the worker that has just
\* been granted its attempt removes it.
KeepsQueue(t) ==
    \A j \in Jobs : Deliverable(j) /\ queue[j] # "none" =>
        \/ queue'[j] # "none"
        \/ t \in Mains /\ th[t].pc = "grantDispatched" /\ th[t].job = j /\ th'[t].pc = "grantRun"

\* The entry that comes next comes.
Enqueues(t) == th[t].pc = "enqueue" /\ th[t].job \in Jobs => queue'[th[t].job] # "none"

\* A runner begins to end its lease by giving the attempt its result.
ClosesResult(t) ==
    t \in Mains /\ th'[t].pc \in ClosingPlaces =>
        th[t].pc \in ClosingPlaces \/ attempt'[JobOf(t)] # "QUEUED"

\* A worker removes the entry of the attempt it was granted.
AcksGranted(t) ==
    t \in Mains /\ th'[t].pc = "grantDispatched" => leaseJob'[LeaseOf(t)] = th'[t].job

QueueFlow(t) == QueuesNext(t) /\ KeepsQueue(t) /\ Enqueues(t) /\ ClosesResult(t) /\ AcksGranted(t)

\* A step that leaves queue and attempts alone, and is about neither.
LEMMA QuietFlow ==
    ASSUME NEW t \in Threads, UNCHANGED <<attempt, queue>>, th[t].pc # "enqueue",
           th'[t].pc # "grantDispatched",
           th'[t].pc \in ClosingPlaces => th[t].pc \in ClosingPlaces
    PROVE  QueueFlow(t)
BY DEF QueueFlow, QueuesNext, KeepsQueue, Enqueues, ClosesResult, AcksGranted

\* An attempt is written, other than to QUEUED.
LEMMA WriteFlow ==
    ASSUME ThreadsInv, NEW t \in Threads, NEW j, NEW s, attempt' = [attempt EXCEPT ![j] = s], s # "QUEUED",
           queue' = queue, th[t].pc # "enqueue", th'[t].pc # "grantDispatched",
           t \in Mains /\ th'[t].pc \in ClosingPlaces => j \in Jobs /\ j = JobOf(t)
    PROVE  QueueFlow(t)
<1>1. \A i \in Jobs : attempt'[i] = attempt[i] \/ attempt'[i] = s
    BY DEF ThreadsInv, StoreInv, StoreTypeOK
<1>2. j \in Jobs => attempt'[j] = s
    BY DEF ThreadsInv, StoreInv, StoreTypeOK
<1> QED
    BY <1>1, <1>2 DEF QueueFlow, QueuesNext, KeepsQueue, Enqueues, ClosesResult, AcksGranted

\* Leaving a request, with an error or not.
LEMMA ExitQueueFlow ==
    ASSUME ThreadsInv, NEW t \in Threads, UNCHANGED <<attempt, queue>>, th[t].pc # "enqueue",
           Fails(t) \/ Returns(t)
    PROVE  QueueFlow(t)
<1>1. th'[t].pc \in {"idle", "gone", "off", "done"}
    <2>1. \E place \in {"idle", "gone", "off", "done"} : Finish(t, place)
        BY ThreadKinds DEF Fails, Returns
    <2> QED
        BY <2>1, FrameAfter
<1> QED
    BY <1>1, QuietFlow DEF ClosingPlaces

\* transitionJobAndAttempt.
LEMMA BothQueueFlow ==
    ASSUME ThreadsInv, NEW t \in Threads, NEW j, NEW next, next # "QUEUED", NEW p, NEW q, NEW r,
           "enqueue" \notin {p, q}, "grantDispatched" \notin {q, r},
           t \in Mains /\ q \in ClosingPlaces => j \in Jobs /\ j = JobOf(t),
           r \in ClosingPlaces => q \in ClosingPlaces,
           transitionJobAndAttempt(t, j, next, <<p, q, r>>)
    PROVE  QueueFlow(t)
<1>1. CASE At(t, p) /\ TryAttempt(t, j, next, q)
    <2>1. CASE TransitionJobAttemptState(j, next) /\ Goto(t, q)
        BY <1>1, <2>1, FrameAfter, WriteFlow DEF At, TransitionJobAttemptState
    <2>2. CASE Fails(t) /\ UNCHANGED storeVars
        BY <1>1, <2>2, ExitQueueFlow DEF At, storeVars
    <2> QED
        BY <1>1, <2>1, <2>2 DEF TryAttempt
<1>2. CASE At(t, q) /\ TryJob(t, j, next, r)
    <2>1. CASE TransitionJobState(j, next) /\ Goto(t, r)
        BY <1>2, <2>1, FrameAfter, QuietFlow DEF At, TransitionJobState
    <2>2. CASE Fails(t) /\ UNCHANGED storeVars
        BY <1>2, <2>2, ExitQueueFlow DEF At, storeVars
    <2> QED
        BY <1>2, <2>1, <2>2 DEF TryJob
<1> QED
    BY <1>1, <1>2 DEF transitionJobAndAttempt

\* A write of the run, or a report.
LEMMA RunQueueFlow ==
    ASSUME ThreadsInv, NEW t \in Threads, NEW next, NEW place,
           th[t].pc # "enqueue", place \notin ClosingPlaces, place # "grantDispatched",
           TryRun(t, next, place) \/ reportRun(t, place)
    PROVE  QueueFlow(t)
<1>1. UNCHANGED <<attempt, queue>>
    BY DEF TryRun, reportRun, TransitionRunState, storeVars
<1>2. CASE Goto(t, place)
    BY <1>1, <1>2, FrameAfter, QuietFlow
<1>3. CASE Fails(t) \/ Returns(t)
    BY <1>1, <1>3, ExitQueueFlow
<1> QED
    BY <1>2, <1>3 DEF TryRun, reportRun

\* A read.
LEMMA ReadQueueFlow ==
    ASSUME ThreadsInv, NEW t \in Threads, UNCHANGED <<attempt, queue>>, th[t].pc # "enqueue", NEW place,
           Goto(t, place) \/ \E f : GotoWith(t, f) /\ f.pc = place,
           place # "grantDispatched", place \in ClosingPlaces => th[t].pc \in ClosingPlaces
    PROVE  QueueFlow(t)
<1>1. th'[t].pc = place
    BY FrameAfter
<1> QED
    BY <1>1, QuietFlow

\* The next turn of a loop over jobs.
LEMMA NextJobPlace ==
    ASSUME NEW t, th[t] \in Frames, NEW p, NEW q
    PROVE  NextJob(t, p, q).pc \in {p, q}
<1>1. [NewFrame EXCEPT !.pc = q].pc = q
    BY DEF NewFrame
<1>2. \A j, rest : [th[t] EXCEPT !.pc = p, !.job = j, !.todo = rest].pc = p
    BY DEF Frames
<1> QED
    BY <1>1, <1>2 DEF NextJob

\* The next turn of a loop that queues jobs.
LEMMA QueueLoopPlace ==
    ASSUME NEW t, th[t] \in Frames
    PROVE  QueueLoop(t).pc \in {"queueJob", "startQueued", "finRead", "depNext"}
<1>1. [NewFrame EXCEPT !.pc = "finRead"].pc = "finRead"
    BY DEF NewFrame
<1>2. [th[t] EXCEPT !.pc = "depNext", !.job = NoJob].pc = "depNext"
    BY DEF Frames
<1> QED
    BY <1>1, <1>2, NextJobPlace DEF QueueLoop

\* queueJobAttempt.
LEMMA QueueJobQueueFlow ==
    ASSUME ThreadsInv, NEW t \in Threads, queueJobAttempt(t), th[t].job \in Jobs
    PROVE  QueueFlow(t)
<1>1. th[t] \in Frames
    BY DEF ThreadsInv
<1>2. \A place \in {"queueJob", "startQueued", "finRead", "depNext"} :
          place \notin ClosingPlaces /\ place # "grantDispatched" /\ place # "enqueue"
    BY DEF ClosingPlaces
<1>3. ASSUME GotoWith(t, QueueLoop(t)) PROVE th'[t].pc \in {"queueJob", "startQueued", "finRead", "depNext"}
    BY <1>1, <1>3, QueueLoopPlace, FrameAfter
<1>4. ASSUME NEW from, queueJobAttempt_Skip(t, from, "QUEUED"), th[t].pc # "enqueue" PROVE QueueFlow(t)
    <2>1. UNCHANGED <<attempt, queue>>
        BY <1>4 DEF queueJobAttempt_Skip, storeVars
    <2>2. CASE Fails(t)
        BY <1>4, <2>1, <2>2, ExitQueueFlow
    <2>3. CASE GotoWith(t, QueueLoop(t))
        BY <1>2, <1>3, <1>4, <2>1, <2>3, QuietFlow
    <2> QED
        BY <1>4, <2>2, <2>3 DEF queueJobAttempt_Skip
<1>5. CASE At(t, "queueJob") /\ TransitionJobState(th[t].job, "QUEUED") /\ Goto(t, "queueAttempt")
    BY <1>5, FrameAfter, QuietFlow DEF At, TransitionJobState, ClosingPlaces
<1>6. CASE At(t, "queueAttempt") /\ TransitionJobAttemptState(th[t].job, "QUEUED") /\ Goto(t, "enqueue")
    <2>1. th'[t].pc = "enqueue" /\ th'[t].job = th[t].job /\ th[t].pc # "enqueue" /\ queue' = queue
        BY <1>6, FrameAfter DEF At, TransitionJobAttemptState
    <2>2. \A i \in Jobs : attempt'[i] = attempt[i] \/ i = th[t].job
        BY <1>6 DEF TransitionJobAttemptState, ThreadsInv, StoreInv, StoreTypeOK
    <2> QED
        BY <2>1, <2>2 DEF QueueFlow, QueuesNext, KeepsQueue, Enqueues, ClosesResult, AcksGranted, ClosingPlaces
<1>7. CASE At(t, "enqueue") /\ EnqueueJobAttempt(th[t].job) /\ GotoWith(t, QueueLoop(t))
    <2>1. th'[t].pc \notin ClosingPlaces /\ th'[t].pc # "grantDispatched"
        BY <1>2, <1>3, <1>7
    <2>2. attempt' = attempt /\ queue'[th[t].job] # "none" /\ \A i \in Jobs : queue'[i] # queue[i] => queue'[i] # "none"
        BY <1>7 DEF EnqueueJobAttempt, ThreadsInv, StoreInv, StoreTypeOK
    <2> QED
        BY <2>1, <2>2 DEF QueueFlow, QueuesNext, KeepsQueue, Enqueues, ClosesResult, AcksGranted
<1> QED
    BY <1>4, <1>5, <1>6, <1>7 DEF queueJobAttempt, At

\* The end of a request.
LEMMA EndQueueFlow ==
    ASSUME ThreadsInv, NEW t \in Threads, FrameOK(t, th[t]),
           enqueueReadyDependents(t) \/ finalizeRunIfReady(t) \/ finalizeCancelIfReady(t) \/ ReportVerdict(t)
    PROVE  QueueFlow(t)
<1>1. th[t] \in Frames
    BY DEF ThreadsInv
<1> DEFINE Late == {"depNext", "depAttempt", "queueJob", "startQueued", "finRead", "finList", "finWrite", "finReport",
                    "finCancelList", "finCancelWrite"}
<1>2. \A place \in Late : place \notin ClosingPlaces /\ place # "grantDispatched"
    BY DEF ClosingPlaces
<1>3. ASSUME UNCHANGED <<attempt, queue>>, th[t].pc # "enqueue", NEW f, GotoWith(t, f), f.pc \in Late
      PROVE  QueueFlow(t)
    BY <1>2, <1>3, ReadQueueFlow
<1>4. ASSUME UNCHANGED <<attempt, queue>>, th[t].pc # "enqueue", NEW place \in Late, Goto(t, place)
      PROVE  QueueFlow(t)
    BY <1>2, <1>4, ReadQueueFlow
<1>5. [NewFrame EXCEPT !.pc = "finRead"].pc = "finRead"
    BY DEF NewFrame
<1>6. CASE enqueueReadyDependents(t) /\ At(t, "depNext")
    <2>1. PICK d, rest : /\ rest = [th[t] EXCEPT !.todo = th[t].todo \ {d}]
                         /\ \/ GotoWith(t, [rest EXCEPT !.pc = "depAttempt", !.job = d])
                            \/ GotoWith(t, [NewFrame EXCEPT !.pc = "finRead"])
                            \/ GotoWith(t, rest)
        BY <1>6 DEF enqueueReadyDependents, queueJobAttempt, At
    <2>2. rest.pc = "depNext" /\ [rest EXCEPT !.pc = "depAttempt", !.job = d].pc = "depAttempt"
        BY <1>1, <1>6, <2>1 DEF Frames, At
    <2>3. UNCHANGED <<attempt, queue>> /\ th[t].pc # "enqueue"
        BY <1>6 DEF enqueueReadyDependents, queueJobAttempt, At, storeVars
    <2> QED
        BY <1>3, <1>5, <2>1, <2>2, <2>3
<1>7. CASE enqueueReadyDependents(t) /\ At(t, "depAttempt")
    <2>1. GotoWith(t, QueueLoop(t)) \/ GotoWith(t, [th[t] EXCEPT !.pc = "queueJob"])
        BY <1>7 DEF enqueueReadyDependents, queueJobAttempt, At
    <2>2. [th[t] EXCEPT !.pc = "queueJob"].pc = "queueJob" /\ QueueLoop(t).pc \in Late
        BY <1>1, QueueLoopPlace DEF Frames
    <2>3. UNCHANGED <<attempt, queue>> /\ th[t].pc # "enqueue"
        BY <1>7 DEF enqueueReadyDependents, queueJobAttempt, At, storeVars
    <2> QED
        BY <1>3, <2>1, <2>2, <2>3
<1>8. CASE queueJobAttempt(t)
    <2>1. th[t].job \in Jobs
        BY <1>8 DEF queueJobAttempt, At, FrameOK, JobPlaces, QueuePlaces
    <2> QED
        BY <1>8, <2>1, QueueJobQueueFlow
<1>9. CASE finalizeRunIfReady(t)
    <2>1. UNCHANGED <<attempt, queue>> /\ th[t].pc # "enqueue"
        BY <1>9 DEF finalizeRunIfReady, At, TransitionRunState, storeVars
    <2>2. [th[t] EXCEPT !.pc = "finWrite", !.status = RunVerdict].pc = "finWrite"
        BY <1>1 DEF Frames
    <2> QED
        BY <1>3, <1>4, <1>9, <2>1, <2>2, ExitQueueFlow DEF finalizeRunIfReady
<1>10. CASE finalizeCancelIfReady(t)
    <2>1. UNCHANGED <<attempt, queue>> /\ th[t].pc # "enqueue"
        BY <1>10 DEF finalizeCancelIfReady, At, TransitionRunState, storeVars
    <2> QED
        BY <1>4, <1>10, <2>1, ExitQueueFlow DEF finalizeCancelIfReady
<1>11. CASE ReportVerdict(t)
    BY <1>11, RunQueueFlow DEF ReportVerdict, At, ClosingPlaces
<1> QED
    BY <1>6, <1>7, <1>8, <1>9, <1>10, <1>11 DEF enqueueReadyDependents

\* The worker.
LEMMA GrantQueueFlow ==
    ASSUME ThreadsInv, NEW t \in Mains, GrantSteps(t), FrameOK(t, th[t])
    PROVE  QueueFlow(t)
<1>1. t \in Threads /\ LeaseOf(t) \in Leases
    BY ThreadKinds DEF Threads
<1>2. CASE Dequeue(t) /\ At(t, "idle")
    <2>1. th'[t].pc = "dequeue" /\ th[t].pc = "idle" /\ attempt' = attempt
        BY <1>1, <1>2, FrameAfter DEF Dequeue, PurgeQueue, At
    <2>2. \A j \in Jobs : Deliverable(j) => queue'[j] = queue[j]
        BY <1>2 DEF Dequeue, PurgeQueue, At
    <2> QED
        BY <2>1, <2>2 DEF QueueFlow, QueuesNext, KeepsQueue, Enqueues, ClosesResult, AcksGranted, ClosingPlaces
<1>3. CASE Dequeue(t) /\ At(t, "dequeue")
    <2>1. attempt' = attempt /\ \A j \in Jobs : queue[j] # "none" => queue'[j] # "none"
        BY <1>3 DEF Dequeue, DequeueJobAttempt, At, storeVars, ThreadsInv, StoreInv, StoreTypeOK
    <2>2. \A j : [NewFrame EXCEPT !.pc = "grantRead", !.job = j].pc = "grantRead"
        BY DEF NewFrame
    <2>3. th'[t].pc \in {"idle", "grantRead"} /\ th[t].pc = "dequeue"
        BY <1>1, <1>3, <2>2, FrameAfter DEF Dequeue, At
    <2> QED
        BY <2>1, <2>3 DEF QueueFlow, QueuesNext, KeepsQueue, Enqueues, ClosesResult, AcksGranted, ClosingPlaces
<1>4. CASE GrantLease_Read(t)
    <2>1. UNCHANGED <<attempt, queue>> /\ th[t].pc # "enqueue"
        BY <1>4 DEF GrantLease_Read, At, storeVars
    <2> QED
        BY <1>1, <1>4, <2>1, ExitQueueFlow, ReadQueueFlow DEF GrantLease_Read, ClosingPlaces
<1>5. CASE GrantLease_Grant(t)
    <2>1. CASE GrantLease(LeaseOf(t), th[t].job) /\ Goto(t, "grantDispatched")
        <3>1. th'[t].pc = "grantDispatched" /\ th'[t].job = th[t].job /\ th[t].pc = "grant"
            BY <1>1, <1>5, <2>1, FrameAfter DEF GrantLease_Grant, At
        <3>2. leaseJob'[LeaseOf(t)] = th[t].job /\ queue' = queue
            BY <1>1, <2>1 DEF GrantLease, ThreadsInv, StoreInv, StoreTypeOK
        <3>3. \A j \in Jobs : attempt'[j] = attempt[j] \/ attempt'[j] = "LEASED"
            BY <2>1 DEF GrantLease, ThreadsInv, StoreInv, StoreTypeOK
        <3> QED
            BY <3>1, <3>2, <3>3
               DEF QueueFlow, QueuesNext, KeepsQueue, Enqueues, ClosesResult, AcksGranted, ClosingPlaces
    <2>2. CASE Fails(t) /\ UNCHANGED storeVars
        BY <1>1, <1>5, <2>2, ExitQueueFlow DEF GrantLease_Grant, At, storeVars
    <2> QED
        BY <1>5, <2>1, <2>2 DEF GrantLease_Grant
<1>6. CASE GrantLease_Dispatched(t)
    <2>1. [NewFrame EXCEPT !.pc = "grantRun"].pc = "grantRun"
        BY DEF NewFrame
    <2>2. th'[t].pc = "grantRun" /\ th[t].pc = "grantDispatched" /\ attempt' = attempt
        BY <1>1, <1>6, <2>1, FrameAfter DEF GrantLease_Dispatched, AckJobAttemptDispatch, At
    <2>3. \A j \in Jobs : j # th[t].job => queue'[j] = queue[j]
        BY <1>6 DEF GrantLease_Dispatched, AckJobAttemptDispatch, ThreadsInv, StoreInv, StoreTypeOK
    <2> QED
        BY <2>2, <2>3 DEF QueueFlow, QueuesNext, KeepsQueue, Enqueues, ClosesResult, AcksGranted, ClosingPlaces
<1>7. CASE GrantLease_Run(t) \/ GrantLease_Report(t)
    BY <1>1, <1>7, RunQueueFlow DEF GrantLease_Run, GrantLease_Report, At, ClosingPlaces
<1> QED
    BY <1>2, <1>3, <1>4, <1>5, <1>6, <1>7 DEF GrantSteps, Dequeue

\* The check that opens a message.
LEMMA CheckQueueFlow ==
    ASSUME ThreadsInv, NEW t \in Threads, NEW here, NEW place, CheckLease(t, here, place),
           here # "enqueue", place \notin ClosingPlaces, place # "grantDispatched"
    PROVE  QueueFlow(t)
<1>1. UNCHANGED <<attempt, queue>> /\ th[t].pc # "enqueue"
    BY DEF CheckLease, At, storeVars
<1> QED
    BY <1>1, ExitQueueFlow, ReadQueueFlow DEF CheckLease

\* The acknowledgement.
LEMMA AckQueueFlow ==
    ASSUME ThreadsInv, NEW t \in Mains, AckSteps(t)
    PROVE  QueueFlow(t)
<1>1. t \in Threads
    BY DEF Threads
<1>2. CASE AckLease_Acknowledge(t)
    <2>1. UNCHANGED <<attempt, queue>> /\ th[t].pc # "enqueue"
        BY <1>2 DEF AckLease_Acknowledge, AcknowledgeLease, RenewLease, At, storeVars
    <2> QED
        BY <1>1, <1>2, <2>1, ExitQueueFlow, ReadQueueFlow DEF AckLease_Acknowledge, ClosingPlaces
<1>3. CASE AckLease_Start(t)
    BY <1>1, <1>3, BothQueueFlow DEF AckLease_Start, ClosingPlaces
<1>4. CASE AckLease_Read(t)
    <2>1. UNCHANGED <<attempt, queue>> /\ th[t].pc # "enqueue"
        BY <1>4 DEF AckLease_Read, At, storeVars
    <2> QED
        BY <1>1, <1>4, <2>1, ReadQueueFlow DEF AckLease_Read, ClosingPlaces
<1>5. CASE AckLease_Run(t)
    BY <1>1, <1>5, RunQueueFlow DEF AckLease_Run, At, ClosingPlaces
<1> QED
    BY <1>2, <1>3, <1>4, <1>5 DEF AckSteps

\* The heartbeat.
LEMMA HeartbeatQueueFlow ==
    ASSUME ThreadsInv, NEW t \in Mains \union Ticks, HeartbeatSteps(t)
    PROVE  QueueFlow(t)
<1>1. t \in Threads /\ th[t] \in Frames
    BY DEF Threads, ThreadsInv
<1>2. CASE CheckLease(t, "hbLease", "hbTouch")
    BY <1>1, <1>2, CheckQueueFlow DEF ClosingPlaces
<1>3. CASE Heartbeat_Touch(t)
    <2>1. UNCHANGED <<attempt, queue>> /\ th[t].pc # "enqueue"
        BY <1>3 DEF Heartbeat_Touch, TouchLeaseHeartbeat, RenewLease, At, storeVars
    <2> QED
        BY <1>1, <1>3, <2>1, ExitQueueFlow, ReadQueueFlow DEF Heartbeat_Touch, ClosingPlaces
<1>4. ASSUME UNCHANGED storeVars, th[t].pc # "enqueue", NEW f, GotoWith(t, f),
             f.pc \in {"hbReadJob", "hbReadRun", "hbAttempt", "hbReply", "hbRun", "exec", "idle"}
      PROVE  QueueFlow(t)
    <2>1. f.pc \notin ClosingPlaces /\ f.pc # "grantDispatched"
        BY <1>4 DEF ClosingPlaces
    <2> QED
        BY <1>1, <1>4, <2>1, ReadQueueFlow DEF storeVars
<1>5. CASE Heartbeat_ReadAttempt(t)
    <2>1. \A a : [th[t] EXCEPT !.pc = "hbReadJob", !.attempt = a].pc = "hbReadJob"
        BY <1>1 DEF Frames
    <2> QED
        BY <1>4, <1>5, <2>1 DEF Heartbeat_ReadAttempt, At
<1>6. CASE Heartbeat_ReadJob(t)
    <2>1. PICK c \in BOOLEAN : c = (job[JobOf(t)] = "CANCEL_REQUESTED")
        OBVIOUS
    <2>2. [th[t] EXCEPT !.pc = "hbReadRun", !.cancel = c].pc = "hbReadRun"
        BY <1>1 DEF Frames
    <2> QED
        BY <1>4, <1>6, <2>1, <2>2 DEF Heartbeat_ReadJob, At
<1>7. CASE Heartbeat_ReadRun(t)
    <2>1. PICK c \in BOOLEAN : c = (th[t].cancel \/ run = "CANCEL_REQUESTED")
        OBVIOUS
    <2>2. PICK p : p = CASE th[t].attempt # "CANCEL_REQUESTED" -> "hbAttempt"
                         [] th[t].attempt = "CANCEL_REQUESTED" /\ (c \/ run \in TerminalRunStates) -> "hbReply"
                         [] OTHER -> "hbRun"
        OBVIOUS
    <2>3. p \in {"hbAttempt", "hbReply", "hbRun"}
        BY <2>2
    <2>4. GotoWith(t, [NewFrame EXCEPT !.pc = p, !.run = run, !.cancel = c])
        BY <1>7, <2>1, <2>2 DEF Heartbeat_ReadRun
    <2>5. [NewFrame EXCEPT !.pc = p, !.run = run, !.cancel = c].pc = p
        BY DEF NewFrame
    <2> QED
        BY <1>4, <1>7, <2>3, <2>4, <2>5 DEF Heartbeat_ReadRun, At
<1>8. CASE Heartbeat_Running(t)
    <2>1. PICK r \in {"hbReply", "hbRun"} : transitionJobAndAttempt(t, JobOf(t), "RUNNING", <<"hbAttempt", "hbJob", r>>)
        BY <1>8 DEF Heartbeat_Running
    <2>2. "hbJob" \notin ClosingPlaces /\ r \notin ClosingPlaces /\ r # "grantDispatched"
        BY DEF ClosingPlaces
    <2> QED
        BY <1>1, <2>1, <2>2, BothQueueFlow
<1>9. CASE Heartbeat_Run(t)
    BY <1>1, <1>9, RunQueueFlow DEF Heartbeat_Run, At, ClosingPlaces
<1>10. CASE Heartbeat_Reply(t)
    <2>1. \A p : [NewFrame EXCEPT !.pc = p].pc = p
        BY DEF NewFrame
    <2> QED
        BY <1>4, <1>10, <2>1 DEF Heartbeat_Reply, Finish, At
<1> QED
    BY <1>2, <1>3, <1>5, <1>6, <1>7, <1>8, <1>9, <1>10 DEF HeartbeatSteps

\* The completion: its runner begins to end the lease by writing the result.
LEMMA CompleteQueueFlow ==
    ASSUME ThreadsInv, NEW t \in Mains, CompleteSteps(t), FrameOK(t, th[t])
    PROVE  QueueFlow(t)
<1>1. t \in Threads /\ th[t] \in Frames
    BY DEF Threads, ThreadsInv
<1>2. CASE CheckLease(t, "compCheck", "compReadAttempt")
    BY <1>1, <1>2, CheckQueueFlow DEF ClosingPlaces
<1>3. ASSUME UNCHANGED storeVars, th[t].pc # "enqueue", NEW f, GotoWith(t, f),
             f.pc \in {"compReadRun", "compAttempt", "compUpAttempt", "compRunAttempt"}
      PROVE  QueueFlow(t)
    <2>1. f.pc \notin ClosingPlaces /\ f.pc # "grantDispatched"
        BY <1>3 DEF ClosingPlaces
    <2> QED
        BY <1>1, <1>3, <2>1, ReadQueueFlow DEF storeVars
<1>4. CASE Complete_ReadAttempt(t)
    <2>1. \A a : [th[t] EXCEPT !.pc = "compReadRun", !.attempt = a].pc = "compReadRun"
        BY <1>1 DEF Frames
    <2> QED
        BY <1>3, <1>4, <2>1 DEF Complete_ReadAttempt, At
<1>5. CASE Complete_ReadRun(t)
    <2>1. PICK p : p = CASE th[t].attempt = "UPLOADING" -> "compAttempt"
                         [] th[t].attempt = "RUNNING" -> "compUpAttempt"
                         [] OTHER -> "compRunAttempt"
        OBVIOUS
    <2>2. p \in {"compAttempt", "compUpAttempt", "compRunAttempt"}
        BY <2>1
    <2>3. GotoWith(t, [th[t] EXCEPT !.pc = p, !.run = run])
        BY <1>5, <2>1 DEF Complete_ReadRun
    <2>4. [th[t] EXCEPT !.pc = p, !.run = run].pc = p
        BY <1>1 DEF Frames
    <2> QED
        BY <1>3, <1>5, <2>2, <2>3, <2>4 DEF Complete_ReadRun, At
<1>6. CASE Complete_Running(t) \/ Complete_Uploading(t)
    BY <1>1, <1>6, BothQueueFlow DEF Complete_Running, Complete_Uploading, ClosingPlaces
<1>7. CASE Complete_Result(t)
    <2>1. th[t].status # "QUEUED"
        BY <1>1 DEF Frames, Absent
    <2>2. JobOf(t) \in Jobs
        BY <1>7, ThreadKinds, JobInHand DEF Complete_Result, transitionJobAndAttempt, At, FrameOK, WorkerPlaces,
               ThreadsInv, HasLease
    <2> QED
        BY <1>1, <1>7, <2>1, <2>2, BothQueueFlow DEF Complete_Result, ClosingPlaces
<1>8. CASE Complete_Lease(t)
    <2>1. UNCHANGED <<attempt, queue>> /\ th[t].pc # "enqueue"
        BY <1>8 DEF Complete_Lease, CompleteLease, At, storeVars
    <2>2. AfterComplete(t).pc \notin ClosingPlaces /\ AfterComplete(t).pc # "grantDispatched"
        BY AfterCompleteFrame DEF ThreadsInv, StoreInv, ClosingPlaces
    <2> QED
        BY <1>1, <1>8, <2>1, <2>2, ExitQueueFlow, ReadQueueFlow DEF Complete_Lease
<1> QED
    BY <1>1, <1>2, <1>4, <1>5, <1>6, <1>7, <1>8, EndQueueFlow DEF CompleteSteps

\* The acknowledgement of a cancellation.
LEMMA CancelAckQueueFlow ==
    ASSUME ThreadsInv, NEW t \in Mains, CancelAckSteps(t), FrameOK(t, th[t])
    PROVE  QueueFlow(t)
<1>1. t \in Threads
    BY DEF Threads
<1>2. CASE CheckLease(t, "cakCheck", "cakReadJob")
    BY <1>1, <1>2, CheckQueueFlow DEF ClosingPlaces
<1>3. CASE CancelLease_ReadJob(t)
    <2>1. UNCHANGED <<attempt, queue>> /\ th[t].pc # "enqueue"
        BY <1>3 DEF CancelLease_ReadJob, At, storeVars
    <2> QED
        BY <1>1, <1>3, <2>1, ExitQueueFlow, ReadQueueFlow DEF CancelLease_ReadJob, ClosingPlaces
<1>4. CASE CancelLease_Cancel(t)
    <2>1. JobOf(t) \in Jobs
        BY <1>4, ThreadKinds, JobInHand DEF CancelLease_Cancel, transitionJobAndAttempt, At, FrameOK, WorkerPlaces,
               ThreadsInv, HasLease
    <2> QED
        BY <1>1, <1>4, <2>1, BothQueueFlow DEF CancelLease_Cancel, ClosingPlaces
<1>5. CASE CancelLease_Lease(t)
    <2>1. UNCHANGED <<attempt, queue>> /\ th[t].pc # "enqueue"
        BY <1>5 DEF CancelLease_Lease, CompleteLease, At, storeVars
    <2> QED
        BY <1>1, <1>5, <2>1, ExitQueueFlow, ReadQueueFlow DEF CancelLease_Lease, ClosingPlaces
<1> QED
    BY <1>2, <1>3, <1>4, <1>5 DEF CancelAckSteps

\* startRun: the Starter queues its root jobs like any other.
LEMMA StartQueueFlow ==
    ASSUME ThreadsInv, FrameOK(Starter, th[Starter]), startRun
    PROVE  QueueFlow(Starter)
<1>1. Starter \in Threads /\ Starter \notin Mains /\ th[Starter] \in Frames
    BY ThreadKinds DEF Threads, ThreadsInv
<1>2. CASE queueJobAttempt(Starter)
    <2>1. th[Starter].job \in Jobs
        BY <1>2 DEF queueJobAttempt, At, FrameOK, JobPlaces, QueuePlaces
    <2> QED
        BY <1>1, <1>2, <2>1, QueueJobQueueFlow
<1>3. ASSUME queue' = queue, th[Starter].pc # "enqueue",
             \A j \in Jobs : attempt'[j] = "QUEUED" => attempt[j] = "QUEUED"
      PROVE  QueueFlow(Starter)
    BY <1>1, <1>3 DEF QueueFlow, QueuesNext, KeepsQueue, Enqueues, ClosesResult, AcksGranted
<1>4. CASE \E j \in Jobs : CreateJobAttempt(j) /\ At(Starter, "startJobs")
    BY <1>3, <1>4 DEF CreateJobAttempt, At, ThreadsInv, StoreInv, StoreTypeOK
<1>5. CASE startRun_Jobs
    <2>1. th[Starter].todo # {} => FirstOf(th[Starter].todo) \in Jobs
        BY <1>1, FirstOfRange DEF Frames
    <2>2. CASE CreateJobAttempt(FirstOf(th[Starter].todo)) /\ th[Starter].todo # {}
        BY <1>4, <1>5, <2>1, <2>2 DEF startRun_Jobs
    <2>3. CASE UNCHANGED <<attempt, queue>>
        BY <1>3, <1>5, <2>3 DEF startRun_Jobs, At
    <2> QED
        BY <1>5, <2>2, <2>3 DEF startRun_Jobs, CreateJob, storeVars
<1>6. CASE UNCHANGED <<attempt, queue>> /\ th[Starter].pc # "enqueue"
    BY <1>3, <1>6
<1>7. CASE startRun_Dependencies
    BY <1>6, <1>7 DEF startRun_Dependencies, RecordJobDependency, At, storeVars
<1> QED
    BY <1>2, <1>5, <1>6, <1>7
       DEF startRun, startRun_Create, CreateRun, startRun_Planning, startRun_Plan, failRun, startRun_Queued,
           startRun_Report, TryRun, reportRun, TransitionRunState, At, storeVars

\* CancelRun.
LEMMA CancelQueueFlow ==
    ASSUME ThreadsInv, CancelRun \/ CancelRun_Read
    PROVE  QueueFlow(Canceler)
<1>1. Canceler \in Threads /\ Canceler \notin Mains /\ th[Canceler] \in Frames
    BY ThreadKinds DEF Threads, ThreadsInv
<1>2. ASSUME queue' = queue, th[Canceler].pc # "enqueue",
             \A j \in Jobs : attempt'[j] = "QUEUED" => attempt[j] = "QUEUED"
      PROVE  QueueFlow(Canceler)
    BY <1>1, <1>2 DEF QueueFlow, QueuesNext, KeepsQueue, Enqueues, ClosesResult, AcksGranted
<1>3. CASE UNCHANGED <<attempt, queue>> /\ th[Canceler].pc # "enqueue"
    BY <1>2, <1>3
<1>4. CASE CancelRun_Job
    <2>1. queue' = queue /\ th[Canceler].pc # "enqueue"
        BY <1>4 DEF CancelRun_Job, transitionJobAndAttempt, TryAttempt, TryJob, TransitionJobState,
                    TransitionJobAttemptState, At, storeVars
    <2>2. \/ attempt' = attempt
          \/ \E j, s : attempt' = [attempt EXCEPT ![j] = s] /\ s \in {"CANCEL_REQUESTED", "CANCELED"}
        BY <1>4 DEF CancelRun_Job, transitionJobAndAttempt, TryAttempt, TryJob, TransitionJobState,
                    TransitionJobAttemptState, storeVars
    <2> QED
        BY <1>2, <2>1, <2>2 DEF ThreadsInv, StoreInv, StoreTypeOK
<1> QED
    BY <1>3, <1>4
       DEF CancelRun, CancelRun_Read, CancelRun_Request, CancelRun_Report, CancelRun_List, finalizeCancelIfReady,
           ReportVerdict, TryRun, reportRun, TransitionRunState, At, storeVars

\* Every handler.
LEMMA HandlerQueueFlow ==
    ASSUME ThreadsInv, NEW t \in Threads, Handler(t), FrameOK(t, th[t])
    PROVE  QueueFlow(t)
<1>1. CASE t \in Mains
    BY <1>1, GrantQueueFlow, AckQueueFlow, HeartbeatQueueFlow, CompleteQueueFlow, CancelAckQueueFlow, ThreadKinds
       DEF Handler
<1>2. CASE t \in Ticks
    BY <1>2, HeartbeatQueueFlow, ThreadKinds DEF Handler
<1>3. CASE t \in {Starter, Canceler}
    BY <1>3, StartQueueFlow, CancelQueueFlow, ThreadKinds DEF Handler
<1> QED
    BY <1>1, <1>2, <1>3 DEF Threads

(***************************************************************************)
(* The invariant is inductive.                                             *)
(***************************************************************************)

\* A run whose attempts are not delivered stays one.
LEMMA UndeliverableStays ==
    ASSUME StoreTypeOK, [StoreNext]_storeVars, run \in UndeliverableRunStates
    PROVE  run' \in UndeliverableRunStates
<1>1. run' = run \/ \E next \in RunStates : validateRunTransition(run, next) /\ run' = next
    <2>1. ASSUME NEW i \in Jobs, JobNext(i) PROVE run' = run
        BY <2>1 DEF JobNext, CreateJob, CreateJobAttempt, RecordJobDependency, TransitionJobState,
                    TransitionJobAttemptState, EnqueueJobAttempt, DequeueJobAttempt,
                    AckJobAttemptDispatch, VisibilityLapses, leaseVars
    <2>2. ASSUME NEW m \in Leases, LeaseNext(m) PROVE run' = run
        BY <2>2 DEF LeaseNext, GrantLease, AcknowledgeLease, TouchLeaseHeartbeat, RenewLease, CompleteLease,
                    TransitionLeaseState, ExpireLease, LeaseFallsDue
    <2>3. run # Absent
        BY DEF UndeliverableRunStates, TerminalRunStates, Absent
    <2> QED
        BY <2>1, <2>2, <2>3 DEF StoreNext, RunNext, CreateRun, TransitionRunState, PurgeQueue, storeVars
<1> QED
    BY <1>1 DEF validateRunTransition, runTransitions, UndeliverableRunStates, TerminalRunStates

\* A lease stays live, and on its attempt, under a step of a handler that does not end it.
LEMMA LeaseStaysLive ==
    ASSUME ThreadsInv, [StoreNext]_storeVars, NEW t \in Threads, LeaseFlow(t), NEW l \in Leases, Live(l),
           t = Main(l) => th[t].pc \notin {"compLease", "cakLease"}
    PROVE  Live(l)' /\ leaseJob'[l] = leaseJob[l]
<1>1. leaseState[l] # Absent /\ StoreTypeOK
    BY DEF Live, LiveLeaseStates, Absent, ThreadsInv, StoreInv
<1>2. leaseJob'[l] = leaseJob[l]
    BY <1>1, GrantStays
<1>3. CASE UNCHANGED LeaseRows
    BY <1>2, <1>3 DEF LeaseRows, Live
<1>4. CASE t \in Mains /\ GrantLease(LeaseOf(t), th[t].job)
    BY <1>1, <1>2, <1>4 DEF GrantLease, StoreTypeOK, Live
<1>5. CASE RenewLease(LeaseOf(t))
    BY <1>1, <1>2, <1>5 DEF RenewLease, StoreTypeOK, Live, LiveLeaseStates
<1>6. CASE /\ t \in Mains /\ th[t].pc \in {"compLease", "cakLease"}
           /\ \E next \in LeaseStates : CompleteLease(LeaseOf(t), next)
    <2>1. LeaseOf(t) # l
        BY <1>6, ThreadKinds
    <2> QED
        BY <1>1, <1>2, <1>6, <2>1 DEF CompleteLease, StoreTypeOK, Live
<1> QED
    BY <1>3, <1>4, <1>5, <1>6 DEF LeaseFlow

\* A step of a handler.
LEMMA DeliveryHandler ==
    ASSUME DeliveryInv, NEW t \in Threads, Handler(t)
    PROVE  AlwaysDelivered' /\ AcksItsOwn'
<1>1. ThreadsInv /\ StoreTypeOK /\ FrameOK(t, th[t]) /\ HeldIsLive
    BY DEF DeliveryInv, TimelyInv, SystemInv, ThreadsInv, StoreInv
<1>2. QueueFlow(t) /\ LeaseFlow(t) /\ [StoreNext]_storeVars
    BY <1>1, HandlerQueueFlow, HandlerFlow, HandlerGood DEF Good
<1>3. \A u \in Threads : u # t => th'[u] = th[u]
    BY <1>1, HandlerGood DEF Good, ThreadsInv
<1>4. \A l \in Leases : Main(l) \in Threads /\ Main(l) \in Mains /\ LeaseOf(Main(l)) = l
    BY ThreadKinds DEF Threads
<1>5. ASSUME NEW l \in Leases, At(Main(l), "grantDispatched")' PROVE (th[Main(l)].job = leaseJob[l])'
    <2>1. CASE t = Main(l)
        BY <1>2, <1>4, <1>5, <2>1 DEF QueueFlow, AcksGranted, At
    <2>2. CASE t # Main(l)
        <3>1. th'[Main(l)] = th[Main(l)] /\ At(Main(l), "grantDispatched")
            BY <1>3, <1>4, <1>5, <2>2 DEF At
        <3>2. Live(l)
            BY <1>1, <3>1 DEF HeldIsLive, HeldPlaces, At
        <3> QED
            BY <1>1, <1>2, <2>2, <3>1, <3>2, LeaseStaysLive DEF DeliveryInv, AcksItsOwn
    <2> QED
        BY <2>1, <2>2
<1>6. ASSUME NEW j \in Jobs, Deliverable(j)' PROVE Delivered(j)'
    <2>1. CASE attempt[j] # "QUEUED"
        BY <1>2, <1>6, <2>1 DEF QueueFlow, QueuesNext, Deliverable, Delivered, At
    <2>2. CASE attempt[j] = "QUEUED"
        <3>1. Deliverable(j) /\ Delivered(j)
            BY <1>1, <1>2, <1>6, <2>2, UndeliverableStays DEF Deliverable, DeliveryInv, AlwaysDelivered
        <3>2. CASE queue[j] # "none"
            <4>1. CASE queue'[j] # "none"
                BY <4>1 DEF Delivered
            <4>2. CASE t \in Mains /\ th[t].pc = "grantDispatched" /\ th[t].job = j /\ th'[t].pc = "grantRun"
                <5>1. PICK l \in Leases : t = Main(l)
                    BY <4>2 DEF Mains
                <5>2. Live(l) /\ leaseJob[l] = j
                    BY <1>1, <4>2, <5>1 DEF HeldIsLive, HeldPlaces, DeliveryInv, AcksItsOwn, At
                <5>3. Live(l)' /\ leaseJob'[l] = j
                    BY <1>1, <1>2, <4>2, <5>2, LeaseStaysLive
                <5> QED
                    BY <4>2, <5>1, <5>3 DEF Delivered, Returnable, ClosingPlaces
            <4> QED
                BY <1>2, <3>1, <3>2, <4>1, <4>2 DEF QueueFlow, KeepsQueue
        <3>3. ASSUME NEW u \in Threads, At(u, "enqueue"), th[u].job = j PROVE Delivered(j)'
            <4>1. CASE u = t
                BY <1>2, <3>3, <4>1 DEF QueueFlow, Enqueues, At, Delivered
            <4>2. CASE u # t
                BY <1>3, <3>3, <4>2 DEF At, Delivered
            <4> QED
                BY <4>1, <4>2
        <3>4. ASSUME NEW l \in Leases, Returnable(l, j) PROVE Delivered(j)'
            <4>1. Live(l)' /\ leaseJob'[l] = j
                BY <1>1, <1>2, <3>4, LeaseStaysLive DEF Returnable, ClosingPlaces
            <4>2. th'[Main(l)].pc \notin ClosingPlaces
                <5>1. CASE t = Main(l)
                    <6>1. JobOf(t) = j /\ attempt'[j] = "QUEUED"
                        BY <1>4, <1>6, <3>4, <5>1 DEF Returnable, JobOf, Deliverable
                    <6> QED
                        BY <1>2, <1>4, <3>4, <5>1, <6>1 DEF Returnable, QueueFlow, ClosesResult
                <5>2. CASE t # Main(l)
                    BY <1>3, <1>4, <3>4, <5>2 DEF Returnable
                <5> QED
                    BY <5>1, <5>2
            <4> QED
                BY <4>1, <4>2 DEF Delivered, Returnable
        <3> QED
            BY <3>1, <3>2, <3>3, <3>4 DEF Delivered
    <2> QED
        BY <2>1, <2>2
<1> QED
    BY <1>5, <1>6 DEF AlwaysDelivered, AcksItsOwn

\* A step of one thread that leaves the store alone and has nothing to do with queueing.
LEMMA DeliveryQuiet ==
    ASSUME DeliveryInv, UNCHANGED storeVars, NEW t, NEW f, th' = [th EXCEPT ![t] = f],
           t \in Threads => /\ th[t].pc # "enqueue"
                            /\ f.pc \notin ClosingPlaces /\ f.pc # "grantDispatched"
    PROVE  AlwaysDelivered' /\ AcksItsOwn'
<1>1. \A u \in Threads : th'[u] = th[u] \/ (u = t /\ th'[u] = f)
    BY DEF DeliveryInv, TimelyInv, SystemInv
<1>2. \A l \in Leases : Main(l) \in Threads
    BY ThreadKinds DEF Threads
<1>3. ASSUME NEW j \in Jobs, Delivered(j) PROVE Delivered(j)'
    BY <1>1, <1>2, <1>3 DEF Delivered, Returnable, Live, At, storeVars, leaseVars
<1>4. ASSUME NEW l \in Leases, At(Main(l), "grantDispatched")' PROVE (th[Main(l)].job = leaseJob[l])'
    BY <1>1, <1>2, <1>4 DEF At, DeliveryInv, AcksItsOwn, storeVars, leaseVars
<1> QED
    BY <1>3, <1>4 DEF DeliveryInv, AlwaysDelivered, AcksItsOwn, Deliverable, storeVars

\* The runner's own steps, and a request to cancel.
LEMMA DeliveryRunner ==
    ASSUME DeliveryInv,
           \/ \E l \in Leases : CommandEnds(l) \/ TickerFires(l) \/ RunnerCrashes(l)
           \/ CancelRequested
    PROVE  AlwaysDelivered' /\ AcksItsOwn'
<1>1. th \in [Threads -> Frames]
    BY DEF DeliveryInv, TimelyInv, SystemInv
<1>2. ASSUME NEW t, NEW place, Goto(t, place) \/ Finish(t, place) \/ \E s : GotoWith(t, [NewFrame EXCEPT !.pc = place, !.status = s]),
             place \in {"cakCheck", "compCheck", "hbLease", "gone", "cancelRun"},
             th[t].pc # "enqueue", UNCHANGED storeVars
      PROVE  AlwaysDelivered' /\ AcksItsOwn'
    <2>1. /\ \A s : [NewFrame EXCEPT !.pc = place, !.status = s].pc = place
          /\ [NewFrame EXCEPT !.pc = place].pc = place
          /\ t \in Threads => [th[t] EXCEPT !.pc = place].pc = place
        BY <1>1 DEF NewFrame, Frames
    <2>2. PICK f : th' = [th EXCEPT ![t] = f] /\ (t \in Threads => f.pc = place)
        BY <1>2, <2>1 DEF Goto, Finish, GotoWith
    <2>3. t \in Threads => f.pc \notin ClosingPlaces /\ f.pc # "grantDispatched"
        BY <1>2, <2>2 DEF ClosingPlaces
    <2> QED
        BY <1>2, <2>2, <2>3, DeliveryQuiet
<1>3. ASSUME NEW l \in Leases, CommandEnds(l) PROVE AlwaysDelivered' /\ AcksItsOwn'
    BY <1>2, <1>3 DEF CommandEnds, At
<1>4. ASSUME NEW l \in Leases, TickerFires(l) PROVE AlwaysDelivered' /\ AcksItsOwn'
    BY <1>2, <1>4 DEF TickerFires, At
<1>5. ASSUME NEW l \in Leases, RunnerCrashes(l) PROVE AlwaysDelivered' /\ AcksItsOwn'
    BY <1>2, <1>5 DEF RunnerCrashes
<1>6. CASE CancelRequested
    BY <1>2, <1>6 DEF CancelRequested, CancelRun_Read, At
<1> QED
    BY <1>3, <1>4, <1>5, <1>6

\* The sweep and the clock.
LEMMA DeliveryClock ==
    ASSUME DeliveryInv,
           \/ \E l \in Leases : Sweep(l) \/ LeaseTimesOut(l)
           \/ \E j \in Jobs : VisibilityTimesOut(j)
           \/ UNCHANGED vars
    PROVE  AlwaysDelivered' /\ AcksItsOwn'
<1>1. StoreTypeOK
    BY DEF DeliveryInv, TimelyInv, SystemInv, StoreInv
<1>2. th' = th /\ run' = run /\ leaseJob' = leaseJob
    BY DEF Sweep, ExpireLease, LeaseTimesOut, LeaseFallsDue, VisibilityTimesOut, VisibilityLapses, vars, storeVars,
           leaseVars
<1>3. AcksItsOwn'
    BY <1>2 DEF AcksItsOwn, At, DeliveryInv
<1>4. ASSUME UNCHANGED <<attempt, leaseState>>, \A j \in Jobs : queue[j] # "none" => queue'[j] # "none"
      PROVE  AlwaysDelivered'
    BY <1>2, <1>4 DEF DeliveryInv, AlwaysDelivered, Deliverable, Delivered, Returnable, Live, At
<1>5. ASSUME NEW l \in Leases, Sweep(l) PROVE AlwaysDelivered'
    <2> SUFFICES ASSUME NEW j \in Jobs, Deliverable(j)' PROVE Delivered(j)'
        BY DEF AlwaysDelivered
    <2>1. PICK i : i = leaseJob[l]
        OBVIOUS
    <2>2. Live(l) /\ i \in Jobs
        BY <1>5, <2>1 DEF Sweep, ExpireLease, DeliveryInv, TimelyInv, SystemInv, StoreInv, LiveLeaseIsCurrent
    <2>3. /\ leaseState' = [leaseState EXCEPT ![l] = "EXPIRED"]
          /\ IF validateJobTransition(attempt[i], "QUEUED")
             THEN attempt' = [attempt EXCEPT ![i] = "QUEUED"] /\ queue' = [queue EXCEPT ![i] = "available"]
             ELSE attempt' = attempt /\ queue' = queue
        BY <1>5, <2>1 DEF Sweep, ExpireLease
    <2>4. CASE j = i
        <3>1. attempt'[i] = "QUEUED"
            BY <2>4 DEF Deliverable
        <3>2. validateJobTransition(attempt[i], "QUEUED")
            BY <2>3, <3>1 DEF validateJobTransition, jobTransitions, JobStates
        <3> QED
            BY <1>1, <2>2, <2>3, <2>4, <3>2 DEF StoreTypeOK, Delivered
    <2>5. CASE j # i
        <3>1. attempt'[j] = attempt[j] /\ queue'[j] = queue[j]
            BY <1>1, <2>3, <2>5 DEF StoreTypeOK
        <3>2. \A m \in Leases : leaseJob[m] = j => leaseState'[m] = leaseState[m]
            BY <1>1, <2>1, <2>3, <2>5 DEF StoreTypeOK
        <3>3. Delivered(j)
            BY <1>2, <3>1 DEF Deliverable, DeliveryInv, AlwaysDelivered
        <3> QED
            BY <1>2, <3>1, <3>2, <3>3 DEF Delivered, Returnable, Live, At
    <2> QED
        BY <2>4, <2>5
<1>6. ASSUME NEW j \in Jobs, VisibilityTimesOut(j) PROVE AlwaysDelivered'
    BY <1>1, <1>4, <1>6 DEF VisibilityTimesOut, VisibilityLapses, StoreTypeOK, leaseVars
<1>7. ASSUME UNCHANGED <<attempt, leaseState, queue>> PROVE AlwaysDelivered'
    BY <1>4, <1>7
<1> QED
    BY <1>3, <1>5, <1>6, <1>7 DEF LeaseTimesOut, LeaseFallsDue, vars, storeVars, leaseVars

\* At the start there is no attempt, and nobody is at work.
LEMMA DeliveryInit == Init => DeliveryInv
<1> SUFFICES ASSUME Init PROVE DeliveryInv
    OBVIOUS
<1>1. \A j \in Jobs : attempt[j] = Absent
    BY DEF Init, StoreInit
<1>2. \A l \in Leases : th[Main(l)].pc = "idle"
    BY ThreadKinds DEF Init, NewFrame, Threads
<1> QED
    BY <1>1, <1>2, TimelyInit DEF DeliveryInv, AlwaysDelivered, Deliverable, AcksItsOwn, At, Absent

\* Every step keeps it.
LEMMA DeliveryStep ==
    ASSUME ~SlowRunners, MaxAborts = 0, DeliveryInv, [Next]_vars
    PROVE  DeliveryInv'
<1>1. TimelyInv'
    BY TimelyStep DEF DeliveryInv
<1>2. \A t \in Threads : ~RequestAborts(t)
    BY DEF RequestAborts, DeliveryInv, TimelyInv, SystemInv
<1>3. AlwaysDelivered' /\ AcksItsOwn'
    BY <1>2, DeliveryHandler, DeliveryRunner, DeliveryClock DEF Next
<1> QED
    BY <1>1, <1>3 DEF DeliveryInv

\* While runners are timely and requests run to their end, every deliverable
\* attempt has a way back to a worker.
THEOREM DeliveryInvariant ==
    ASSUME ~SlowRunners, MaxAborts = 0
    PROVE  Spec => []DeliveryInv
<1>1. Init => DeliveryInv
    BY DeliveryInit
<1>2. DeliveryInv /\ [Next]_vars => DeliveryInv'
    BY DeliveryStep
<1> QED
    BY <1>1, <1>2, PTL DEF Spec

\* No queued attempt of an open run is ever lost.
THEOREM NoAttemptIsLost ==
    ASSUME ~SlowRunners, MaxAborts = 0
    PROVE  Spec => []NoLostAttempt
<1>1. DeliveryInv => NoLostAttempt
    BY DEF DeliveryInv, AlwaysDelivered, NoLostAttempt, Deliverable, Delivered, Returnable,
           UndeliverableRunStates, TerminalRunStates
<1> QED
    BY <1>1, DeliveryInvariant, PTL
=============================================================================
