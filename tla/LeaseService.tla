--------------------------- MODULE LeaseService ----------------------------
(***************************************************************************)
(* The life of a lease: the worker's dequeue and grant, and the handlers   *)
(* behind the runner's four messages (AckLease, Heartbeat, Complete,       *)
(* CancelAck) of orchestrator/service.go.                                  *)
(*                                                                         *)
(* A message carries the runner's own timestamp, and the check that it is  *)
(* not late compares that timestamp with expires_at.  A message about a    *)
(* lease that is not due is in time; about one that is due, it may have    *)
(* been sent before the deadline or after it.  The second check of the     *)
(* same message, inside the store, uses the same timestamp.                *)
(***************************************************************************)
EXTENDS RunService

-----------------------------------------------------------------------------
(* Worker: DequeueJobAttempt and GrantLease *)

Dequeue(t) ==
    \/ /\ At(t, "idle")
       /\ PurgeQueue
       /\ Goto(t, "dequeue") /\ UNCHANGED sig
    \/ /\ At(t, "dequeue")
       /\ \/ \E j \in Jobs :
                /\ DequeueJobAttempt(j)
                /\ GotoWith(t, [NewFrame EXCEPT !.pc = "grantRead", !.job = j])
          \/ /\ \A j \in Jobs : ~CanDequeue(j)
             /\ UNCHANGED storeVars
             /\ Goto(t, "idle")
       /\ UNCHANGED sig

GrantLease_Read(t) ==
    /\ At(t, "grantRead")
    /\ IF run \in TerminalRunStates \union {"CANCEL_REQUESTED"}
       THEN Fails(t)
       ELSE Goto(t, "grant") /\ UNCHANGED sig
    /\ UNCHANGED storeVars

GrantLease_Grant(t) ==
    /\ At(t, "grant")
    /\ \/ GrantLease(LeaseOf(t), th[t].job) /\ Goto(t, "grantDispatched") /\ UNCHANGED sig
       \/ ~CanGrantLease(th[t].job) /\ UNCHANGED storeVars /\ Fails(t)

GrantLease_Dispatched(t) ==
    /\ At(t, "grantDispatched")
    /\ AckJobAttemptDispatch(th[t].job)
    /\ GotoWith(t, [NewFrame EXCEPT !.pc = "grantRun"])
    /\ UNCHANGED sig

GrantLease_Run(t) == At(t, "grantRun") /\ TryRun(t, "RUNNING", "grantReport")

GrantLease_Report(t) == At(t, "grantReport") /\ reportRun(t, "granted")

GrantSteps(t) ==
    \/ Dequeue(t) \/ GrantLease_Read(t) \/ GrantLease_Grant(t)
    \/ GrantLease_Dispatched(t) \/ GrantLease_Run(t) \/ GrantLease_Report(t)

-----------------------------------------------------------------------------
(* AckLease *)

AckLease_Acknowledge(t) ==
    /\ At(t, "granted")
    /\ \/ AcknowledgeLease(LeaseOf(t)) /\ Goto(t, "ackAttempt") /\ UNCHANGED sig
       \/ /\ due[LeaseOf(t)] \/ ~validateLeaseTransition(leaseState[LeaseOf(t)], "ACTIVE")
          /\ UNCHANGED storeVars /\ Fails(t)

AckLease_Start(t) ==
    transitionJobAndAttempt(t, JobOf(t), "STARTING", <<"ackAttempt", "ackJob", "ackRead">>)

AckLease_Read(t) ==
    /\ At(t, "ackRead")
    /\ Goto(t, IF run \in TerminalRunStates \union {"CANCEL_REQUESTED"} THEN "hbLease" ELSE "ackRun")
    /\ UNCHANGED <<storeVars, sig>>

AckLease_Run(t) == At(t, "ackRun") /\ TryRun(t, "RUNNING", "hbLease")

AckSteps(t) ==
    AckLease_Acknowledge(t) \/ AckLease_Start(t) \/ AckLease_Read(t) \/ AckLease_Run(t)

-----------------------------------------------------------------------------
(* The check every later message starts with: GetLease, ACTIVE, in time *)

CheckLease(t, here, place) ==
    /\ At(t, here)
    /\ \/ leaseState[LeaseOf(t)] = "ACTIVE" /\ Goto(t, place) /\ UNCHANGED sig
       \/ (leaseState[LeaseOf(t)] # "ACTIVE" \/ due[LeaseOf(t)]) /\ Fails(t)
    /\ UNCHANGED storeVars

-----------------------------------------------------------------------------
(* HandleHeartbeat *)

Heartbeat_Touch(t) ==
    /\ At(t, "hbTouch")
    /\ \/ TouchLeaseHeartbeat(LeaseOf(t)) /\ Goto(t, "hbReadAttempt") /\ UNCHANGED sig
       \/ /\ ~validateLeaseTransition(leaseState[LeaseOf(t)], "ACTIVE")
          /\ UNCHANGED storeVars /\ Fails(t)

Heartbeat_ReadAttempt(t) ==
    /\ At(t, "hbReadAttempt")
    /\ GotoWith(t, [th[t] EXCEPT !.pc = "hbReadJob", !.attempt = attempt[JobOf(t)]])
    /\ UNCHANGED <<storeVars, sig>>

Heartbeat_ReadJob(t) ==
    /\ At(t, "hbReadJob")
    /\ GotoWith(t, [th[t] EXCEPT !.pc = "hbReadRun", !.cancel = (job[JobOf(t)] = "CANCEL_REQUESTED")])
    /\ UNCHANGED <<storeVars, sig>>

\* An attempt seen as CANCEL_REQUESTED is not pushed to RUNNING; a run seen as
\* canceling or over is not either.
Heartbeat_ReadRun(t) ==
    LET cancelRequested == th[t].cancel \/ run = "CANCEL_REQUESTED"
        leaveRun == cancelRequested \/ run \in TerminalRunStates
    IN  /\ At(t, "hbReadRun")
        /\ GotoWith(t, [NewFrame EXCEPT
                          !.pc = CASE th[t].attempt # "CANCEL_REQUESTED" -> "hbAttempt"
                                   [] th[t].attempt = "CANCEL_REQUESTED" /\ leaveRun -> "hbReply"
                                   [] OTHER -> "hbRun",
                          !.run = run, !.cancel = cancelRequested])
        /\ UNCHANGED <<storeVars, sig>>

Heartbeat_Running(t) ==
    LET leaveRun == th[t].cancel \/ th[t].run \in TerminalRunStates
    IN  transitionJobAndAttempt(t, JobOf(t), "RUNNING",
                                <<"hbAttempt", "hbJob", IF leaveRun THEN "hbReply" ELSE "hbRun">>)

Heartbeat_Run(t) == At(t, "hbRun") /\ TryRun(t, "RUNNING", "hbReply")

\* Seeded fault: the runner ignores cancel_requested.
ReplyIgnored(t) ==
    /\ At(t, "hbReply")
    /\ Finish(t, IF t \in Mains THEN "exec" ELSE "idle")
    /\ UNCHANGED <<storeVars, sig>>

\* HeartbeatAck reaches the runner: a requested cancellation stops the command.
Heartbeat_Reply(t) ==
    /\ At(t, "hbReply")
    /\ sig' = [sig EXCEPT ![LeaseOf(t)] = @ \/ th[t].cancel]
    /\ Finish(t, IF t \in Mains THEN "exec" ELSE "idle")
    /\ UNCHANGED storeVars

HeartbeatSteps(t) ==
    \/ CheckLease(t, "hbLease", "hbTouch") \/ Heartbeat_Touch(t)
    \/ Heartbeat_ReadAttempt(t) \/ Heartbeat_ReadJob(t) \/ Heartbeat_ReadRun(t)
    \/ Heartbeat_Running(t) \/ Heartbeat_Run(t) \/ Heartbeat_Reply(t)

-----------------------------------------------------------------------------
(* CompleteLease *)

Complete_ReadAttempt(t) ==
    /\ At(t, "compReadAttempt")
    /\ GotoWith(t, [th[t] EXCEPT !.pc = "compReadRun", !.attempt = attempt[JobOf(t)]])
    /\ UNCHANGED <<storeVars, sig>>

\* The state of the run read here decides, at the end, between canceling and
\* finishing the run.
Complete_ReadRun(t) ==
    /\ At(t, "compReadRun")
    /\ GotoWith(t, [th[t] EXCEPT !.pc = CASE th[t].attempt = "UPLOADING" -> "compAttempt"
                                          [] th[t].attempt = "RUNNING" -> "compUpAttempt"
                                          [] OTHER -> "compRunAttempt",
                                 !.run = run])
    /\ UNCHANGED <<storeVars, sig>>

Complete_Running(t) ==
    transitionJobAndAttempt(t, JobOf(t), "RUNNING", <<"compRunAttempt", "compRunJob", "compUpAttempt">>)

Complete_Uploading(t) ==
    transitionJobAndAttempt(t, JobOf(t), "UPLOADING", <<"compUpAttempt", "compUpJob", "compAttempt">>)

Complete_Result(t) ==
    transitionJobAndAttempt(t, JobOf(t), th[t].status, <<"compAttempt", "compJob", "compLease">>)

ListJobDependents(j) == {d \in Jobs : <<d, j>> \in deps}

\* Seeded fault: a completion never looks at the jobs that wait for it.
AfterCompleteNoDependents(t) ==
    [NewFrame EXCEPT !.pc = IF th[t].run = "CANCEL_REQUESTED" THEN "finCancelRead" ELSE "finRead"]

\* After the lease is closed: the rest of the handler works on the run.
AfterComplete(t) ==
    LET dependents == ListJobDependents(JobOf(t))
    IN  CASE th[t].run = "CANCEL_REQUESTED" -> [NewFrame EXCEPT !.pc = "finCancelRead"]
          [] /\ th[t].run \notin TerminalRunStates \union {"CANCEL_REQUESTED"}
             /\ th[t].status = "SUCCEEDED" /\ dependents # {} ->
                [NewFrame EXCEPT !.pc = "depNext", !.todo = dependents]
          [] OTHER -> [NewFrame EXCEPT !.pc = "finRead"]

Complete_Lease(t) ==
    /\ At(t, "compLease")
    /\ \/ CompleteLease(LeaseOf(t), "COMPLETED") /\ GotoWith(t, AfterComplete(t)) /\ UNCHANGED sig
       \/ /\ ~validateLeaseTransition(leaseState[LeaseOf(t)], "COMPLETED")
          /\ UNCHANGED storeVars /\ Fails(t)

\* enqueueReadyDependents: dependents in the order of their random ids.  That
\* dependencies are satisfied is stable, so it is read together with the job.
enqueueReadyDependents(t) ==
    \/ /\ At(t, "depNext")
       /\ \E d \in th[t].todo :
             LET rest == [th[t] EXCEPT !.todo = @ \ {d}]
             IN  GotoWith(t, IF DependenciesSatisfied(d) /\ job[d] = "CREATED"
                             THEN [rest EXCEPT !.pc = "depAttempt", !.job = d]
                             ELSE IF rest.todo = {} THEN [NewFrame EXCEPT !.pc = "finRead"] ELSE rest)
       /\ UNCHANGED <<storeVars, sig>>
    \/ /\ At(t, "depAttempt")
       /\ GotoWith(t, IF attempt[th[t].job] = "CREATED" THEN [th[t] EXCEPT !.pc = "queueJob"]
                      ELSE QueueLoop(t))
       /\ UNCHANGED <<storeVars, sig>>
    \/ queueJobAttempt(t)

CompleteSteps(t) ==
    \/ CheckLease(t, "compCheck", "compReadAttempt")
    \/ Complete_ReadAttempt(t) \/ Complete_ReadRun(t)
    \/ Complete_Running(t) \/ Complete_Uploading(t) \/ Complete_Result(t) \/ Complete_Lease(t)
    \/ enqueueReadyDependents(t)
    \/ finalizeRunIfReady(t) \/ finalizeCancelIfReady(t) \/ ReportVerdict(t)

-----------------------------------------------------------------------------
(* CancelLease, the handler of CancelAck *)

CancelLease_ReadJob(t) ==
    /\ At(t, "cakReadJob")
    /\ IF job[JobOf(t)] = "CANCEL_REQUESTED"
       THEN Goto(t, "cakAttempt") /\ UNCHANGED sig
       ELSE Fails(t)
    /\ UNCHANGED storeVars

CancelLease_Cancel(t) ==
    transitionJobAndAttempt(t, JobOf(t), "CANCELED", <<"cakAttempt", "cakJob", "cakLease">>)

CancelLease_Lease(t) ==
    /\ At(t, "cakLease")
    /\ \/ CompleteLease(LeaseOf(t), "CANCELED") /\ Goto(t, "finCancelRead") /\ UNCHANGED sig
       \/ /\ ~validateLeaseTransition(leaseState[LeaseOf(t)], "CANCELED")
          /\ UNCHANGED storeVars /\ Fails(t)

CancelAckSteps(t) ==
    \/ CheckLease(t, "cakCheck", "cakReadJob")
    \/ CancelLease_ReadJob(t) \/ CancelLease_Cancel(t) \/ CancelLease_Lease(t)
=============================================================================
