---------------------------- MODULE RunService -----------------------------
(***************************************************************************)
(* Starting and canceling a run: CreateRun, startRun, failRun,             *)
(* queueJobAttempt and CancelRun of orchestrator/service.go.               *)
(***************************************************************************)
EXTENDS Threads

PlannedDeps == {pair \in Jobs \X Jobs : pair[2] \in DependsOn[pair[1]]}

Roots == {j \in Jobs : DependsOn[j] = {}}

-----------------------------------------------------------------------------
(* queueJobAttempt: the job, the attempt, then the queue entry.  A caller   *)
(* that comes from a completion skips a job that moved meanwhile; startRun  *)
(* gives up.                                                                *)

QueueLoop(t) ==
    CASE t = Starter -> NextJob(t, "queueJob", "startQueued")
      [] t # Starter /\ th[t].todo = {} -> [NewFrame EXCEPT !.pc = "finRead"]
      [] OTHER -> [th[t] EXCEPT !.pc = "depNext", !.job = NoJob]

queueJobAttempt_Skip(t, from, to) ==
    /\ ~validateJobTransition(from, to)
    /\ UNCHANGED storeVars
    /\ IF t = Starter THEN Fails(t) ELSE GotoWith(t, QueueLoop(t)) /\ UNCHANGED sig

queueJobAttempt(t) ==
    LET j == th[t].job
    IN  \/ /\ At(t, "queueJob")
           /\ \/ TransitionJobState(j, "QUEUED") /\ Goto(t, "queueAttempt") /\ UNCHANGED sig
              \/ queueJobAttempt_Skip(t, job[j], "QUEUED")
        \/ /\ At(t, "queueAttempt")
           /\ \/ TransitionJobAttemptState(j, "QUEUED") /\ Goto(t, "enqueue") /\ UNCHANGED sig
              \/ queueJobAttempt_Skip(t, attempt[j], "QUEUED")
        \/ /\ At(t, "enqueue")
           /\ EnqueueJobAttempt(j)
           /\ GotoWith(t, QueueLoop(t))
           /\ UNCHANGED sig

-----------------------------------------------------------------------------
(* startRun *)

startRun_Create ==
    /\ At(Starter, "idle")
    /\ CreateRun
    /\ Goto(Starter, "startPlanning")
    /\ UNCHANGED sig

\* The report that follows cannot touch a run that is still PLANNING.
startRun_Planning == At(Starter, "startPlanning") /\ TryRun(Starter, "PLANNING", "startPlan")

\* The planner (external to this component) returns the planned jobs, or an
\* error or an empty plan, which fail the run.
startRun_Plan ==
    /\ At(Starter, "startPlan")
    /\ \/ GotoWith(Starter, [NewFrame EXCEPT !.pc = "startJobs", !.todo = Jobs])
       \/ Goto(Starter, "failRunPlan")
    /\ UNCHANGED <<storeVars, sig>>

\* failRun ignores an illegal transition.
failRun ==
    \/ /\ At(Starter, "failRunPlan")
       /\ \/ TransitionRunState("PLAN_FAILED")
          \/ ~validateRunTransition(run, "PLAN_FAILED") /\ UNCHANGED storeVars
       /\ Goto(Starter, "failRun") /\ UNCHANGED sig
    \/ /\ At(Starter, "failRun")
       /\ \/ TransitionRunState("FAILED")
          \/ ~validateRunTransition(run, "FAILED") /\ UNCHANGED storeVars
       /\ Goto(Starter, "startReport") /\ UNCHANGED sig

\* Per planned job: insert the job, then its attempt.
startRun_Jobs ==
    LET j == FirstOf(th[Starter].todo)
    IN  /\ At(Starter, "startJobs")
        /\ \/ /\ th[Starter].todo # {} /\ job[j] = Absent
              /\ CreateJob(j) /\ UNCHANGED th
           \/ /\ th[Starter].todo # {} /\ job[j] # Absent
              /\ CreateJobAttempt(j)
              /\ GotoWith(Starter, [th[Starter] EXCEPT !.todo = @ \ {j}])
           \/ /\ th[Starter].todo = {}
              /\ Goto(Starter, "startDeps") /\ UNCHANGED storeVars
        /\ UNCHANGED sig

startRun_Dependencies ==
    /\ At(Starter, "startDeps")
    /\ \/ /\ \E pair \in PlannedDeps \ deps : RecordJobDependency(pair[1], pair[2])
          /\ UNCHANGED th
       \/ /\ PlannedDeps \subseteq deps /\ UNCHANGED storeVars
          /\ GotoWith(Starter, IF Roots = {} THEN [NewFrame EXCEPT !.pc = "startQueued"]
                               ELSE [NewFrame EXCEPT !.pc = "queueJob", !.job = FirstOf(Roots),
                                                     !.todo = Roots \ {FirstOf(Roots)}])
    /\ UNCHANGED sig

\* The run becomes QUEUED after its root jobs are already in the queue.
startRun_Queued == At(Starter, "startQueued") /\ TryRun(Starter, "QUEUED", "startReport")

startRun_Report == At(Starter, "startReport") /\ reportRun(Starter, "return")

startRun ==
    \/ startRun_Create \/ startRun_Planning \/ startRun_Plan \/ failRun
    \/ startRun_Jobs \/ startRun_Dependencies
    \/ queueJobAttempt(Starter)
    \/ startRun_Queued \/ startRun_Report

-----------------------------------------------------------------------------
(* CancelRun *)

\* A run that is being canceled, or is over, is answered without any effect.
CancelRun_Read ==
    /\ At(Canceler, "idle")
    /\ run \notin TerminalRunStates \union {Absent, "CANCEL_REQUESTED"}
    /\ Goto(Canceler, "cancelRun")
    /\ UNCHANGED <<storeVars, sig>>

CancelRun_Request == At(Canceler, "cancelRun") /\ TryRun(Canceler, "CANCEL_REQUESTED", "cancelReport")

CancelRun_Report == At(Canceler, "cancelReport") /\ reportRun(Canceler, "cancelList")

RunningJobStates == {"LEASED", "STARTING", "RUNNING"}

\* The loop below acts on this copy of the job states.
CancelRun_List ==
    /\ At(Canceler, "cancelList")
    /\ LET Active == {j \in Jobs : job[j] \in RunningJobStates \union {"QUEUED"}}
       IN  GotoWith(Canceler, IF Active = {} THEN [NewFrame EXCEPT !.pc = "finCancelRead"]
                              ELSE [NewFrame EXCEPT !.pc = "cancelAttempt", !.job = FirstOf(Active),
                                                    !.todo = Active \ {FirstOf(Active)},
                                                    !.queued = {j \in Active : job[j] = "QUEUED"}])
    /\ UNCHANGED <<storeVars, sig>>

\* A queued job is requested to cancel and then canceled, a leased one only
\* requested: its runner has to acknowledge.
CancelRun_Job ==
    LET j == th[Canceler].job
    IN  \/ transitionJobAndAttempt(Canceler, j, "CANCEL_REQUESTED",
                                   <<"cancelAttempt", "cancelJob", "cancelQueued">>)
        \/ /\ At(Canceler, "cancelQueued")
           /\ IF j \in th[Canceler].queued
              THEN Goto(Canceler, "canceledAttempt")
              ELSE GotoWith(Canceler, NextJob(Canceler, "cancelAttempt", "finCancelRead"))
           /\ UNCHANGED <<storeVars, sig>>
        \/ transitionJobAndAttempt(Canceler, j, "CANCELED",
                                   <<"canceledAttempt", "canceledJob", "cancelNext">>)
        \/ /\ At(Canceler, "cancelNext")
           /\ GotoWith(Canceler, NextJob(Canceler, "cancelAttempt", "finCancelRead"))
           /\ UNCHANGED <<storeVars, sig>>

CancelRun ==
    \/ CancelRun_Request \/ CancelRun_Report \/ CancelRun_List \/ CancelRun_Job
    \/ finalizeCancelIfReady(Canceler) \/ ReportVerdict(Canceler)
=============================================================================
