------------------------------ MODULE DeltaCI ------------------------------
(***************************************************************************)
(* The orchestrator, its workers and runners, the lease sweeper and the    *)
(* clock, composed over one run.  Every step of every thread is one        *)
(* transaction or read of the store, so the composition shows every        *)
(* interleaving of the request handlers that the database allows.          *)
(***************************************************************************)
EXTENDS LeaseService

CONSTANTS
    MaxCancels,     \* bound: how often clients ask for cancellation
    MaxCrashes,     \* bound: how many runners die between two messages
    MaxAborts,      \* bound: how many requests are cut short by an orchestrator
                    \* restart, a database error or a lost connection
    SlowRunners,    \* whether a lease, or the visibility of a queue entry, may
                    \* run out while its holder is still at work
    LongCommands    \* whether a command may outlast the heartbeat interval

ASSUME BoundsAssumption ==
    /\ MaxCancels \in Nat /\ MaxCrashes \in Nat /\ MaxAborts \in Nat
    /\ SlowRunners \in BOOLEAN /\ LongCommands \in BOOLEAN

VARIABLES cancels, crashes, aborts

bounds == <<cancels, crashes, aborts>>
vars == <<storeVars, th, sig, bounds>>

Init ==
    /\ StoreInit
    /\ th = [t \in Threads |-> NewFrame]
    /\ sig = [l \in Leases |-> FALSE]
    /\ cancels = 0 /\ crashes = 0 /\ aborts = 0

-----------------------------------------------------------------------------
(* The runner process of lease l *)

\* The command ends, by itself or because the signal killed it.  A runner that
\* has seen the signal acknowledges the cancellation, any other one completes.
CommandEnds(l) ==
    /\ At(Main(l), "exec")
    /\ IF sig[l]
       THEN Finish(Main(l), "cakCheck")
       ELSE \E s \in {"SUCCEEDED", "FAILED"} :
               GotoWith(Main(l), [NewFrame EXCEPT !.pc = "compCheck", !.status = s])
    /\ UNCHANGED <<storeVars, sig, bounds>>

\* The ticker of the heartbeat goroutine fires.
TickerFires(l) ==
    /\ LongCommands
    /\ At(Main(l), "exec") /\ At(Tick(l), "idle")
    /\ Goto(Tick(l), "hbLease")
    /\ UNCHANGED <<storeVars, sig, bounds>>

Handler(t) ==
    /\ \/ t \in Mains /\ (GrantSteps(t) \/ AckSteps(t) \/ CompleteSteps(t) \/ CancelAckSteps(t))
       \/ t \in Mains \union Ticks /\ HeartbeatSteps(t)
       \/ t = Starter /\ startRun
       \/ t = Canceler /\ CancelRun
    /\ UNCHANGED bounds

CancelRequested ==
    /\ cancels < MaxCancels
    /\ CancelRun_Read
    /\ cancels' = cancels + 1
    /\ UNCHANGED <<crashes, aborts>>

-----------------------------------------------------------------------------
(* Sweeper and clock *)

InRequest(t) == th[t].pc \notin RestingPlaces

\* Nobody is left who would renew the lease.
Abandoned(l) == At(Main(l), "gone") /\ ~InRequest(Tick(l))

Sweep(l) == ExpireLease(l) /\ UNCHANGED <<th, sig, bounds>>

LeaseTimesOut(l) ==
    /\ SlowRunners \/ Abandoned(l)
    /\ LeaseFallsDue(l)
    /\ UNCHANGED <<th, sig, bounds>>

VisibilityTimesOut(j) ==
    /\ SlowRunners \/ \A t \in Mains : th[t].job # j
    /\ VisibilityLapses(j)
    /\ UNCHANGED <<th, sig, bounds>>

-----------------------------------------------------------------------------
(* Failures *)

RunnerCrashes(l) ==
    /\ crashes < MaxCrashes
    /\ th[Main(l)].pc \in {"granted", "exec"}
    /\ Finish(Main(l), "gone")
    /\ crashes' = crashes + 1
    /\ UNCHANGED <<storeVars, sig, cancels, aborts>>

RequestAborts(t) ==
    /\ aborts < MaxAborts
    /\ InRequest(t)
    /\ Fails(t)
    /\ aborts' = aborts + 1
    /\ UNCHANGED <<storeVars, cancels, crashes>>

-----------------------------------------------------------------------------
Next ==
    \/ \E t \in Threads : Handler(t)
    \/ \E l \in Leases : CommandEnds(l) \/ TickerFires(l)
    \/ CancelRequested
    \/ \E l \in Leases : Sweep(l) \/ LeaseTimesOut(l)
    \/ \E j \in Jobs : VisibilityTimesOut(j)
    \/ \E l \in Leases : RunnerCrashes(l)
    \/ \E t \in Threads : RequestAborts(t)

Spec == Init /\ [][Next]_vars

(***************************************************************************)
(* Fairness.  A request handler that has started goes on (its goroutine is *)
(* scheduled, the database answers), workers keep polling, the sweeper     *)
(* keeps firing, time passes.  A command that received the signal is       *)
(* killed by its context; that a command ends by itself is assumed only in *)
(* FairSpec: nothing in the code bounds its run time.  HeartbeatSpec       *)
(* assumes only that the runner's own ticker and heartbeats go on.         *)
(***************************************************************************)
Heartbeats ==
    \A l \in Leases :
        WF_vars(TickerFires(l)) /\ WF_vars(Handler(Tick(l))) /\ WF_vars(CommandEnds(l) /\ sig[l])

Scheduling ==
    /\ Heartbeats
    /\ \A t \in Threads \ Ticks : WF_vars(Handler(t))
    /\ \A l \in Leases : WF_vars(Sweep(l)) /\ WF_vars(LeaseTimesOut(l))
    /\ \A j \in Jobs : WF_vars(VisibilityTimesOut(j))

HeartbeatSpec == Spec /\ Heartbeats

SchedulingSpec == Spec /\ Scheduling

FairSpec == SchedulingSpec /\ \A l \in Leases : WF_vars(CommandEnds(l))

-----------------------------------------------------------------------------
(* Type correctness *)

Places ==
    RestingPlaces \union
    {"startPlanning", "startPlan", "failRunPlan", "failRun", "startJobs", "startDeps",
     "queueJob", "queueAttempt", "enqueue", "startQueued", "startReport",
     "cancelRun", "cancelReport", "cancelList", "cancelAttempt", "cancelJob",
     "cancelQueued", "canceledAttempt", "canceledJob", "cancelNext",
     "dequeue", "grantRead", "grant", "grantDispatched", "grantRun", "grantReport",
     "ackAttempt", "ackJob", "ackRead", "ackRun",
     "hbLease", "hbTouch", "hbReadAttempt", "hbReadJob", "hbReadRun",
     "hbAttempt", "hbJob", "hbRun", "hbReply",
     "compCheck", "compReadAttempt", "compReadRun", "compRunAttempt", "compRunJob",
     "compUpAttempt", "compUpJob", "compAttempt", "compJob", "compLease",
     "depNext", "depAttempt", "cakCheck", "cakReadJob", "cakAttempt", "cakJob", "cakLease",
     "finRead", "finList", "finWrite", "finReport",
     "finCancelRead", "finCancelList", "finCancelWrite"}

Frames ==
    [pc : Places, job : Jobs \union {NoJob}, attempt : JobStates \union {Absent},
     run : RunStates \union {Absent}, todo : SUBSET Jobs, queued : SUBSET Jobs,
     status : {Absent, "SUCCEEDED", "FAILED", "SUCCESS"}, cancel : BOOLEAN]

TypeOK ==
    /\ StoreTypeOK
    /\ th \in [Threads -> Frames]
    /\ sig \in [Leases -> BOOLEAN]
    /\ cancels \in 0 .. MaxCancels /\ crashes \in 0 .. MaxCrashes /\ aborts \in 0 .. MaxAborts

-----------------------------------------------------------------------------
(* Safety *)

\* No job leaves CREATED before everything it depends on has SUCCEEDED, in
\* whatever order completions, expiries and retries interleave
\* (enqueueReadyDependents, startRun).
DependencyOrder ==
    \A j \in Jobs : {job[j], attempt[j]} \cap {Absent, "CREATED"} = {} =>
        \A d \in DependsOn[j] : job[d] = "SUCCEEDED"

\* A job shown as SUCCEEDED or CANCELED has an attempt that is: the two rows are
\* written in two transactions, and no crash, restart or other request between
\* them lets the job overtake the attempt (transitionJobAndAttempt).  FAILED is
\* not settled in this sense: between the two writes of a runner that has lost
\* its lease the sweep may requeue the attempt.
SettledResultsAgree ==
    \A j \in Jobs : job[j] \in {"SUCCEEDED", "CANCELED"} => attempt[j] = job[j]


\* A run is SUCCESS only while every required job is SUCCEEDED, although the
\* verdict is computed from a list read in an earlier transaction
\* (finalizeRunIfReady).
SuccessIsHonest ==
    run = "SUCCESS" => \A j \in Required : job[j] = "SUCCEEDED"

\* A running run is failed only when, at that moment, some required job has
\* failed for good (finalizeRunIfReady).
FailureIsHonest ==
    [][run = "RUNNING" /\ run' = "FAILED" =>
          \E j \in Required : job[j] \in {"FAILED", "TIMED_OUT", "CANCELED"}]_vars

\* Only the runner whose lease is live can give a job its final state: a
\* message about an expired lease changes nothing that is final (the checks
\* that open CompleteLease and CancelLease).
FinalStateIsFenced ==
    [][\A l \in Leases :
          th'[Main(l)] # th[Main(l)] /\ leaseJob[l] \in Jobs =>
              LET j == leaseJob[l]
              IN  job'[j] # job[j] /\ job'[j] \in {"SUCCEEDED", "FAILED", "CANCELED"} => Live(l)]_vars

\* A job that has reached SUCCEEDED, FAILED or CANCELED stays there, although the
\* job table lets the sweeper take FAILED back to QUEUED (ExpireLeases).
FinalStateIsKept ==
    [][\A j \in Jobs : job[j] \in {"SUCCEEDED", "FAILED", "CANCELED"} => job'[j] = job[j]]_vars

\* Two runners never execute the same attempt at once: the sweeper hands it out
\* again only when the first runner can no longer be at work.
OneRunner ==
    \A l, m \in Leases :
        At(Main(l), "exec") /\ At(Main(m), "exec") /\ leaseJob[l] = leaseJob[m] => l = m

\* A queued attempt of an open run can be delivered again: it is in the queue,
\* or about to be, or a live lease will bring it back there when it expires.
NoLostAttempt ==
    \A j \in Jobs :
        attempt[j] = "QUEUED" /\ run \in {"PLANNING", "QUEUED", "RUNNING"} =>
            \/ queue[j] # "none"
            \/ \E t \in Threads : At(t, "enqueue") /\ th[t].job = j
            \/ \E l \in Leases : Live(l) /\ leaseJob[l] = j

\* A run that is not over always has something left that will move it: a
\* request in progress, a runner at work, a lease that is live or about to be
\* granted, or a deliverable queue entry.
WorkRemains ==
    run \in {"QUEUED", "RUNNING"} =>
        \/ \E t \in Threads : th[t].pc \notin (RestingPlaces \ {"exec", "granted"}) \union {"dequeue"}
        \/ \E l \in Leases : Live(l)
        \/ \E j \in Jobs : queue[j] # "none" /\ Deliverable(j)

\* The completion of job j is writing its result.
WritesResult(j) ==
    \E l \in Leases : leaseJob[l] = j /\ Live(l) /\ th[Main(l)].pc \in {"compAttempt", "compJob"}

\* A canceled run is quiet: no command of it executes, no job of it is queued,
\* leased, running or waiting for an acknowledgement, and one that is UPLOADING
\* is in the hands of a completion that has only its result to write.  The code
\* does not wait for those (finalizeCancelIfReady's list of active states).
CanceledIsQuiet ==
    run = "CANCELED" =>
        /\ \A l \in Leases : ~At(Main(l), "exec")
        /\ \A j \in Jobs :
              /\ job[j] \notin {"QUEUED", "LEASED", "STARTING", "RUNNING", "CANCEL_REQUESTED"}
              /\ job[j] = "UPLOADING" => WritesResult(j)

\* Once a run is CANCELED no attempt of it is handed to a runner any more, not
\* even by a worker that had already checked the run (GrantLease).
NoGrantAfterCanceled ==
    [][run = "CANCELED" =>
          \A l \in Leases : leaseState[l] = Absent => leaseState'[l] = Absent]_vars

\* Every step of every handler is a transaction of the store or leaves it alone:
\* what is proved of the store holds of the whole system.
ImplementsStore == StoreSpec

-----------------------------------------------------------------------------
(* Liveness *)

\* Lease ids are finite in an instance: an attempt may wait in the queue when
\* all of them are used up.
OutOfLeases ==
    /\ \A l \in Leases : leaseState[l] \notin LiveLeaseStates \union {Absent}
    /\ \E j \in Jobs : queue[j] # "none"

\* A started run gets its verdict (enqueueReadyDependents, the sweeper's retry of
\* abandoned work and finalizeRunIfReady hand it on to each other).
RunFinishes == run = "QUEUED" ~> (run \in TerminalRunStates \/ OutOfLeases)

\* A requested cancellation is carried through (CancelRun, CancelLease and
\* finalizeCancelIfReady).
CancelFinishes == run = "CANCEL_REQUESTED" ~> run \in {"CANCELED", "REPORTED"}

\* A cancellation reaches every executing command, even one that would never
\* end by itself: a heartbeat is answered with the request, or fails.
CancelStopsCommands ==
    \A l \in Leases : (At(Main(l), "exec") /\ run = "CANCEL_REQUESTED") ~> ~At(Main(l), "exec")
=============================================================================
