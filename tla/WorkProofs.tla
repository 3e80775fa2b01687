----------------------------- MODULE WorkProofs -----------------------------
(***************************************************************************)
(* A run that is not over always has something left that will move it      *)
(* (WorkRemains), although what comes next is nobody's business in         *)
(* particular: a completion queues the jobs it releases, the last one      *)
(* writes the verdict, and the sweep brings back what a dead runner held.  *)
(* It holds while runners renew their leases in time (~SlowRunners), no    *)
(* request is cut short (MaxAborts = 0), no job waits for two others       *)
(* (NoFanIn) and the required jobs wait for earlier required jobs only     *)
(* (RequiredInOrder).                                                      *)
(***************************************************************************)
EXTENDS ResultProofs

(***************************************************************************)
(* The plans.  The plan for Go lists the required build of a module before *)
(* its required test and its optional lint, which both wait for it         *)
(* (planForGo); every other planned job waits for none.                    *)
(***************************************************************************)
RequiredInOrder ==
    /\ Required # {}
    /\ \A k \in 1 .. Len(Order) : Order[k] \in Required =>
          \A d \in DependsOn[Order[k]] : d \in Required /\ \E i \in 1 .. k - 1 : Order[i] = d

(***************************************************************************)
(* The inductive invariant.  It speaks of a run that is not over yet, and  *)
(* not being canceled: such a run has never left these states, so nothing  *)
(* in it has been canceled, and each row says who will write it next.      *)
(***************************************************************************)
Going == run \in {Absent, "CREATED", "PLANNING", "QUEUED", "RUNNING"}
Open == run \in {"QUEUED", "RUNNING"}

GoingStates == {Absent, "CREATED", "QUEUED", "LEASED", "STARTING", "RUNNING", "UPLOADING", "SUCCEEDED", "FAILED"}
FirmStates == {"RUNNING", "UPLOADING", "SUCCEEDED", "FAILED"}

Made(j) == job[j] # Absent /\ attempt[j] # Absent

\* Where a worker has not yet seen the run RUNNING.
WorkerStart == {"idle", "dequeue", "grantRead", "grant", "grantDispatched", "grantRun", "gone"}

\* Where the attempt of a runner is RUNNING, and its job with it.
BusyPlaces == {"hbRun", "hbReply", "exec", "compCheck", "compReadAttempt", "compReadRun", "compUpAttempt"}

\* Where the result to write is known.
ResultPlaces ==
    {"compCheck", "compReadAttempt", "compReadRun", "compUpAttempt", "compUpJob", "compAttempt", "compJob", "compLease"}

\* Where only a cancellation, or an attempt that does not run, would lead.
ClosedPlaces ==
    {"cakAttempt", "cakJob", "cakLease", "compRunAttempt", "compRunJob",
     "finCancelRead", "finCancelList", "finCancelWrite"}

\* The runner of lease l, with frame f, finds the two rows of its job as it left
\* them.
HolderOK(l, f) ==
    /\ f.run \notin UndeliverableRunStates
    /\ f.attempt # "CANCEL_REQUESTED"
    /\ f.pc \notin ClosedPlaces
    /\ f.pc \in BusyPlaces => attempt[leaseJob[l]] = "RUNNING" /\ job[leaseJob[l]] = "RUNNING"
    /\ f.pc = "hbJob" => attempt[leaseJob[l]] = "RUNNING"
    /\ f.pc = "compReadRun" => f.attempt = "RUNNING"
    /\ f.pc = "compUpJob" => attempt[leaseJob[l]] = "UPLOADING" /\ job[leaseJob[l]] = "RUNNING"
    /\ f.pc = "compAttempt" => attempt[leaseJob[l]] = "UPLOADING" /\ job[leaseJob[l]] = "UPLOADING"
    /\ f.pc = "compJob" => attempt[leaseJob[l]] = f.status /\ job[leaseJob[l]] = "UPLOADING"
    /\ f.pc = "compLease" => attempt[leaseJob[l]] = f.status /\ job[leaseJob[l]] = f.status
    /\ f.pc \in ResultPlaces => f.status \in {"SUCCEEDED", "FAILED"}
    /\ f.pc = "finWrite" => f.status \in {"SUCCESS", "FAILED"}
    /\ f.pc \notin WorkerStart => run = "RUNNING"

\* Between its two writes, a thread that queues a job is the one to do so.
QueuerOK(f) ==
    /\ f.pc \in {"queueAttempt", "enqueue"} => job[f.job] \notin Unqueued
    /\ f.pc = "queueAttempt" => attempt[f.job] \in Unqueued

\* What startRun has inserted and queued so far.
StartOK(f) ==
    /\ f.pc = "startJobs" => \A j \in Jobs \ f.todo : Made(j)
    /\ f.pc \in {"startDeps", "startQueued"} \union QueuePlaces => \A j \in Jobs : Made(j)
    /\ f.pc \in QueuePlaces => \A r \in Roots : r \in f.todo \/ r = f.job \/ job[r] \notin Unqueued
    /\ f.pc = "startQueued" => \A r \in Roots : job[r] \notin Unqueued

WorkFrame(t, f) ==
    /\ t \in Mains => HolderOK(LeaseOf(t), f)
    /\ t \in Mains \union {Starter} => QueuerOK(f)
    /\ t = Starter => StartOK(f)
    /\ t = Canceler => f.pc \in {"idle", "cancelRun"}

OpenOK == Open => (\A j \in Jobs : Made(j)) /\ (\A r \in Roots : job[r] \notin Unqueued)

\* The completion of d by the runner of lease l still has to look at j.
OnItsWay(l, d, j) ==
    /\ leaseJob[l] = d
    /\ \/ th[Main(l)].pc = "compLease"
       \/ th[Main(l)].pc \in LoopPlaces /\ j \in th[Main(l)].todo
       \/ th[Main(l)].pc \in {"depAttempt", "queueJob"} /\ th[Main(l)].job = j

\* Whoever will write the rows of j next.
JobOK(j) ==
    /\ job[j] \in GoingStates /\ attempt[j] \in GoingStates
    /\ attempt[j] \notin Unqueued => job[j] \notin Unqueued
    /\ job[j] \notin Unqueued /\ attempt[j] \in Unqueued =>
          \E t \in Mains \union {Starter} : th[t].pc = "queueAttempt" /\ th[t].job = j
    /\ attempt[j] \in {"LEASED", "STARTING", "RUNNING"} => \E l \in Leases : Live(l) /\ leaseJob[l] = j
    /\ attempt[j] = "UPLOADING" =>
          \E l \in Leases : leaseJob[l] = j /\ th[Main(l)].pc \in {"compUpJob", "compAttempt"}
    /\ attempt[j] \in {"SUCCEEDED", "FAILED"} =>
          job[j] = attempt[j] \/ \E l \in Leases : leaseJob[l] = j /\ th[Main(l)].pc = "compJob"
    /\ job[j] \in Unqueued =>
          \A d \in DependsOn[j] : job[d] = "SUCCEEDED" => \E l \in Leases : OnItsWay(l, d, j)

\* Where a completion will still come to the verdict.
VerdictAhead == {"compLease", "finRead", "finList", "finWrite"} \union LoopPlaces

VerdictSeen == RunVerdict # Absent => \E l \in Leases : th[Main(l)].pc \in VerdictAhead

Work ==
    /\ \A t \in Threads : WorkFrame(t, th[t])
    /\ OpenOK
    /\ \A j \in Jobs : JobOK(j)
    /\ VerdictSeen

Underway == DeliveryInv /\ ResultInv /\ Going /\ Work

WorkInv == DeliveryInv /\ ResultInv /\ (Going => Work)

(***************************************************************************)
(* What the other invariants say of it.                                    *)
(***************************************************************************)

\* A run that goes on has been going on.
LEMMA GoingBefore ==
    ASSUME [StoreNext]_storeVars, Going'
    PROVE  /\ Going
           /\ run = "RUNNING" => run' = "RUNNING"
           /\ run = "QUEUED" => run' \in {"QUEUED", "RUNNING"}
<1>1. run' = run \/ (run = Absent /\ run' = "CREATED") \/ validateRunTransition(run, run')
    BY DEF StoreNext, RunNext, JobNext, LeaseNext, PurgeQueue, CreateRun, CreateJob, CreateJobAttempt,
           RecordJobDependency, TransitionRunState, TransitionJobState, TransitionJobAttemptState,
           EnqueueJobAttempt, DequeueJobAttempt, AckJobAttemptDispatch, VisibilityLapses, GrantLease,
           AcknowledgeLease, TouchLeaseHeartbeat, RenewLease, CompleteLease, TransitionLeaseState,
           ExpireLease, LeaseFallsDue, storeVars
<1> QED
    BY <1>1 DEF Going, validateRunTransition, RunStates, runTransitions, Absent

\* A row that has been inserted stays.
LEMMA RowInserted ==
    ASSUME NEW from, NEW to, Abstract!JobMoves(from, to), from # Absent
    PROVE  to # Absent
BY SameTables DEF Abstract!JobMoves, Abstract!JobStates, Abstract!validateJobTransition, Abstract!jobTransitions,
       Absent, Abstract!Absent

\* What a thread may rely on.
LEMMA UnderwayParts ==
    ASSUME Underway
    PROVE  /\ StoreInv /\ ThreadsInv /\ SystemInv /\ TimelyInv
           /\ \A t \in Threads : /\ th[t] \in Frames /\ FrameOK(t, th[t])
                                 /\ ResultFrame(t, th[t]) /\ WorkFrame(t, th[t])
<1>1. StoreInv /\ ThreadsInv /\ SystemInv /\ TimelyInv
    BY DEF Underway, ResultInv, TimelyInv, SystemInv, ThreadsInv
<1> QED
    BY <1>1 DEF Underway, Work, ResultInv, SystemInv

(***************************************************************************)
(* The frame of the thread that takes the step.                            *)
(***************************************************************************)
Onward == Underway /\ [StoreNext]_storeVars /\ Going'

OwnWork(t) == \E f : f = th'[t] /\ WorkFrame(t, f)'

\* The places the invariant speaks about.
NotedPlaces ==
    BusyPlaces \union ResultPlaces \union ClosedPlaces \union {"hbJob", "finWrite", "queueAttempt", "enqueue"}

\* A worker or runner has a lease, and the rows of its job to itself.
LEMMA MainParts ==
    ASSUME Underway, NEW t \in Mains
    PROVE  /\ t \in Threads /\ LeaseOf(t) \in Leases /\ t = Main(LeaseOf(t)) /\ t # Starter /\ t # Canceler
           /\ HolderOK(LeaseOf(t), th[t]) /\ QueuerOK(th[t])
           /\ th[t].pc \notin WorkerPlaces => leaseState[LeaseOf(t)] # Absent /\ JobOf(t) \in Jobs
           /\ th[t].pc \in HeldPlaces => Live(LeaseOf(t)) /\ ~due[LeaseOf(t)]
           /\ th[t].pc \in AckedPlaces => leaseState[LeaseOf(t)] = "ACTIVE"
<1>1. t \in Threads /\ LeaseOf(t) \in Leases /\ t = Main(LeaseOf(t)) /\ t # Starter /\ t # Canceler
    BY ThreadKinds DEF Threads
<1>2. StoreInv /\ TimelyInv /\ WorkFrame(t, th[t]) /\ FrameOK(t, th[t])
    BY <1>1, UnderwayParts
<1>3. HolderOK(LeaseOf(t), th[t]) /\ QueuerOK(th[t])
    BY <1>2 DEF WorkFrame
<1>4. th[t].pc \notin WorkerPlaces => leaseState[LeaseOf(t)] # Absent
    BY <1>2 DEF FrameOK
<1>5. leaseState[LeaseOf(t)] # Absent => JobOf(t) \in Jobs
    BY <1>1, <1>2 DEF StoreInv, GrantedOnQueued, JobOf
<1>6. th[t].pc \in HeldPlaces => Live(LeaseOf(t)) /\ th[t].pc # "gone"
    BY <1>1, <1>2 DEF TimelyInv, HeldIsLive, HeldPlaces, AckedPlaces
<1>7. due[LeaseOf(t)] => th[t].pc = "gone"
    BY <1>1, <1>2 DEF TimelyInv, DueIsAbandoned, Abandoned, At
<1>8. th[t].pc \in AckedPlaces => leaseState[LeaseOf(t)] = "ACTIVE"
    BY <1>1, <1>2 DEF TimelyInv, HeldIsLive
<1> QED
    BY <1>1, <1>3, <1>4, <1>5, <1>6, <1>7, <1>8

LEMMA OnwardParts ==
    ASSUME Onward
    PROVE  /\ Underway /\ StoreInv /\ ThreadsInv /\ [StoreNext]_storeVars /\ Going /\ Going'
           /\ run = "RUNNING" => run' = "RUNNING"
BY UnderwayParts, GoingBefore DEF Onward

\* A lease in hand stays on its job.
LEMMA JobStays ==
    ASSUME Onward, NEW t \in Mains, th[t].pc \notin WorkerPlaces
    PROVE  leaseJob'[LeaseOf(t)] = JobOf(t) /\ JobOf(t) \in Jobs
BY OnwardParts, MainParts, GrantStays DEF StoreInv, JobOf

\* What stays in a frame.
LEMMA FrameKept ==
    ASSUME Onward, NEW t \in Threads
    PROVE  /\ \A place : Goto(t, place) =>
                /\ th'[t].pc = place /\ th'[t].job = th[t].job /\ th'[t].todo = th[t].todo
                /\ th'[t].run = th[t].run /\ th'[t].attempt = th[t].attempt /\ th'[t].status = th[t].status
           /\ \A f : GotoWith(t, f) => th'[t] = f
           /\ \A place : Finish(t, place) =>
                th'[t].pc = place /\ th'[t].run = Absent /\ th'[t].attempt = Absent
<1>1. th[t] \in Frames /\ DOMAIN th = Threads
    BY OnwardParts DEF ThreadsInv
<1>2. ASSUME NEW place, Goto(t, place)
      PROVE  /\ th'[t].pc = place /\ th'[t].job = th[t].job /\ th'[t].todo = th[t].todo
             /\ th'[t].run = th[t].run /\ th'[t].attempt = th[t].attempt /\ th'[t].status = th[t].status
    BY <1>1, <1>2 DEF Goto, Frames
<1>3. ASSUME NEW f, GotoWith(t, f) PROVE th'[t] = f
    BY <1>1, <1>3 DEF GotoWith
<1>4. ASSUME NEW place, Finish(t, place)
      PROVE  th'[t].pc = place /\ th'[t].run = Absent /\ th'[t].attempt = Absent
    BY <1>1, <1>4 DEF Finish, GotoWith, NewFrame
<1> QED
    BY <1>2, <1>3, <1>4

\* A place the invariant does not speak about.
LEMMA PlainWork ==
    ASSUME Onward, NEW t \in Mains, NEW f, f.run \notin UndeliverableRunStates, f.attempt # "CANCEL_REQUESTED",
           f.pc \notin NotedPlaces, f.pc \in WorkerStart \/ run' = "RUNNING"
    PROVE  WorkFrame(t, f)'
<1>1. t # Starter /\ t # Canceler
    BY OnwardParts, MainParts
<1>2. HolderOK(LeaseOf(t), f)'
    BY DEF HolderOK, NotedPlaces, BusyPlaces, ResultPlaces
<1>3. QueuerOK(f)'
    BY DEF QueuerOK, NotedPlaces
<1> QED
    BY <1>1, <1>2, <1>3 DEF WorkFrame

LEMMA WorkerStartPlain == WorkerStart \cap NotedPlaces = {}
BY DEF WorkerStart, NotedPlaces, BusyPlaces, ResultPlaces, ClosedPlaces

LEMMA ExitWork ==
    ASSUME Onward, NEW t \in Mains, Fails(t) \/ Returns(t)
    PROVE  OwnWork(t) /\ th'[t].pc \in {"idle", "gone"}
<1>1. t \in Threads /\ t \notin Ticks /\ t # Starter /\ t # Canceler
    BY ThreadKinds DEF Threads
<1>2. \E place \in {"idle", "gone"} : Finish(t, place)
    BY <1>1 DEF Fails, Returns
<1>3. PICK f : f = th'[t]
    OBVIOUS
<1>4. f.pc \in {"idle", "gone"} /\ f.run = Absent /\ f.attempt = Absent
    BY <1>1, <1>2, <1>3, FrameKept
<1>5. f.run \notin UndeliverableRunStates /\ f.attempt # "CANCEL_REQUESTED"
    BY <1>4 DEF UndeliverableRunStates, TerminalRunStates, Absent
<1>6. f.pc \in WorkerStart /\ f.pc \notin NotedPlaces
    BY <1>4, WorkerStartPlain DEF WorkerStart
<1>7. WorkFrame(t, f)'
    BY <1>5, <1>6, PlainWork
<1> QED
    BY <1>3, <1>4, <1>7 DEF OwnWork

LEMMA GotoWork ==
    ASSUME Onward, NEW t \in Mains, NEW place, Goto(t, place), place \notin NotedPlaces,
           place \in WorkerStart \/ th[t].pc \notin WorkerStart \/ run' = "RUNNING"
    PROVE  OwnWork(t)
<1>1. t \in Threads /\ HolderOK(LeaseOf(t), th[t])
    BY OnwardParts, MainParts
<1>2. PICK f : f = th'[t]
    OBVIOUS
<1>3. f.pc = place /\ f.run = th[t].run /\ f.attempt = th[t].attempt
    BY <1>1, <1>2, FrameKept
<1>4. th[t].pc \notin WorkerStart => run' = "RUNNING"
    BY <1>1, OnwardParts DEF HolderOK
<1>5. WorkFrame(t, f)'
    BY <1>1, <1>3, <1>4, PlainWork DEF HolderOK
<1> QED
    BY <1>2, <1>5 DEF OwnWork

\* A frame made afresh.
LEMMA FreshWork ==
    ASSUME Onward, NEW t \in Mains, NEW f, GotoWith(t, f), f.run = Absent, f.attempt = Absent,
           f.pc \notin NotedPlaces, f.pc \in WorkerStart \/ th[t].pc \notin WorkerStart
    PROVE  OwnWork(t)
<1>1. t \in Threads /\ HolderOK(LeaseOf(t), th[t])
    BY OnwardParts, MainParts
<1>2. f = th'[t]
    BY <1>1, FrameKept
<1>3. th[t].pc \notin WorkerStart => run' = "RUNNING"
    BY <1>1, OnwardParts DEF HolderOK
<1>4. f.run \notin UndeliverableRunStates /\ f.attempt # "CANCEL_REQUESTED"
    BY DEF UndeliverableRunStates, TerminalRunStates, Absent
<1>5. WorkFrame(t, f)'
    BY <1>3, <1>4, PlainWork
<1> QED
    BY <1>2, <1>5 DEF OwnWork

(***************************************************************************)
(* What a step of a handler writes, and what it hands on.                  *)
(***************************************************************************)
AttemptWrites(t) ==
    \A j \in Jobs :
        \/ attempt'[j] = attempt[j]
        \/ attempt[j] = Absent /\ attempt'[j] = "CREATED"
        \/ /\ t \in Mains \union {Starter} /\ th[t].pc = "queueAttempt" /\ th[t].job = j
           /\ attempt[j] \in Unqueued /\ attempt'[j] = "QUEUED"
        \/ t \in Mains /\ GrantLease(LeaseOf(t), j)
        \/ attempt[j] = "LEASED" /\ attempt'[j] = "STARTING"
        \/ attempt[j] = "STARTING" /\ attempt'[j] = "RUNNING"
        \/ /\ t \in Mains /\ JobOf(t) = j /\ th[t].pc = "compUpAttempt" /\ th'[t].pc = "compUpJob"
           /\ attempt'[j] = "UPLOADING"
        \/ t \in Mains /\ JobOf(t) = j /\ th[t].pc = "compAttempt" /\ attempt'[j] = th[t].status

JobWrites(t) ==
    \A j \in Jobs :
        \/ job'[j] = job[j]
        \/ job[j] = Absent /\ job'[j] = "CREATED"
        \/ /\ t \in Mains \union {Starter} /\ th[t].pc = "queueJob" /\ th'[t].pc = "queueAttempt"
           /\ th'[t].job = j /\ job[j] \in Unqueued /\ job'[j] = "QUEUED"
        \/ t \in Mains /\ GrantLease(LeaseOf(t), j)
        \/ job[j] = "LEASED" /\ job'[j] = "STARTING"
        \/ job[j] = "STARTING" /\ job'[j] = "RUNNING"
        \/ t \in Mains /\ JobOf(t) = j /\ th[t].pc = "compUpJob" /\ job'[j] = "UPLOADING"
        \/ t \in Mains /\ JobOf(t) = j /\ th[t].pc = "compJob" /\ job'[j] = th[t].status

\* The completion of a job keeps its errands until they are done.
Carries(t) ==
    \A d, j \in Jobs :
        /\ OnItsWay(LeaseOf(t), d, j)
        /\ d \in DependsOn[j] /\ job[d] = "SUCCEEDED" /\ job'[j] \in Unqueued
        => OnItsWay(LeaseOf(t), d, j)'

HandsOn(t) ==
    /\ th[t].pc = "queueAttempt" => attempt'[th[t].job] \notin Unqueued
    /\ t \in Mains =>
          /\ th[t].pc = "compUpJob" => th'[t].pc = "compAttempt"
          /\ th[t].pc = "compAttempt" => th'[t].pc = "compJob"
          /\ th[t].pc = "compJob" => th'[t].pc = "compLease"
          /\ RunVerdict # Absent /\ th[t].pc \in VerdictAhead => th'[t].pc \in VerdictAhead
          /\ Carries(t)

Works(t) == AttemptWrites(t) /\ JobWrites(t) /\ OwnWork(t) /\ HandsOn(t)

HandingPlaces == {"compUpJob", "compAttempt", "compJob", "queueAttempt"} \union VerdictAhead

LEMMA NothingInHand ==
    ASSUME Onward, NEW t \in Threads, th[t].pc \notin HandingPlaces
    PROVE  HandsOn(t)
<1>1. t \in Mains => t = Main(LeaseOf(t))
    BY OnwardParts, MainParts
<1>2. t \in Mains => Carries(t)
    BY <1>1 DEF Carries, OnItsWay, HandingPlaces, VerdictAhead, LoopPlaces, QueuePlaces
<1> QED
    BY <1>2 DEF HandsOn, HandingPlaces

LEMMA RowsKept ==
    ASSUME NEW t, UNCHANGED <<job, attempt>>
    PROVE  AttemptWrites(t) /\ JobWrites(t)
BY DEF AttemptWrites, JobWrites

LEMMA JobTable ==
    /\ \A from : /\ validateJobTransition(from, "STARTING") => from \in {"LEASED", "STARTING"}
                 /\ validateJobTransition(from, "RUNNING") => from \in {"STARTING", "RUNNING"}
                 /\ validateJobTransition(from, "LEASED") => from \in {"QUEUED", "LEASED"}
    /\ validateJobTransition("CREATED", "QUEUED")
    /\ validateJobTransition("RUNNING", "UPLOADING")
    /\ validateJobTransition("UPLOADING", "SUCCEEDED")
    /\ validateJobTransition("UPLOADING", "FAILED")
BY DEF validateJobTransition, jobTransitions, JobStates

\* One row of a table is written.
LEMMA AttemptRow ==
    ASSUME Onward, NEW j, NEW next, TransitionJobAttemptState(j, next)
    PROVE  /\ job' = job /\ run' = run /\ UNCHANGED leaseVars
           /\ \A i \in Jobs : attempt'[i] = IF i = j THEN next ELSE attempt[i]
BY OnwardParts DEF TransitionJobAttemptState, StoreInv, StoreTypeOK

LEMMA JobRow ==
    ASSUME Onward, NEW j, NEW next, TransitionJobState(j, next)
    PROVE  /\ attempt' = attempt /\ run' = run /\ UNCHANGED leaseVars
           /\ \A i \in Jobs : job'[i] = IF i = j THEN next ELSE job[i]
BY OnwardParts DEF TransitionJobState, StoreInv, StoreTypeOK

\* A runner, or its ticker, reports that the job starts or runs.
LEMMA ProgressWrites ==
    ASSUME Onward, NEW t, NEW j, NEW next \in {"STARTING", "RUNNING"}, NEW p, NEW q, NEW r,
           transitionJobAndAttempt(t, j, next, <<p, q, r>>)
    PROVE  /\ AttemptWrites(t) /\ JobWrites(t)
           /\ \/ Fails(t) /\ th[t].pc \in {p, q}
              \/ th[t].pc = p /\ Goto(t, q) /\ (j \in Jobs => attempt'[j] = next) /\ UNCHANGED <<run, job>>
              \/ /\ th[t].pc = q /\ Goto(t, r) /\ (j \in Jobs => job'[j] = next)
                 /\ UNCHANGED <<run, attempt>>
<1>1. CASE UNCHANGED storeVars /\ Fails(t) /\ th[t].pc \in {p, q}
    BY <1>1, RowsKept DEF storeVars
<1>2. CASE TransitionJobAttemptState(j, next) /\ th[t].pc = p /\ Goto(t, q)
    <2>1. validateJobTransition(attempt[j], next)
        BY <1>2 DEF TransitionJobAttemptState
    <2>2. attempt[j] = next \/ (attempt[j] = "LEASED" /\ next = "STARTING") \/ (attempt[j] = "STARTING" /\ next = "RUNNING")
        BY <2>1, JobTable
    <2>3. /\ job' = job /\ run' = run
          /\ \A i \in Jobs : attempt'[i] = IF i = j THEN next ELSE attempt[i]
        BY <1>2, AttemptRow
    <2>4. AttemptWrites(t)
        BY <2>2, <2>3 DEF AttemptWrites
    <2>5. JobWrites(t)
        BY <2>3 DEF JobWrites
    <2> QED
        BY <1>2, <2>3, <2>4, <2>5
<1>3. CASE TransitionJobState(j, next) /\ th[t].pc = q /\ Goto(t, r)
    <2>1. validateJobTransition(job[j], next)
        BY <1>3 DEF TransitionJobState
    <2>2. job[j] = next \/ (job[j] = "LEASED" /\ next = "STARTING") \/ (job[j] = "STARTING" /\ next = "RUNNING")
        BY <2>1, JobTable
    <2>3. /\ attempt' = attempt /\ run' = run
          /\ \A i \in Jobs : job'[i] = IF i = j THEN next ELSE job[i]
        BY <1>3, JobRow
    <2>4. JobWrites(t)
        BY <2>2, <2>3 DEF JobWrites
    <2>5. AttemptWrites(t)
        BY <2>3 DEF AttemptWrites
    <2> QED
        BY <1>3, <2>3, <2>4, <2>5
<1> QED
    BY <1>1, <1>2, <1>3 DEF transitionJobAndAttempt, At, TryAttempt, TryJob

\* A step that writes nothing of the jobs, from a place where nothing is in hand.
LEMMA QuietWork ==
    ASSUME Onward, NEW t \in Mains, th[t].pc \notin HandingPlaces, UNCHANGED <<job, attempt>>, OwnWork(t)
    PROVE  Works(t)
BY OnwardParts, MainParts, RowsKept, NothingInHand DEF Works

LEMMA RunStepRows ==
    ASSUME NEW t, NEW place, reportRun(t, place) \/ \E next : TryRun(t, next, place)
    PROVE  UNCHANGED <<job, attempt>>
BY DEF reportRun, TryRun, TransitionRunState, storeVars

\* The worker.
LEMMA GrantWork ==
    ASSUME Onward, NEW t \in Mains, GrantSteps(t)
    PROVE  Works(t)
<1>1. {"idle", "dequeue", "grantRead", "grant", "grantDispatched", "grantRun", "grantReport", "granted"}
          \cap (NotedPlaces \union HandingPlaces) = {}
    BY DEF NotedPlaces, BusyPlaces, ResultPlaces, ClosedPlaces, HandingPlaces, VerdictAhead, LoopPlaces, QueuePlaces
<1>2. CASE Dequeue(t)
    <2>1. UNCHANGED <<job, attempt>> /\ th[t].pc \in {"idle", "dequeue"}
        BY <1>2 DEF Dequeue, At, PurgeQueue, DequeueJobAttempt, storeVars
    <2>2. ASSUME NEW j, GotoWith(t, [NewFrame EXCEPT !.pc = "grantRead", !.job = j]) PROVE OwnWork(t)
        <3>1. PICK f : f = [NewFrame EXCEPT !.pc = "grantRead", !.job = j]
            OBVIOUS
        <3>2. f.run = Absent /\ f.attempt = Absent /\ f.pc = "grantRead"
            BY <3>1 DEF NewFrame
        <3>3. GotoWith(t, f)
            BY <2>2, <3>1
        <3> QED
            BY <1>1, <3>2, <3>3, FreshWork DEF WorkerStart
    <2>3. ASSUME NEW place \in {"idle", "dequeue"}, Goto(t, place) PROVE OwnWork(t)
        BY <1>1, <2>3, GotoWork DEF WorkerStart
    <2>4. OwnWork(t)
        BY <1>2, <2>2, <2>3 DEF Dequeue
    <2> QED
        BY <1>1, <2>1, <2>4, QuietWork
<1>3. CASE GrantLease_Read(t)
    <2>1. UNCHANGED <<job, attempt>> /\ th[t].pc = "grantRead" /\ (Fails(t) \/ Goto(t, "grant"))
        BY <1>3 DEF GrantLease_Read, At, storeVars
    <2>2. OwnWork(t)
        BY <1>1, <2>1, GotoWork, ExitWork DEF WorkerStart
    <2> QED
        BY <1>1, <2>1, <2>2, QuietWork
<1>4. CASE GrantLease_Grant(t)
    <2>1. th[t].pc = "grant"
        BY <1>4 DEF GrantLease_Grant, At
    <2>2. CASE GrantLease(LeaseOf(t), th[t].job) /\ Goto(t, "grantDispatched")
        <3>1. OwnWork(t)
            BY <1>1, <2>2, GotoWork DEF WorkerStart
        <3>2. \A j \in Jobs : \/ attempt'[j] = attempt[j] /\ job'[j] = job[j]
                              \/ GrantLease(LeaseOf(t), j)
            BY <2>2, OnwardParts DEF GrantLease, StoreInv, StoreTypeOK
        <3>3. AttemptWrites(t) /\ JobWrites(t)
            BY <3>2 DEF AttemptWrites, JobWrites
        <3>4. HandsOn(t)
            BY <1>1, <2>1, MainParts, OnwardParts, NothingInHand
        <3> QED
            BY <3>1, <3>3, <3>4 DEF Works
    <2>3. CASE UNCHANGED storeVars /\ Fails(t)
        <3>1. UNCHANGED <<job, attempt>> /\ OwnWork(t)
            BY <2>3, ExitWork DEF storeVars
        <3> QED
            BY <1>1, <2>1, <3>1, QuietWork
    <2> QED
        BY <1>4, <2>2, <2>3 DEF GrantLease_Grant
<1>5. CASE GrantLease_Dispatched(t)
    <2>1. PICK f : f = [NewFrame EXCEPT !.pc = "grantRun"]
        OBVIOUS
    <2>2. f.run = Absent /\ f.attempt = Absent /\ f.pc = "grantRun"
        BY <2>1 DEF NewFrame
    <2>3. UNCHANGED <<job, attempt>> /\ th[t].pc = "grantDispatched" /\ GotoWith(t, f)
        BY <1>5, <2>1 DEF GrantLease_Dispatched, AckJobAttemptDispatch, At
    <2>4. OwnWork(t)
        BY <1>1, <2>2, <2>3, FreshWork DEF WorkerStart
    <2> QED
        BY <1>1, <2>3, <2>4, QuietWork
<1>6. CASE GrantLease_Run(t)
    <2>1. th[t].pc = "grantRun" /\ TryRun(t, "RUNNING", "grantReport")
        BY <1>6 DEF GrantLease_Run, At
    <2>2. Fails(t) \/ (run' = "RUNNING" /\ Goto(t, "grantReport"))
        BY <2>1 DEF TryRun, TransitionRunState
    <2>3. OwnWork(t)
        BY <1>1, <2>2, GotoWork, ExitWork
    <2> QED
        BY <1>1, <2>1, <2>3, RunStepRows, QuietWork
<1>7. CASE GrantLease_Report(t)
    <2>1. th[t].pc = "grantReport" /\ reportRun(t, "granted")
        BY <1>7 DEF GrantLease_Report, At
    <2>2. Goto(t, "granted")
        BY <2>1 DEF reportRun
    <2>3. OwnWork(t)
        BY <1>1, <2>1, <2>2, GotoWork DEF WorkerStart
    <2> QED
        BY <1>1, <2>1, <2>3, RunStepRows, QuietWork
<1> QED
    BY <1>2, <1>3, <1>4, <1>5, <1>6, <1>7 DEF GrantSteps

\* The check that opens a message finds the lease live and in time.
LEMMA CheckWork ==
    ASSUME Onward, NEW t \in Mains, NEW here, NEW place, CheckLease(t, here, place),
           here \notin HandingPlaces \union WorkerStart, place \notin NotedPlaces
    PROVE  Works(t)
<1>1. UNCHANGED <<job, attempt>> /\ th[t].pc = here /\ (Fails(t) \/ Goto(t, place))
    BY DEF CheckLease, At, storeVars
<1>2. OwnWork(t)
    BY <1>1, GotoWork, ExitWork
<1> QED
    BY <1>1, <1>2, QuietWork

\* The acknowledgement.
LEMMA AckWork ==
    ASSUME Onward, NEW t \in Mains, AckSteps(t)
    PROVE  Works(t)
<1>1. {"granted", "ackAttempt", "ackJob", "ackRead", "ackRun", "hbLease"}
          \cap (NotedPlaces \union HandingPlaces \union WorkerStart) = {}
    BY DEF NotedPlaces, BusyPlaces, ResultPlaces, ClosedPlaces, HandingPlaces, VerdictAhead, LoopPlaces, QueuePlaces,
           WorkerStart
<1>2. CASE AckLease_Acknowledge(t)
    <2>1. /\ UNCHANGED <<job, attempt>> /\ th[t].pc = "granted"
          /\ Fails(t) \/ Goto(t, "ackAttempt")
        BY <1>2 DEF AckLease_Acknowledge, AcknowledgeLease, RenewLease, At, storeVars
    <2>2. OwnWork(t)
        BY <1>1, <2>1, GotoWork, ExitWork
    <2> QED
        BY <1>1, <2>1, <2>2, QuietWork
<1>3. CASE AckLease_Start(t)
    <2>1. transitionJobAndAttempt(t, JobOf(t), "STARTING", <<"ackAttempt", "ackJob", "ackRead">>)
        BY <1>3 DEF AckLease_Start
    <2>2. /\ AttemptWrites(t) /\ JobWrites(t) /\ th[t].pc \in {"ackAttempt", "ackJob"}
          /\ Fails(t) \/ Goto(t, "ackJob") \/ Goto(t, "ackRead")
        BY <2>1, ProgressWrites
    <2>3. OwnWork(t)
        BY <1>1, <2>2, GotoWork, ExitWork
    <2>4. HandsOn(t)
        BY <1>1, <2>2, MainParts, OnwardParts, NothingInHand
    <2> QED
        BY <2>2, <2>3, <2>4 DEF Works
<1>4. CASE AckLease_Read(t)
    <2>1. /\ UNCHANGED <<job, attempt>> /\ th[t].pc = "ackRead"
          /\ Goto(t, "hbLease") \/ Goto(t, "ackRun")
        BY <1>4 DEF AckLease_Read, At, storeVars
    <2>2. OwnWork(t)
        BY <1>1, <2>1, GotoWork
    <2> QED
        BY <1>1, <2>1, <2>2, QuietWork
<1>5. CASE AckLease_Run(t)
    <2>1. th[t].pc = "ackRun" /\ TryRun(t, "RUNNING", "hbLease")
        BY <1>5 DEF AckLease_Run, At
    <2>2. Fails(t) \/ Goto(t, "hbLease")
        BY <2>1 DEF TryRun
    <2>3. OwnWork(t)
        BY <1>1, <2>1, <2>2, GotoWork, ExitWork
    <2> QED
        BY <1>1, <2>1, <2>3, RunStepRows, QuietWork
<1> QED
    BY <1>2, <1>3, <1>4, <1>5 DEF AckSteps

\* While the command runs, and its end is reported, both rows stay RUNNING.
LEMMA BusyWork ==
    ASSUME Onward, NEW t \in Mains, th[t].pc \notin WorkerPlaces \union WorkerStart,
           attempt'[JobOf(t)] = "RUNNING", job'[JobOf(t)] = "RUNNING",
           NEW f, f.pc \in BusyPlaces, f.run \notin UndeliverableRunStates, f.attempt # "CANCEL_REQUESTED",
           f.pc = "compReadRun" => f.attempt = "RUNNING",
           f.pc \in ResultPlaces => f.status \in {"SUCCEEDED", "FAILED"}
    PROVE  WorkFrame(t, f)'
<1>1. t # Starter /\ t # Canceler /\ HolderOK(LeaseOf(t), th[t])
    BY OnwardParts, MainParts
<1>2. leaseJob'[LeaseOf(t)] = JobOf(t) /\ run' = "RUNNING"
    BY <1>1, JobStays, OnwardParts DEF HolderOK
<1>3. f.pc \notin ClosedPlaces \union {"compUpJob", "compAttempt", "compJob", "compLease", "hbJob", "finWrite",
                                       "queueAttempt", "enqueue"}
    BY DEF BusyPlaces, ClosedPlaces
<1>4. HolderOK(LeaseOf(t), f)'
    BY <1>2, <1>3 DEF HolderOK
<1>5. QueuerOK(f)'
    BY <1>3 DEF QueuerOK
<1> QED
    BY <1>1, <1>4, <1>5 DEF WorkFrame

LEMMA BusyOutside == BusyPlaces \cap (WorkerPlaces \union WorkerStart \union HandingPlaces) = {}
BY DEF BusyPlaces, WorkerPlaces, WorkerStart, HandingPlaces, VerdictAhead, LoopPlaces, QueuePlaces

LEMMA BusyStays ==
    ASSUME Onward, NEW t \in Mains, th[t].pc \in BusyPlaces, UNCHANGED <<job, attempt>>,
           NEW f, f.pc \in BusyPlaces, f.run \notin UndeliverableRunStates, f.attempt # "CANCEL_REQUESTED",
           f.pc = "compReadRun" => f.attempt = "RUNNING",
           f.pc \in ResultPlaces => f.status \in {"SUCCEEDED", "FAILED"}
    PROVE  WorkFrame(t, f)'
<1>1. HolderOK(LeaseOf(t), th[t])
    BY OnwardParts, MainParts
<1>2. attempt[JobOf(t)] = "RUNNING" /\ job[JobOf(t)] = "RUNNING"
    BY <1>1 DEF HolderOK, JobOf
<1> QED
    BY <1>2, BusyOutside, BusyWork

\* The states a handler reads are none of a cancellation.
LEMMA ReadsGoing ==
    ASSUME Onward, NEW j \in Jobs
    PROVE  /\ job[j] \in GoingStates /\ attempt[j] \in GoingStates
           /\ job[j] # "CANCEL_REQUESTED" /\ attempt[j] # "CANCEL_REQUESTED"
           /\ run \notin UndeliverableRunStates
<1>1. job[j] \in GoingStates /\ attempt[j] \in GoingStates
    BY OnwardParts DEF Underway, Work, JobOK
<1>2. run \notin UndeliverableRunStates
    BY OnwardParts DEF Going, UndeliverableRunStates, TerminalRunStates, Absent
<1> QED
    BY <1>1, <1>2 DEF GoingStates, Absent

\* The heartbeat a runner waits for before it runs the command.
LEMMA HeartbeatWork ==
    ASSUME Onward, NEW t \in Mains, HeartbeatSteps(t)
    PROVE  Works(t)
<1>1. {"hbLease", "hbTouch", "hbReadAttempt", "hbReadJob", "hbReadRun", "hbAttempt"}
          \cap (NotedPlaces \union HandingPlaces \union WorkerStart \union WorkerPlaces) = {}
    BY DEF NotedPlaces, BusyPlaces, ResultPlaces, ClosedPlaces, HandingPlaces, VerdictAhead, LoopPlaces, QueuePlaces,
           WorkerStart, WorkerPlaces
<1>2. t \in Threads /\ th[t] \in Frames /\ HolderOK(LeaseOf(t), th[t]) /\ t # Starter /\ t # Canceler
    BY OnwardParts, MainParts, UnderwayParts
<1>3. CASE CheckLease(t, "hbLease", "hbTouch")
    BY <1>1, <1>3, CheckWork
<1>4. CASE Heartbeat_Touch(t)
    <2>1. /\ UNCHANGED <<job, attempt>> /\ th[t].pc = "hbTouch"
          /\ Fails(t) \/ Goto(t, "hbReadAttempt")
        BY <1>4 DEF Heartbeat_Touch, TouchLeaseHeartbeat, RenewLease, At, storeVars
    <2>2. OwnWork(t)
        BY <1>1, <2>1, GotoWork, ExitWork
    <2> QED
        BY <1>1, <2>1, <2>2, QuietWork
<1>5. CASE Heartbeat_ReadAttempt(t) \/ Heartbeat_ReadJob(t) \/ Heartbeat_ReadRun(t)
    <2>1. UNCHANGED <<job, attempt>> /\ th[t].pc \in {"hbReadAttempt", "hbReadJob", "hbReadRun"}
        BY <1>5 DEF Heartbeat_ReadAttempt, Heartbeat_ReadJob, Heartbeat_ReadRun, At, storeVars
    <2>2. JobOf(t) \in Jobs /\ run' = "RUNNING"
        BY <1>1, <1>2, <2>1, OnwardParts, MainParts DEF HolderOK
    <2>3. /\ attempt[JobOf(t)] # "CANCEL_REQUESTED" /\ run \notin UndeliverableRunStates
          /\ th[t].run \notin UndeliverableRunStates /\ th[t].attempt # "CANCEL_REQUESTED"
        BY <1>2, <2>2, ReadsGoing DEF HolderOK
    <2>4. PICK f : /\ GotoWith(t, f) /\ f.pc \in {"hbReadJob", "hbReadRun", "hbAttempt"}
                   /\ f.run \notin UndeliverableRunStates /\ f.attempt # "CANCEL_REQUESTED"
        <3>1. CASE Heartbeat_ReadAttempt(t)
            <4>1. PICK f : f = [th[t] EXCEPT !.pc = "hbReadJob", !.attempt = attempt[JobOf(t)]]
                OBVIOUS
            <4>2. f.pc = "hbReadJob" /\ f.run = th[t].run /\ f.attempt = attempt[JobOf(t)]
                BY <1>2, <4>1 DEF Frames
            <4> QED
                BY <2>3, <3>1, <4>1, <4>2 DEF Heartbeat_ReadAttempt
        <3>2. CASE Heartbeat_ReadJob(t)
            <4>1. PICK f : f = [th[t] EXCEPT !.pc = "hbReadRun", !.cancel = (job[JobOf(t)] = "CANCEL_REQUESTED")]
                OBVIOUS
            <4>2. f.pc = "hbReadRun" /\ f.run = th[t].run /\ f.attempt = th[t].attempt
                BY <1>2, <4>1 DEF Frames
            <4> QED
                BY <2>3, <3>2, <4>1, <4>2 DEF Heartbeat_ReadJob
        <3>3. CASE Heartbeat_ReadRun(t)
            <4>1. PICK c : GotoWith(t, [NewFrame EXCEPT !.pc = "hbAttempt", !.run = run, !.cancel = c])
                BY <2>3, <3>3 DEF Heartbeat_ReadRun
            <4>2. PICK f : f = [NewFrame EXCEPT !.pc = "hbAttempt", !.run = run, !.cancel = c]
                OBVIOUS
            <4>3. f.pc = "hbAttempt" /\ f.run = run /\ f.attempt = Absent
                BY <4>2 DEF NewFrame
            <4> QED
                BY <2>3, <4>1, <4>2, <4>3 DEF Absent
        <3> QED
            BY <1>5, <3>1, <3>2, <3>3
    <2>5. WorkFrame(t, f)' /\ f = th'[t]
        BY <1>1, <1>2, <2>2, <2>4, PlainWork, FrameKept
    <2> QED
        BY <1>1, <2>1, <2>5, QuietWork DEF OwnWork
<1>6. CASE Heartbeat_Running(t)
    <2>1. PICK r \in {"hbReply", "hbRun"} :
              transitionJobAndAttempt(t, JobOf(t), "RUNNING", <<"hbAttempt", "hbJob", r>>)
        BY <1>6 DEF Heartbeat_Running
    <2>2. /\ AttemptWrites(t) /\ JobWrites(t)
          /\ \/ Fails(t) /\ th[t].pc \in {"hbAttempt", "hbJob"}
             \/ /\ th[t].pc = "hbAttempt" /\ Goto(t, "hbJob")
                /\ (JobOf(t) \in Jobs => attempt'[JobOf(t)] = "RUNNING") /\ UNCHANGED <<run, job>>
             \/ /\ th[t].pc = "hbJob" /\ Goto(t, r)
                /\ (JobOf(t) \in Jobs => job'[JobOf(t)] = "RUNNING") /\ UNCHANGED <<run, attempt>>
        BY <2>1, ProgressWrites
    <2>3. "hbJob" \notin WorkerPlaces \union WorkerStart \union HandingPlaces
        BY DEF WorkerPlaces, WorkerStart, HandingPlaces, VerdictAhead, LoopPlaces, QueuePlaces
    <2>4. /\ th[t].pc \notin WorkerPlaces \union WorkerStart \union HandingPlaces
          /\ JobOf(t) \in Jobs /\ leaseJob'[LeaseOf(t)] = JobOf(t) /\ run' = "RUNNING"
        BY <1>1, <1>2, <2>2, <2>3, OnwardParts, MainParts, JobStays DEF HolderOK
    <2>5. ASSUME th[t].pc = "hbAttempt", Goto(t, "hbJob"), attempt'[JobOf(t)] = "RUNNING"
          PROVE  OwnWork(t)
        <3>1. PICK f : f = th'[t]
            OBVIOUS
        <3>2. f.pc = "hbJob" /\ f.run = th[t].run /\ f.attempt = th[t].attempt
            BY <1>2, <2>5, <3>1, FrameKept
        <3>3. HolderOK(LeaseOf(t), f)'
            BY <1>2, <2>4, <2>5, <3>2 DEF HolderOK, BusyPlaces, ResultPlaces, ClosedPlaces
        <3>4. QueuerOK(f)'
            BY <3>2 DEF QueuerOK
        <3> QED
            BY <1>2, <3>1, <3>3, <3>4 DEF OwnWork, WorkFrame
    <2>6. ASSUME th[t].pc = "hbJob", Goto(t, r), job'[JobOf(t)] = "RUNNING", attempt' = attempt
          PROVE  OwnWork(t)
        <3>1. PICK f : f = th'[t]
            OBVIOUS
        <3>2. f.pc = r /\ f.run = th[t].run /\ f.attempt = th[t].attempt
            BY <1>2, <2>6, <3>1, FrameKept
        <3>3. attempt'[JobOf(t)] = "RUNNING"
            BY <1>2, <2>6 DEF HolderOK, JobOf
        <3>4. f.pc \in BusyPlaces /\ f.pc # "compReadRun" /\ f.pc \notin ResultPlaces
            BY <3>2 DEF BusyPlaces, ResultPlaces
        <3>5. WorkFrame(t, f)'
            BY <1>2, <2>4, <2>6, <3>2, <3>3, <3>4, BusyWork DEF HolderOK
        <3> QED
            BY <3>1, <3>5 DEF OwnWork
    <2>7. OwnWork(t)
        BY <2>2, <2>4, <2>5, <2>6, ExitWork
    <2>8. HandsOn(t)
        BY <1>2, <2>4, NothingInHand
    <2> QED
        BY <2>2, <2>7, <2>8 DEF Works
<1>7. CASE Heartbeat_Run(t) \/ Heartbeat_Reply(t)
    <2>1. /\ UNCHANGED <<job, attempt>> /\ th[t].pc \in {"hbRun", "hbReply"}
          /\ Fails(t) \/ Goto(t, "hbReply") \/ Finish(t, "exec")
        BY <1>7, RunStepRows DEF Heartbeat_Run, Heartbeat_Reply, TryRun, At, storeVars
    <2>2. ASSUME Goto(t, "hbReply") \/ Finish(t, "exec") PROVE OwnWork(t)
        <3>1. PICK f : f = th'[t]
            OBVIOUS
        <3>2. /\ f.pc \in {"hbReply", "exec"}
              /\ f.run \in {Absent, th[t].run} /\ f.attempt \in {Absent, th[t].attempt}
            BY <1>2, <2>2, <3>1, FrameKept
        <3>3. f.run \notin UndeliverableRunStates /\ f.attempt # "CANCEL_REQUESTED"
            BY <1>2, <3>2 DEF HolderOK, UndeliverableRunStates, TerminalRunStates, Absent
        <3>4. f.pc \in BusyPlaces /\ f.pc # "compReadRun" /\ f.pc \notin ResultPlaces /\ th[t].pc \in BusyPlaces
            BY <2>1, <3>2 DEF BusyPlaces, ResultPlaces
        <3>5. WorkFrame(t, f)'
            BY <2>1, <3>3, <3>4, BusyStays
        <3> QED
            BY <3>1, <3>5 DEF OwnWork
    <2>3. OwnWork(t) /\ th[t].pc \notin HandingPlaces
        BY <2>1, <2>2, ExitWork DEF HandingPlaces, VerdictAhead, LoopPlaces, QueuePlaces
    <2> QED
        BY <2>1, <2>3, QuietWork
<1> QED
    BY <1>3, <1>4, <1>5, <1>6, <1>7 DEF HeartbeatSteps

\* The runner reports the end of its command: until the first write both rows are
\* RUNNING.
LEMMA EndedWork ==
    ASSUME Onward, NEW t \in Mains,
           CheckLease(t, "compCheck", "compReadAttempt") \/ Complete_ReadAttempt(t) \/ Complete_ReadRun(t)
    PROVE  Works(t)
<1>1. t \in Threads /\ th[t] \in Frames /\ HolderOK(LeaseOf(t), th[t])
    BY OnwardParts, MainParts, UnderwayParts
<1>2. UNCHANGED <<job, attempt>> /\ th[t].pc \in {"compCheck", "compReadAttempt", "compReadRun"}
    BY DEF CheckLease, Complete_ReadAttempt, Complete_ReadRun, At, storeVars
<1>3. {"compCheck", "compReadAttempt", "compReadRun", "compUpAttempt"} \subseteq BusyPlaces \cap ResultPlaces
    BY DEF BusyPlaces, ResultPlaces
<1>4. /\ th[t].status \in {"SUCCEEDED", "FAILED"} /\ attempt[JobOf(t)] = "RUNNING"
      /\ th[t].run \notin UndeliverableRunStates /\ th[t].attempt # "CANCEL_REQUESTED"
      /\ th[t].pc = "compReadRun" => th[t].attempt = "RUNNING"
    BY <1>1, <1>2, <1>3 DEF HolderOK, JobOf
<1>5. run \notin UndeliverableRunStates
    BY OnwardParts DEF Going, UndeliverableRunStates, TerminalRunStates, Absent
<1>6. ASSUME ~Fails(t)
      PROVE  \E f : /\ f = th'[t] /\ f.pc \in {"compReadAttempt", "compReadRun", "compUpAttempt"}
                    /\ f.status = th[t].status
                    /\ f.run \notin UndeliverableRunStates /\ f.attempt # "CANCEL_REQUESTED"
                    /\ f.pc = "compReadRun" => f.attempt = "RUNNING"
    <2>1. CASE CheckLease(t, "compCheck", "compReadAttempt")
        <3>1. Goto(t, "compReadAttempt")
            BY <1>6, <2>1 DEF CheckLease
        <3> QED
            BY <1>1, <1>4, <3>1, FrameKept
    <2>2. CASE Complete_ReadAttempt(t)
        <3>1. PICK f : f = [th[t] EXCEPT !.pc = "compReadRun", !.attempt = attempt[JobOf(t)]]
            OBVIOUS
        <3>2. f.pc = "compReadRun" /\ f.run = th[t].run /\ f.attempt = "RUNNING" /\ f.status = th[t].status
            BY <1>1, <1>4, <3>1 DEF Frames
        <3>3. f = th'[t]
            BY <1>1, <2>2, <3>1, FrameKept DEF Complete_ReadAttempt
        <3> QED
            BY <1>4, <3>2, <3>3
    <2>3. CASE Complete_ReadRun(t)
        <3>1. PICK f : f = [th[t] EXCEPT !.pc = "compUpAttempt", !.run = run]
            OBVIOUS
        <3>2. f.pc = "compUpAttempt" /\ f.run = run /\ f.attempt = "RUNNING" /\ f.status = th[t].status
            BY <1>1, <1>4, <2>3, <3>1 DEF Frames, Complete_ReadRun, At
        <3>3. GotoWith(t, f)
            BY <1>4, <2>3, <3>1 DEF Complete_ReadRun, At
        <3>4. f = th'[t]
            BY <1>1, <3>3, FrameKept
        <3> QED
            BY <1>5, <3>2, <3>4
    <2> QED
        BY <2>1, <2>2, <2>3
<1>7. ASSUME ~Fails(t) PROVE OwnWork(t)
    <2>1. PICK f : /\ f = th'[t] /\ f.pc \in {"compReadAttempt", "compReadRun", "compUpAttempt"}
                   /\ f.status = th[t].status
                   /\ f.run \notin UndeliverableRunStates /\ f.attempt # "CANCEL_REQUESTED"
                   /\ f.pc = "compReadRun" => f.attempt = "RUNNING"
        BY <1>6, <1>7
    <2>2. WorkFrame(t, f)'
        BY <1>2, <1>3, <1>4, <2>1, BusyStays
    <2> QED
        BY <2>1, <2>2 DEF OwnWork
<1> QED
    BY <1>2, <1>3, <1>7, ExitWork, BusyOutside, QuietWork

\* Nothing is on its way before the lease is closed.
LEMMA ResultInHand ==
    ASSUME Onward, NEW t \in Mains,
           \/ th[t].pc = "compUpJob" /\ th'[t].pc = "compAttempt"
           \/ th[t].pc = "compAttempt" /\ th'[t].pc = "compJob"
           \/ th[t].pc = "compJob" /\ th'[t].pc = "compLease"
    PROVE  HandsOn(t)
<1>1. t = Main(LeaseOf(t))
    BY OnwardParts, MainParts
<1>2. th[t].pc \notin VerdictAhead \union {"queueAttempt"}
    BY DEF VerdictAhead, LoopPlaces, QueuePlaces
<1>3. Carries(t)
    BY <1>1, <1>2 DEF Carries, OnItsWay, VerdictAhead, QueuePlaces, LoopPlaces
<1> QED
    BY <1>2, <1>3 DEF HandsOn

\* The result goes through: each write finds its row where the one before left it.
LEMMA ResultWork ==
    ASSUME Onward, NEW t \in Mains, Complete_Uploading(t) \/ Complete_Result(t)
    PROVE  Works(t)
<1>1. t \in Threads /\ HolderOK(LeaseOf(t), th[t]) /\ t # Starter /\ t # Canceler
    BY OnwardParts, MainParts
<1>2. th[t].pc \in {"compUpAttempt", "compUpJob", "compAttempt", "compJob"}
    BY DEF Complete_Uploading, Complete_Result, transitionJobAndAttempt, At
<1>3. {"compUpAttempt", "compUpJob", "compAttempt", "compJob", "compLease"}
          \cap (WorkerPlaces \union WorkerStart \union ClosedPlaces \union {"queueAttempt", "enqueue", "hbJob",
                 "compReadRun", "finWrite"}) = {}
    BY DEF WorkerPlaces, WorkerStart, ClosedPlaces
<1>4. JobOf(t) \in Jobs /\ leaseJob'[LeaseOf(t)] = JobOf(t) /\ run' = "RUNNING"
    BY <1>1, <1>2, <1>3, OnwardParts, MainParts, JobStays DEF HolderOK
<1>5. th[t].status \in {"SUCCEEDED", "FAILED"}
    BY <1>1, <1>2 DEF HolderOK, ResultPlaces
<1>6. PICK f : f = th'[t]
    OBVIOUS
<1>7. ASSUME NEW q, Goto(t, q), q \in {"compUpJob", "compAttempt", "compJob", "compLease"},
             q = "compUpJob" => attempt'[JobOf(t)] = "UPLOADING" /\ job'[JobOf(t)] = "RUNNING",
             q = "compAttempt" => attempt'[JobOf(t)] = "UPLOADING" /\ job'[JobOf(t)] = "UPLOADING",
             q = "compJob" => attempt'[JobOf(t)] = th[t].status /\ job'[JobOf(t)] = "UPLOADING",
             q = "compLease" => attempt'[JobOf(t)] = th[t].status /\ job'[JobOf(t)] = th[t].status
      PROVE  OwnWork(t)
    <2>1. f.pc = q /\ f.run = th[t].run /\ f.attempt = th[t].attempt /\ f.status = th[t].status
        BY <1>1, <1>6, <1>7, FrameKept
    <2>2. f.pc \notin BusyPlaces
        BY <1>7, <2>1 DEF BusyPlaces
    <2>3. HolderOK(LeaseOf(t), f)'
        BY <1>1, <1>3, <1>4, <1>5, <1>7, <2>1, <2>2 DEF HolderOK
    <2>4. QueuerOK(f)'
        BY <1>7, <2>1 DEF QueuerOK
    <2> QED
        BY <1>1, <1>6, <2>3, <2>4 DEF OwnWork, WorkFrame
<1>8. CASE th[t].pc = "compUpAttempt"
    <2>1. attempt[JobOf(t)] = "RUNNING" /\ job[JobOf(t)] = "RUNNING"
        BY <1>1, <1>8 DEF HolderOK, BusyPlaces, JobOf
    <2>2. TransitionJobAttemptState(JobOf(t), "UPLOADING") /\ Goto(t, "compUpJob")
        BY <1>8, <2>1, JobTable DEF Complete_Uploading, Complete_Result, transitionJobAndAttempt, At, TryAttempt
    <2>3. job' = job /\ \A i \in Jobs : attempt'[i] = IF i = JobOf(t) THEN "UPLOADING" ELSE attempt[i]
        BY <2>2, AttemptRow
    <2>4. AttemptWrites(t) /\ JobWrites(t)
        BY <1>1, <1>8, <2>2, <2>3, FrameKept DEF AttemptWrites, JobWrites
    <2>5. OwnWork(t)
        BY <1>4, <1>7, <2>1, <2>2, <2>3
    <2>6. HandsOn(t)
        BY <1>1, <1>8, NothingInHand DEF HandingPlaces, VerdictAhead, LoopPlaces, QueuePlaces
    <2> QED
        BY <2>4, <2>5, <2>6 DEF Works
<1>9. CASE th[t].pc = "compUpJob"
    <2>1. attempt[JobOf(t)] = "UPLOADING" /\ job[JobOf(t)] = "RUNNING"
        BY <1>1, <1>9 DEF HolderOK, JobOf
    <2>2. TransitionJobState(JobOf(t), "UPLOADING") /\ Goto(t, "compAttempt")
        BY <1>9, <2>1, JobTable DEF Complete_Uploading, Complete_Result, transitionJobAndAttempt, At, TryJob
    <2>3. attempt' = attempt /\ \A i \in Jobs : job'[i] = IF i = JobOf(t) THEN "UPLOADING" ELSE job[i]
        BY <2>2, JobRow
    <2>4. AttemptWrites(t) /\ JobWrites(t)
        BY <1>9, <2>3 DEF AttemptWrites, JobWrites
    <2>5. OwnWork(t)
        BY <1>4, <1>7, <2>1, <2>2, <2>3
    <2>6. HandsOn(t)
        BY <1>1, <1>9, <2>2, FrameKept, ResultInHand
    <2> QED
        BY <2>4, <2>5, <2>6 DEF Works
<1>10. CASE th[t].pc = "compAttempt"
    <2>1. attempt[JobOf(t)] = "UPLOADING" /\ job[JobOf(t)] = "UPLOADING"
        BY <1>1, <1>10 DEF HolderOK, JobOf
    <2>2. TransitionJobAttemptState(JobOf(t), th[t].status) /\ Goto(t, "compJob")
        BY <1>5, <1>10, <2>1, JobTable DEF Complete_Uploading, Complete_Result, transitionJobAndAttempt, At, TryAttempt
    <2>3. job' = job /\ \A i \in Jobs : attempt'[i] = IF i = JobOf(t) THEN th[t].status ELSE attempt[i]
        BY <2>2, AttemptRow
    <2>4. AttemptWrites(t) /\ JobWrites(t)
        BY <1>10, <2>3 DEF AttemptWrites, JobWrites
    <2>5. OwnWork(t)
        BY <1>4, <1>7, <2>1, <2>2, <2>3
    <2>6. HandsOn(t)
        BY <1>1, <1>10, <2>2, FrameKept, ResultInHand
    <2> QED
        BY <2>4, <2>5, <2>6 DEF Works
<1>11. CASE th[t].pc = "compJob"
    <2>1. attempt[JobOf(t)] = th[t].status /\ job[JobOf(t)] = "UPLOADING"
        BY <1>1, <1>11 DEF HolderOK, JobOf
    <2>2. TransitionJobState(JobOf(t), th[t].status) /\ Goto(t, "compLease")
        BY <1>5, <1>11, <2>1, JobTable DEF Complete_Uploading, Complete_Result, transitionJobAndAttempt, At, TryJob
    <2>3. attempt' = attempt /\ \A i \in Jobs : job'[i] = IF i = JobOf(t) THEN th[t].status ELSE job[i]
        BY <2>2, JobRow
    <2>4. AttemptWrites(t) /\ JobWrites(t)
        BY <1>11, <2>3 DEF AttemptWrites, JobWrites
    <2>5. OwnWork(t)
        BY <1>4, <1>7, <2>1, <2>2, <2>3
    <2>6. HandsOn(t)
        BY <1>1, <1>11, <2>2, FrameKept, ResultInHand
    <2> QED
        BY <2>4, <2>5, <2>6 DEF Works
<1> QED
    BY <1>2, <1>8, <1>9, <1>10, <1>11

\* The plan as a runner finds it: recorded, and every job of it inserted.
LEMMA PlanKnown ==
    ASSUME Onward, NEW t \in Mains, th[t].pc \notin WorkerPlaces \union WorkerStart
    PROVE  /\ run' = "RUNNING" /\ deps = PlannedDeps
           /\ \A j \in Jobs : Made(j)
           /\ \A d, j \in Jobs : d \in DependsOn[j] => j \in ListJobDependents(d)
<1>1. HolderOK(LeaseOf(t), th[t]) /\ leaseState[LeaseOf(t)] # Absent /\ ThreadsInv
    BY OnwardParts, MainParts
<1>2. run = "RUNNING" /\ run' = "RUNNING"
    BY <1>1, OnwardParts DEF HolderOK
<1>3. \A j \in Jobs : Made(j)
    BY <1>2, OnwardParts DEF Underway, Work, OpenOK, Open
<1>4. deps = PlannedDeps
    BY <1>1, PlanRecorded, OnwardParts DEF HasLease, Underway, ResultInv
<1>5. \A d, j \in Jobs : d \in DependsOn[j] => j \in ListJobDependents(d)
    BY <1>4 DEF PlannedDeps, ListJobDependents
<1> QED
    BY <1>2, <1>3, <1>4, <1>5

\* The completion goes on to the jobs that wait for its own, or to the verdict.
LEMMA CloseWork ==
    ASSUME Onward, NEW t \in Mains, Complete_Lease(t)
    PROVE  Works(t)
<1>1. t \in Threads /\ t = Main(LeaseOf(t)) /\ HolderOK(LeaseOf(t), th[t]) /\ th[t].pc = "compLease"
    BY OnwardParts, MainParts DEF Complete_Lease, At
<1>2. th[t].pc \notin WorkerPlaces \union WorkerStart /\ th[t].pc \in AckedPlaces /\ th[t].pc \in ResultPlaces
    BY <1>1 DEF WorkerPlaces, WorkerStart, AckedPlaces, ResultPlaces
<1>3. /\ leaseState[LeaseOf(t)] = "ACTIVE" /\ leaseJob'[LeaseOf(t)] = JobOf(t)
      /\ th[t].run \notin TerminalRunStates \union {"CANCEL_REQUESTED"}
      /\ job[JobOf(t)] = th[t].status
    BY <1>1, <1>2, OnwardParts, MainParts, JobStays DEF HolderOK, UndeliverableRunStates, JobOf
<1>4. CompleteLease(LeaseOf(t), "COMPLETED") /\ GotoWith(t, AfterComplete(t))
    BY <1>3 DEF Complete_Lease, validateLeaseTransition, LeaseStates, leaseTransitions
<1>5. UNCHANGED <<job, attempt>>
    BY <1>4 DEF CompleteLease
<1>6. PICK f : f = AfterComplete(t)
    OBVIOUS
<1>7. /\ f.run = Absent /\ f.attempt = Absent
      /\ f.pc = "finRead" \/ (f.pc = "depNext" /\ f.todo = ListJobDependents(JobOf(t)))
      /\ th[t].status = "SUCCEEDED" /\ ListJobDependents(JobOf(t)) # {} => f.pc = "depNext"
    <2>1. /\ [NewFrame EXCEPT !.pc = "finRead"].run = Absent
          /\ [NewFrame EXCEPT !.pc = "finRead"].attempt = Absent
          /\ [NewFrame EXCEPT !.pc = "finRead"].pc = "finRead"
        BY DEF NewFrame
    <2>2. PICK g : g = [NewFrame EXCEPT !.pc = "depNext", !.todo = ListJobDependents(JobOf(t))]
        OBVIOUS
    <2>3. g.run = Absent /\ g.attempt = Absent /\ g.pc = "depNext" /\ g.todo = ListJobDependents(JobOf(t))
        BY <2>2 DEF NewFrame
    <2>4. f = IF th[t].status = "SUCCEEDED" /\ ListJobDependents(JobOf(t)) # {} THEN g
              ELSE [NewFrame EXCEPT !.pc = "finRead"]
        BY <1>3, <1>6, <2>2 DEF AfterComplete
    <2> QED
        BY <2>1, <2>3, <2>4
<1>8. f = th'[t] /\ OwnWork(t)
    <2>1. GotoWith(t, f)
        BY <1>4, <1>6
    <2>2. f.pc \notin NotedPlaces
        BY <1>7 DEF NotedPlaces, BusyPlaces, ResultPlaces, ClosedPlaces
    <2> QED
        BY <1>1, <1>2, <1>7, <2>1, <2>2, FrameKept, FreshWork
<1>9. Carries(t)
    <2> SUFFICES ASSUME NEW d \in Jobs, NEW j \in Jobs, leaseJob[LeaseOf(t)] = d, d \in DependsOn[j],
                        job[d] = "SUCCEEDED"
                 PROVE  OnItsWay(LeaseOf(t), d, j)'
        BY DEF Carries, OnItsWay
    <2>1. d = JobOf(t) /\ j \in ListJobDependents(d) /\ th[t].status = "SUCCEEDED"
        BY <1>2, <1>3, PlanKnown DEF JobOf
    <2>2. f.pc = "depNext" /\ j \in f.todo
        BY <1>7, <2>1
    <2>3. th'[Main(LeaseOf(t))].pc \in LoopPlaces /\ j \in th'[Main(LeaseOf(t))].todo
        BY <1>1, <1>8, <2>2 DEF LoopPlaces
    <2> QED
        BY <1>3, <2>1, <2>3 DEF OnItsWay
<1>10. HandsOn(t)
    BY <1>1, <1>7, <1>8, <1>9 DEF HandsOn, VerdictAhead, LoopPlaces
<1> QED
    BY <1>5, <1>8, <1>10, RowsKept DEF Works

\* An errand stays in hand: still to be looked at, or being looked at.
LEMMA LoopHandsOn ==
    ASSUME Onward, NEW t \in Mains, th[t].pc \in LoopPlaces,
           th[t].pc = "queueAttempt" => attempt'[th[t].job] \notin Unqueued,
           NEW f, f = th'[t], f.pc \in LoopPlaces \union {"finRead"},
           \A d, j \in Jobs :
               /\ leaseJob[LeaseOf(t)] = d /\ d \in DependsOn[j] /\ job[d] = "SUCCEEDED" /\ job'[j] \in Unqueued
               /\ j \in th[t].todo \/ (th[t].pc \in {"depAttempt", "queueJob"} /\ th[t].job = j)
               => \/ f.pc \in LoopPlaces /\ j \in f.todo
                  \/ f.pc \in {"depAttempt", "queueJob"} /\ f.job = j
    PROVE  HandsOn(t)
<1>1. t = Main(LeaseOf(t)) /\ leaseJob'[LeaseOf(t)] = leaseJob[LeaseOf(t)]
    BY OnwardParts, MainParts, JobStays DEF JobOf, LoopPlaces, QueuePlaces, WorkerPlaces
<1>2. th[t].pc \notin {"compLease", "compUpJob", "compAttempt", "compJob"} /\ f.pc \in VerdictAhead
    BY DEF LoopPlaces, QueuePlaces, VerdictAhead
<1>3. Carries(t)
    BY <1>1, <1>2 DEF Carries, OnItsWay
<1> QED
    BY <1>2, <1>3 DEF HandsOn

LEMMA LoopRound ==
    ASSUME Onward, NEW t \in Mains, NEW f, f = QueueLoop(t)
    PROVE  \/ f.pc = "finRead" /\ th[t].todo = {} /\ f.run = Absent /\ f.attempt = Absent
           \/ f.pc = "depNext" /\ f.todo = th[t].todo /\ f.run = th[t].run /\ f.attempt = th[t].attempt
<1>1. t # Starter /\ th[t] \in Frames
    BY OnwardParts, MainParts, UnderwayParts
<1>2. CASE th[t].todo = {}
    <2>1. f = [NewFrame EXCEPT !.pc = "finRead"]
        BY <1>1, <1>2 DEF QueueLoop
    <2> QED
        BY <1>2, <2>1 DEF NewFrame
<1>3. CASE th[t].todo # {}
    <2>1. f = [th[t] EXCEPT !.pc = "depNext", !.job = NoJob]
        BY <1>1, <1>3 DEF QueueLoop
    <2> QED
        BY <1>1, <2>1 DEF Frames
<1> QED
    BY <1>2, <1>3

LEMMA LoopOutside ==
    /\ LoopPlaces \cap (WorkerPlaces \union WorkerStart \union BusyPlaces \union ResultPlaces \union ClosedPlaces
                         \union {"hbJob", "compReadRun", "finWrite"}) = {}
    /\ {"depNext", "depAttempt", "queueJob", "finRead"} \cap NotedPlaces = {}
BY DEF LoopPlaces, QueuePlaces, WorkerPlaces, WorkerStart, NotedPlaces, BusyPlaces, ResultPlaces, ClosedPlaces

\* A job that waits for the one just completed is queued when its turn comes.
LEMMA TurnWork ==
    ASSUME NoFanIn, Onward, NEW t \in Mains, At(t, "depNext") \/ At(t, "depAttempt"), enqueueReadyDependents(t)
    PROVE  Works(t)
<1>1. t \in Threads /\ th[t] \in Frames /\ HolderOK(LeaseOf(t), th[t])
    BY OnwardParts, MainParts, UnderwayParts
<1>2. th[t].pc \in {"depNext", "depAttempt"} /\ th[t].pc \in LoopPlaces
    BY DEF At, LoopPlaces, QueuePlaces
<1>3. /\ run' = "RUNNING" /\ deps = PlannedDeps /\ \A j \in Jobs : Made(j)
      /\ th[t].run \notin UndeliverableRunStates /\ th[t].attempt # "CANCEL_REQUESTED"
    BY <1>1, <1>2, LoopOutside, PlanKnown DEF HolderOK
<1>4. UNCHANGED <<job, attempt>>
    BY <1>2 DEF enqueueReadyDependents, queueJobAttempt, At, storeVars
<1>5. PICK f : f = th'[t]
    OBVIOUS
<1>6. ASSUME f.pc \in {"depNext", "depAttempt", "queueJob", "finRead"},
             f.run = Absent \/ f.run = th[t].run, f.attempt = Absent \/ f.attempt = th[t].attempt,
             \A d, j \in Jobs :
               /\ leaseJob[LeaseOf(t)] = d /\ d \in DependsOn[j] /\ job[d] = "SUCCEEDED" /\ job'[j] \in Unqueued
               /\ j \in th[t].todo \/ (th[t].pc \in {"depAttempt", "queueJob"} /\ th[t].job = j)
               => \/ f.pc \in LoopPlaces /\ j \in f.todo
                  \/ f.pc \in {"depAttempt", "queueJob"} /\ f.job = j
      PROVE  Works(t)
    <2>1. f.run \notin UndeliverableRunStates /\ f.attempt # "CANCEL_REQUESTED" /\ f.pc \notin NotedPlaces
        BY <1>3, <1>6, LoopOutside DEF UndeliverableRunStates, TerminalRunStates, Absent
    <2>2. WorkFrame(t, f)'
        BY <1>3, <2>1, PlainWork
    <2>3. f.pc \in LoopPlaces \union {"finRead"} /\ th[t].pc # "queueAttempt"
        BY <1>2, <1>6 DEF LoopPlaces, QueuePlaces
    <2>4. HandsOn(t)
        BY <1>2, <1>5, <1>6, <2>3, LoopHandsOn
    <2> QED
        BY <1>4, <1>5, <2>2, <2>4, RowsKept DEF Works, OwnWork
<1>7. \A j \in Jobs : job'[j] \in Unqueued => job[j] = "CREATED" /\ attempt[j] = "CREATED"
    <2>1. \A j \in Jobs : JobOK(j)
        BY OnwardParts DEF Underway, Work
    <2> QED
        BY <1>3, <1>4, <2>1 DEF Made, JobOK, Unqueued, Absent
<1>8. CASE At(t, "depNext")
    <2>1. PICK e \in th[t].todo :
              GotoWith(t, IF DependenciesSatisfied(e) /\ job[e] = "CREATED"
                          THEN [[th[t] EXCEPT !.todo = @ \ {e}] EXCEPT !.pc = "depAttempt", !.job = e]
                          ELSE IF [th[t] EXCEPT !.todo = @ \ {e}].todo = {} THEN [NewFrame EXCEPT !.pc = "finRead"]
                               ELSE [th[t] EXCEPT !.todo = @ \ {e}])
        BY <1>8 DEF enqueueReadyDependents, queueJobAttempt, At
    <2>2. PICK rest : rest = [th[t] EXCEPT !.todo = @ \ {e}]
        OBVIOUS
    <2>3. PICK taken : taken = [rest EXCEPT !.pc = "depAttempt", !.job = e]
        OBVIOUS
    <2>4. /\ rest.pc = "depNext" /\ rest.todo = th[t].todo \ {e}
          /\ rest.run = th[t].run /\ rest.attempt = th[t].attempt
          /\ taken.pc = "depAttempt" /\ taken.job = e /\ taken.todo = th[t].todo \ {e}
          /\ taken.run = th[t].run /\ taken.attempt = th[t].attempt
        BY <1>1, <1>8, <2>2, <2>3 DEF Frames, At
    <2>5. PICK last : last = [NewFrame EXCEPT !.pc = "finRead"]
        OBVIOUS
    <2>6. last.pc = "finRead" /\ last.run = Absent /\ last.attempt = Absent
        BY <2>5 DEF NewFrame
    <2>7. f = IF DependenciesSatisfied(e) /\ job[e] = "CREATED" THEN taken
              ELSE IF rest.todo = {} THEN last ELSE rest
        BY <1>1, <1>5, <2>1, <2>2, <2>3, <2>5, FrameKept
    <2>8. ASSUME NEW d \in Jobs, NEW j \in Jobs, leaseJob[LeaseOf(t)] = d, d \in DependsOn[j],
                 job[d] = "SUCCEEDED", job'[j] \in Unqueued, j \in th[t].todo
          PROVE  \/ f.pc \in LoopPlaces /\ j \in f.todo
                 \/ f.pc \in {"depAttempt", "queueJob"} /\ f.job = j
        <3>1. DependenciesSatisfied(j)
            BY <1>3, <2>8 DEF DependenciesSatisfied, PlannedDeps, NoFanIn
        <3>2. j = e => f = taken
            BY <1>7, <2>7, <2>8, <3>1
        <3>3. j # e => f \in {taken, rest} /\ j \in f.todo
            BY <2>4, <2>7, <2>8
        <3> QED
            BY <2>4, <3>2, <3>3 DEF LoopPlaces, QueuePlaces
    <2>9. f.pc \in {"depNext", "depAttempt", "queueJob", "finRead"}
        BY <2>4, <2>6, <2>7
    <2>10. (f.run = Absent \/ f.run = th[t].run) /\ (f.attempt = Absent \/ f.attempt = th[t].attempt)
        BY <2>4, <2>6, <2>7
    <2> QED
        BY <1>6, <1>8, <2>8, <2>9, <2>10 DEF At
<1>9. CASE At(t, "depAttempt")
    <2>1. GotoWith(t, IF attempt[th[t].job] = "CREATED" THEN [th[t] EXCEPT !.pc = "queueJob"] ELSE QueueLoop(t))
        BY <1>9 DEF enqueueReadyDependents, queueJobAttempt, At
    <2>2. PICK g : g = [th[t] EXCEPT !.pc = "queueJob"]
        OBVIOUS
    <2>3. /\ g.pc = "queueJob" /\ g.job = th[t].job /\ g.todo = th[t].todo
          /\ g.run = th[t].run /\ g.attempt = th[t].attempt
        BY <1>1, <2>2 DEF Frames
    <2>4. PICK h : h = QueueLoop(t)
        OBVIOUS
    <2>5. \/ h.pc = "finRead" /\ th[t].todo = {} /\ h.run = Absent /\ h.attempt = Absent
          \/ h.pc = "depNext" /\ h.todo = th[t].todo /\ h.run = th[t].run /\ h.attempt = th[t].attempt
        BY <2>4, LoopRound
    <2>6. f = IF attempt[th[t].job] = "CREATED" THEN g ELSE h
        BY <1>1, <1>5, <2>1, <2>2, <2>4, FrameKept
    <2>7. ASSUME NEW d \in Jobs, NEW j \in Jobs, job'[j] \in Unqueued, j \in th[t].todo \/ th[t].job = j
          PROVE  \/ f.pc \in LoopPlaces /\ j \in f.todo
                 \/ f.pc \in {"depAttempt", "queueJob"} /\ f.job = j
        BY <1>7, <2>3, <2>5, <2>6, <2>7 DEF LoopPlaces, QueuePlaces
    <2>8. f.pc \in {"depNext", "depAttempt", "queueJob", "finRead"}
        BY <2>3, <2>5, <2>6
    <2>9. (f.run = Absent \/ f.run = th[t].run) /\ (f.attempt = Absent \/ f.attempt = th[t].attempt)
        BY <2>3, <2>5, <2>6
    <2> QED
        BY <1>6, <2>7, <2>8, <2>9
<1> QED
    BY <1>8, <1>9

\* queueJobAttempt never has to skip its job: it is the only one to queue it.
LEMMA QueueSteps ==
    ASSUME Onward, NEW t \in Mains \union {Starter}, queueJobAttempt(t), NEW f, f = th'[t]
    PROVE  /\ AttemptWrites(t) /\ JobWrites(t) /\ run' = run
           /\ \/ /\ th[t].pc = "queueJob" /\ f.pc = "queueAttempt" /\ job'[th[t].job] = "QUEUED"
                 /\ f.job = th[t].job /\ f.todo = th[t].todo /\ f.run = th[t].run /\ f.attempt = th[t].attempt
                 /\ QueuerOK(f)'
              \/ /\ th[t].pc = "queueAttempt" /\ f.pc = "enqueue" /\ attempt'[th[t].job] = "QUEUED"
                 /\ f.job = th[t].job /\ f.todo = th[t].todo /\ f.run = th[t].run /\ f.attempt = th[t].attempt
                 /\ QueuerOK(f)' /\ job' = job
              \/ th[t].pc = "enqueue" /\ f = QueueLoop(t) /\ UNCHANGED <<job, attempt>>
<1>1. /\ t \in Threads /\ th[t] \in Frames /\ FrameOK(t, th[t]) /\ ResultFrame(t, th[t]) /\ WorkFrame(t, th[t])
      /\ QueuerOK(th[t])
    BY OnwardParts, UnderwayParts DEF Threads, WorkFrame
<1>2. th[t].pc \in {"queueJob", "queueAttempt", "enqueue"} /\ th[t].pc \in QueuePlaces
    BY DEF queueJobAttempt, At, QueuePlaces
<1>3. th[t].job \in Jobs
    BY <1>1, <1>2 DEF FrameOK, JobPlaces
<1>4. \A j \in Jobs : Made(j)
    <2>1. t = Starter => \A j \in Jobs : Made(j)
        BY <1>1, <1>2 DEF WorkFrame, StartOK
    <2>2. th[t].pc \notin WorkerPlaces \union WorkerStart
        BY <1>2 DEF WorkerPlaces, WorkerStart
    <2> QED
        BY <2>1, <2>2, PlanKnown
<1>5. JobOK(th[t].job)
    BY <1>3, OnwardParts DEF Underway, Work
<1>6. CASE th[t].pc = "queueJob"
    <2>1. th[t].job \in Claims(t, th[t])
        BY <1>3, <1>6 DEF Claims
    <2>2. job[th[t].job] \in Unqueued
        BY <1>1, <2>1, ClaimsUnqueued
    <2>3. job[th[t].job] = "CREATED" /\ attempt[th[t].job] \in Unqueued
        BY <1>3, <1>4, <1>5, <2>2 DEF Made, JobOK, Unqueued
    <2>4. TransitionJobState(th[t].job, "QUEUED") /\ Goto(t, "queueAttempt")
        BY <1>6, <2>3, JobTable DEF queueJobAttempt, queueJobAttempt_Skip, At
    <2>5. /\ attempt' = attempt /\ run' = run
          /\ \A i \in Jobs : job'[i] = IF i = th[t].job THEN "QUEUED" ELSE job[i]
        BY <2>4, JobRow
    <2>6. /\ f.pc = "queueAttempt" /\ f.job = th[t].job /\ f.todo = th[t].todo
          /\ f.run = th[t].run /\ f.attempt = th[t].attempt
        BY <1>1, <2>4, FrameKept
    <2>7. QueuerOK(f)'
        BY <1>3, <2>3, <2>5, <2>6 DEF QueuerOK, Unqueued, Absent
    <2>8. AttemptWrites(t) /\ JobWrites(t)
        BY <1>6, <2>2, <2>5, <2>6 DEF AttemptWrites, JobWrites
    <2> QED
        BY <1>3, <1>6, <2>5, <2>6, <2>7, <2>8
<1>7. CASE th[t].pc = "queueAttempt"
    <2>1. attempt[th[t].job] = "CREATED" /\ job[th[t].job] \notin Unqueued
        BY <1>1, <1>3, <1>4, <1>7 DEF QueuerOK, Made, Unqueued
    <2>2. TransitionJobAttemptState(th[t].job, "QUEUED") /\ Goto(t, "enqueue")
        BY <1>7, <2>1, JobTable DEF queueJobAttempt, queueJobAttempt_Skip, At
    <2>3. /\ job' = job /\ run' = run
          /\ \A i \in Jobs : attempt'[i] = IF i = th[t].job THEN "QUEUED" ELSE attempt[i]
        BY <2>2, AttemptRow
    <2>4. /\ f.pc = "enqueue" /\ f.job = th[t].job /\ f.todo = th[t].todo
          /\ f.run = th[t].run /\ f.attempt = th[t].attempt
        BY <1>1, <2>2, FrameKept
    <2>5. QueuerOK(f)'
        BY <2>1, <2>3, <2>4 DEF QueuerOK
    <2>6. AttemptWrites(t) /\ JobWrites(t)
        BY <1>7, <2>1, <2>3 DEF AttemptWrites, JobWrites, Unqueued
    <2> QED
        BY <1>3, <1>7, <2>3, <2>4, <2>5, <2>6
<1>8. CASE th[t].pc = "enqueue"
    <2>1. EnqueueJobAttempt(th[t].job) /\ GotoWith(t, QueueLoop(t))
        BY <1>8 DEF queueJobAttempt, At
    <2>2. UNCHANGED <<run, job, attempt>> /\ f = QueueLoop(t)
        BY <1>1, <2>1, FrameKept DEF EnqueueJobAttempt
    <2> QED
        BY <1>8, <2>2, RowsKept
<1> QED
    BY <1>2, <1>6, <1>7, <1>8

LEMMA QueueWork ==
    ASSUME Onward, NEW t \in Mains, queueJobAttempt(t)
    PROVE  Works(t)
<1>1. PICK f : f = th'[t]
    OBVIOUS
<1>2. /\ AttemptWrites(t) /\ JobWrites(t)
      /\ \/ /\ th[t].pc = "queueJob" /\ f.pc = "queueAttempt" /\ job'[th[t].job] = "QUEUED"
            /\ f.job = th[t].job /\ f.todo = th[t].todo /\ f.run = th[t].run /\ f.attempt = th[t].attempt
            /\ QueuerOK(f)'
         \/ /\ th[t].pc = "queueAttempt" /\ f.pc = "enqueue" /\ attempt'[th[t].job] = "QUEUED"
            /\ f.job = th[t].job /\ f.todo = th[t].todo /\ f.run = th[t].run /\ f.attempt = th[t].attempt
            /\ QueuerOK(f)'
         \/ th[t].pc = "enqueue" /\ f = QueueLoop(t)
    BY <1>1, QueueSteps
<1>3. \/ f.pc = "finRead" /\ th[t].todo = {} /\ f.run = Absent /\ f.attempt = Absent /\ th[t].pc = "enqueue"
      \/ /\ f.pc \in {"queueAttempt", "enqueue", "depNext"} /\ f.todo = th[t].todo
         /\ f.run = th[t].run /\ f.attempt = th[t].attempt
    BY <1>2, LoopRound
<1>4. th[t].pc \in LoopPlaces /\ f.pc \in LoopPlaces \union {"finRead"}
    BY <1>2, <1>3 DEF LoopPlaces, QueuePlaces
<1>5. HolderOK(LeaseOf(t), th[t]) /\ run' = "RUNNING" /\ t # Starter /\ t # Canceler
    BY <1>4, LoopOutside, PlanKnown, MainParts, OnwardParts
<1>6. HolderOK(LeaseOf(t), f)'
    <2>1. f.run \notin UndeliverableRunStates /\ f.attempt # "CANCEL_REQUESTED"
        BY <1>3, <1>5 DEF HolderOK, UndeliverableRunStates, TerminalRunStates, Absent
    <2>2. /\ f.pc \notin BusyPlaces \union ResultPlaces \union ClosedPlaces
          /\ f.pc \notin {"hbJob", "compReadRun", "finWrite"}
        BY <1>4, LoopOutside DEF BusyPlaces, ResultPlaces, ClosedPlaces
    <2> QED
        BY <1>5, <2>1, <2>2 DEF HolderOK, ResultPlaces
<1>7. QueuerOK(f)'
    BY <1>2, <1>3, LoopRound DEF QueuerOK
<1>8. HandsOn(t)
    <2>1. th[t].pc = "queueAttempt" => attempt'[th[t].job] \notin Unqueued
        BY <1>2 DEF Unqueued, Absent
    <2>2. ASSUME NEW d \in Jobs, NEW j \in Jobs, job'[j] \in Unqueued,
                 j \in th[t].todo \/ (th[t].pc \in {"depAttempt", "queueJob"} /\ th[t].job = j)
          PROVE  f.pc \in LoopPlaces /\ j \in f.todo
        BY <1>2, <1>3, <2>2 DEF LoopPlaces, QueuePlaces, Unqueued, Absent
    <2> QED
        BY <1>1, <1>4, <2>1, <2>2, LoopHandsOn
<1> QED
    BY <1>1, <1>2, <1>5, <1>6, <1>7, <1>8 DEF Works, OwnWork, WorkFrame

\* The verdict: a completion that can give it does.
LEMMA VerdictWork ==
    ASSUME Onward, NEW t \in Mains, finalizeRunIfReady(t)
    PROVE  Works(t)
<1>1. t \in Threads /\ th[t] \in Frames /\ HolderOK(LeaseOf(t), th[t]) /\ t = Main(LeaseOf(t))
      /\ t # Starter /\ t # Canceler
    BY OnwardParts, MainParts, UnderwayParts
<1>2. th[t].pc \in {"finRead", "finList", "finWrite"}
    BY DEF finalizeRunIfReady, At
<1>3. /\ run = "RUNNING" /\ run' = "RUNNING"
      /\ th[t].run \notin UndeliverableRunStates /\ th[t].attempt # "CANCEL_REQUESTED"
      /\ th[t].pc = "finWrite" => th[t].status \in {"SUCCESS", "FAILED"}
    BY <1>1, <1>2, OnwardParts DEF HolderOK, WorkerStart
<1>4. th[t].pc # "finWrite"
    BY <1>3 DEF finalizeRunIfReady, At, TransitionRunState, validateRunTransition, RunStates, runTransitions
<1>5. UNCHANGED <<job, attempt>>
    BY <1>4 DEF finalizeRunIfReady, At, storeVars
<1>6. ASSUME OwnWork(t), RunVerdict # Absent => th'[t].pc \in VerdictAhead PROVE Works(t)
    <2>1. th[t].pc \notin LoopPlaces \union {"compLease", "compUpJob", "compAttempt", "compJob", "queueAttempt",
                                             "depAttempt", "queueJob"}
        BY <1>2 DEF LoopPlaces, QueuePlaces
    <2>2. Carries(t)
        BY <1>1, <2>1 DEF Carries, OnItsWay
    <2>3. HandsOn(t)
        BY <1>6, <2>1, <2>2 DEF HandsOn
    <2> QED
        BY <1>5, <1>6, <2>3, RowsKept DEF Works
<1>7. CASE th[t].pc = "finRead"
    <2>1. Goto(t, "finList")
        BY <1>3, <1>7 DEF finalizeRunIfReady, At
    <2>2. OwnWork(t)
        BY <1>3, <2>1, GotoWork DEF NotedPlaces, BusyPlaces, ResultPlaces, ClosedPlaces
    <2> QED
        BY <1>1, <1>6, <2>1, <2>2, FrameKept DEF VerdictAhead
<1>8. CASE th[t].pc = "finList" /\ RunVerdict = Absent
    <2>1. Returns(t)
        BY <1>8 DEF finalizeRunIfReady, At
    <2> QED
        BY <1>6, <1>8, <2>1, ExitWork
<1>9. CASE th[t].pc = "finList" /\ RunVerdict # Absent
    <2>1. PICK f : f = [th[t] EXCEPT !.pc = "finWrite", !.status = RunVerdict]
        OBVIOUS
    <2>2. f.pc = "finWrite" /\ f.status = RunVerdict /\ f.run = th[t].run /\ f.attempt = th[t].attempt
        BY <1>1, <2>1 DEF Frames
    <2>3. f = th'[t]
        BY <1>1, <1>9, <2>1, FrameKept DEF finalizeRunIfReady, At
    <2>4. f.status \in {"SUCCESS", "FAILED"}
        BY <1>9, <2>2, VerdictRange
    <2>5. HolderOK(LeaseOf(t), f)'
        BY <1>3, <2>2, <2>4 DEF HolderOK, BusyPlaces, ResultPlaces, ClosedPlaces
    <2>6. QueuerOK(f)'
        BY <2>2 DEF QueuerOK
    <2>7. OwnWork(t)
        BY <1>1, <2>3, <2>5, <2>6 DEF OwnWork, WorkFrame
    <2> QED
        BY <1>6, <2>2, <2>3, <2>7 DEF VerdictAhead
<1> QED
    BY <1>2, <1>4, <1>7, <1>8, <1>9

\* What only a cancellation, or an attempt that does not run, leads to.
LEMMA NothingClosed ==
    ASSUME Onward, NEW t \in Mains
    PROVE  th[t].pc \notin ClosedPlaces
BY OnwardParts, MainParts DEF HolderOK

LEMMA ReportWork ==
    ASSUME Onward, NEW t \in Mains, ReportVerdict(t)
    PROVE  Works(t)
<1>1. th[t].pc = "finReport" /\ reportRun(t, "return")
    BY DEF ReportVerdict, At
<1>2. Returns(t)
    BY <1>1 DEF reportRun
<1>3. th[t].pc \notin HandingPlaces
    BY <1>1 DEF HandingPlaces, VerdictAhead, LoopPlaces, QueuePlaces
<1> QED
    BY <1>1, <1>2, <1>3, RunStepRows, ExitWork, QuietWork

LEMMA CompleteWork ==
    ASSUME NoFanIn, Onward, NEW t \in Mains, CompleteSteps(t)
    PROVE  Works(t)
<1>1. ~ (finalizeCancelIfReady(t) \/ Complete_Running(t))
    BY NothingClosed DEF ClosedPlaces, finalizeCancelIfReady, Complete_Running, transitionJobAndAttempt, At
<1>2. CASE CheckLease(t, "compCheck", "compReadAttempt") \/ Complete_ReadAttempt(t) \/ Complete_ReadRun(t)
    BY <1>2, EndedWork
<1>3. CASE Complete_Uploading(t) \/ Complete_Result(t)
    BY <1>3, ResultWork
<1>4. CASE Complete_Lease(t)
    BY <1>4, CloseWork
<1>5. CASE enqueueReadyDependents(t)
    <2>1. CASE queueJobAttempt(t)
        BY <2>1, QueueWork
    <2>2. CASE At(t, "depNext") \/ At(t, "depAttempt")
        BY <1>5, <2>2, TurnWork
    <2> QED
        BY <1>5, <2>1, <2>2 DEF enqueueReadyDependents
<1>6. CASE finalizeRunIfReady(t)
    BY <1>6, VerdictWork
<1>7. CASE ReportVerdict(t)
    BY <1>7, ReportWork
<1> QED
    BY <1>1, <1>2, <1>3, <1>4, <1>5, <1>6, <1>7 DEF CompleteSteps

\* Nobody has asked for a cancellation, so a runner that acknowledges one is
\* turned away.
LEMMA CancelAckWork ==
    ASSUME Onward, NEW t \in Mains, CancelAckSteps(t)
    PROVE  Works(t)
<1>1. {"cakCheck", "cakReadJob"} \cap (NotedPlaces \union HandingPlaces \union WorkerStart \union WorkerPlaces) = {}
    BY DEF NotedPlaces, BusyPlaces, ResultPlaces, ClosedPlaces, HandingPlaces, VerdictAhead, LoopPlaces, QueuePlaces,
           WorkerStart, WorkerPlaces
<1>2. ~ (CancelLease_Cancel(t) \/ CancelLease_Lease(t))
    BY NothingClosed DEF ClosedPlaces, CancelLease_Cancel, CancelLease_Lease, transitionJobAndAttempt, At
<1>3. CASE CheckLease(t, "cakCheck", "cakReadJob")
    BY <1>1, <1>3, CheckWork
<1>4. CASE CancelLease_ReadJob(t)
    <2>1. th[t].pc = "cakReadJob" /\ UNCHANGED <<job, attempt>>
        BY <1>4 DEF CancelLease_ReadJob, At, storeVars
    <2>2. JobOf(t) \in Jobs
        BY <1>1, <2>1, OnwardParts, MainParts
    <2>3. Fails(t)
        BY <1>4, <2>2, ReadsGoing DEF CancelLease_ReadJob
    <2> QED
        BY <1>1, <2>1, <2>3, ExitWork, QuietWork
<1> QED
    BY <1>2, <1>3, <1>4 DEF CancelAckSteps

LEMMA MainWork ==
    ASSUME NoFanIn, Onward, NEW t \in Mains, Handler(t)
    PROVE  Works(t)
<1>1. t \notin Ticks /\ t # Starter /\ t # Canceler
    BY ThreadKinds
<1> QED
    BY <1>1, GrantWork, AckWork, HeartbeatWork, CompleteWork, CancelAckWork DEF Handler

(***************************************************************************)
(* The ticker's heartbeats.                                                *)
(***************************************************************************)
LEMMA TickWork ==
    ASSUME Onward, NEW t \in Ticks, HeartbeatSteps(t)
    PROVE  Works(t)
<1>1. t \in Threads /\ t \notin Mains /\ t # Starter /\ t # Canceler
    BY ThreadKinds DEF Threads
<1>2. OwnWork(t)
    BY <1>1 DEF OwnWork, WorkFrame
<1>3. th[t].pc # "queueAttempt"
    BY DEF HeartbeatSteps, CheckLease, Heartbeat_Touch, Heartbeat_ReadAttempt, Heartbeat_ReadJob, Heartbeat_ReadRun,
           Heartbeat_Running, Heartbeat_Run, Heartbeat_Reply, transitionJobAndAttempt, At
<1>4. HandsOn(t)
    BY <1>1, <1>3 DEF HandsOn
<1>5. CASE Heartbeat_Running(t)
    <2>1. PICK r : transitionJobAndAttempt(t, JobOf(t), "RUNNING", <<"hbAttempt", "hbJob", r>>)
        BY <1>5 DEF Heartbeat_Running
    <2>2. AttemptWrites(t) /\ JobWrites(t)
        BY <2>1, ProgressWrites
    <2> QED
        BY <1>2, <1>4, <2>2 DEF Works
<1>6. CASE ~Heartbeat_Running(t)
    <2>1. UNCHANGED <<job, attempt>>
        BY <1>6, RunStepRows
           DEF HeartbeatSteps, CheckLease, Heartbeat_Touch, Heartbeat_ReadAttempt, Heartbeat_ReadJob, Heartbeat_ReadRun,
               Heartbeat_Run, Heartbeat_Reply, TouchLeaseHeartbeat, RenewLease, storeVars
    <2> QED
        BY <1>2, <1>4, <2>1, RowsKept DEF Works
<1> QED
    BY <1>5, <1>6

(***************************************************************************)
(* The request that starts the run.                                        *)
(***************************************************************************)
StarterNoted == {"startJobs", "startDeps", "startQueued"} \union QueuePlaces

LEMMA StartPlain ==
    ASSUME NEW f, f.pc \notin StarterNoted
    PROVE  WorkFrame(Starter, f)'
<1>1. Starter \notin Mains /\ Starter # Canceler
    BY ThreadKinds
<1> QED
    BY <1>1 DEF WorkFrame, QueuerOK, StartOK, StarterNoted, QueuePlaces

LEMMA MadeStays ==
    ASSUME Onward, NEW j \in Jobs
    PROVE  /\ job[j] # Absent => job'[j] # Absent
           /\ Made(j) => Made(j)'
           /\ job[j] \notin Unqueued => job'[j] \notin Unqueued
           /\ attempt[j] \notin Unqueued => attempt'[j] \notin Unqueued
<1>1. Abstract!JobMoves(job[j], job'[j]) /\ Abstract!JobMoves(attempt[j], attempt'[j])
    BY OnwardParts, RowsMove
<1>2. (job[j] # Absent => job'[j] # Absent) /\ (attempt[j] # Absent => attempt'[j] # Absent)
    BY <1>1, RowInserted
<1>3. /\ job[j] \notin Unqueued => job'[j] \notin Unqueued
      /\ attempt[j] \notin Unqueued => attempt'[j] \notin Unqueued
    BY <1>1, RowStays
<1> QED
    BY <1>2, <1>3 DEF Made

LEMMA StarterFrame ==
    ASSUME Onward
    PROVE  /\ Starter \in Threads /\ th[Starter] \in Frames /\ QueuerOK(th[Starter]) /\ StartOK(th[Starter])
           /\ Starter \notin Mains /\ Starter # Canceler
<1>1. Starter \in Threads /\ Starter \notin Mains /\ Starter # Canceler
    BY ThreadKinds DEF Threads
<1> QED
    BY <1>1, OnwardParts, UnderwayParts DEF WorkFrame

\* A step of startRun that leaves it at a place the invariant has nothing to say
\* about.
LEMMA StarterSteps ==
    ASSUME Onward, UNCHANGED <<job, attempt>>, th[Starter].pc # "queueAttempt",
           th'[Starter].pc \notin StarterNoted
    PROVE  Works(Starter)
<1>1. PICK f : f = th'[Starter]
    OBVIOUS
<1>2. OwnWork(Starter)
    BY <1>1, StartPlain DEF OwnWork
<1>3. HandsOn(Starter)
    BY StarterFrame DEF HandsOn
<1> QED
    BY <1>2, <1>3, RowsKept DEF Works

LEMMA StartEnds ==
    ASSUME Onward,
           \/ startRun_Create \/ startRun_Planning \/ (Goto(Starter, "failRunPlan") /\ startRun_Plan)
           \/ failRun \/ startRun_Queued \/ startRun_Report
    PROVE  Works(Starter)
<1>1. Starter \notin Mains /\ Starter \notin Ticks /\ Starter # Canceler
    BY ThreadKinds
<1>2. th[Starter].pc # "queueAttempt"
    BY DEF startRun_Create, startRun_Planning, startRun_Plan, failRun, startRun_Queued, startRun_Report, At
<1>3. UNCHANGED <<job, attempt>>
    BY RunStepRows
       DEF startRun_Create, startRun_Planning, startRun_Plan, failRun, startRun_Queued, startRun_Report, CreateRun,
           TransitionRunState, storeVars
<1>4. \/ \E place \in {"startPlanning", "startPlan", "failRunPlan", "failRun", "startReport"} : Goto(Starter, place)
      \/ Finish(Starter, "done")
    BY <1>1 DEF startRun_Create, startRun_Planning, startRun_Plan, failRun, startRun_Queued, startRun_Report,
                TryRun, reportRun, Fails, Returns
<1>5. th'[Starter].pc \in {"startPlanning", "startPlan", "failRunPlan", "failRun", "startReport", "done"}
    BY <1>4, StarterFrame, FrameKept
<1>6. th'[Starter].pc \notin StarterNoted
    BY <1>5 DEF StarterNoted, QueuePlaces
<1> QED
    BY <1>2, <1>3, <1>6, StarterSteps

\* The rows of the planned jobs are inserted.
LEMMA InsertWork ==
    ASSUME Onward, startRun_Jobs \/ startRun_Dependencies \/ startRun_Plan
    PROVE  Works(Starter)
<1>1. /\ Starter \in Threads /\ th[Starter] \in Frames /\ QueuerOK(th[Starter]) /\ StartOK(th[Starter])
      /\ Starter \notin Mains /\ Starter # Canceler
    BY StarterFrame
<1>2. th[Starter].pc \in {"startPlan", "startJobs", "startDeps"}
    BY DEF startRun_Jobs, startRun_Dependencies, startRun_Plan, At
<1>3. HandsOn(Starter)
    BY <1>1, <1>2 DEF HandsOn
<1>4. ASSUME NEW f, f = th'[Starter], f.pc \in {"startJobs", "startDeps", "startQueued", "queueJob"},
             f.pc = "startJobs" => \A j \in Jobs \ f.todo : Made(j)',
             f.pc # "startJobs" => \A j \in Jobs : Made(j)',
             f.pc = "queueJob" => \A r \in Roots : r \in f.todo \/ r = f.job,
             f.pc = "startQueued" => Roots = {}
      PROVE  OwnWork(Starter)
    <2>1. QueuerOK(f)'
        BY <1>4 DEF QueuerOK
    <2>2. StartOK(f)'
        BY <1>4 DEF StartOK, QueuePlaces
    <2> QED
        BY <1>1, <1>4, <2>1, <2>2 DEF OwnWork, WorkFrame
<1>5. CASE startRun_Plan
    <2>1. UNCHANGED <<job, attempt>>
        BY <1>5 DEF startRun_Plan, storeVars
    <2>2. CASE GotoWith(Starter, [NewFrame EXCEPT !.pc = "startJobs", !.todo = Jobs])
        <3>1. PICK f : f = [NewFrame EXCEPT !.pc = "startJobs", !.todo = Jobs]
            OBVIOUS
        <3>2. f.pc = "startJobs" /\ f.todo = Jobs
            BY <3>1 DEF NewFrame
        <3>3. f = th'[Starter]
            BY <1>1, <2>2, <3>1, FrameKept
        <3>4. OwnWork(Starter)
            BY <1>4, <3>2, <3>3
        <3> QED
            BY <1>3, <2>1, <3>4, RowsKept DEF Works
    <2>3. CASE Goto(Starter, "failRunPlan")
        BY <1>5, <2>3, StartEnds
    <2> QED
        BY <1>5, <2>2, <2>3 DEF startRun_Plan
<1>6. CASE startRun_Jobs
    <2>1. PICK j : j = FirstOf(th[Starter].todo)
        OBVIOUS
    <2>2. th[Starter].pc = "startJobs" /\ \A i \in Jobs \ th[Starter].todo : Made(i)
        BY <1>1, <1>6 DEF startRun_Jobs, At, StartOK
    <2>3. PICK f : f = th'[Starter]
        OBVIOUS
    <2>4. CASE CreateJob(j) /\ UNCHANGED th
        <3>1. f.pc = "startJobs" /\ f.todo = th[Starter].todo
            BY <2>2, <2>3, <2>4
        <3>2. OwnWork(Starter)
            BY <1>4, <2>2, <2>3, <3>1, MadeStays
        <3>3. AttemptWrites(Starter) /\ JobWrites(Starter)
            BY <2>4, OnwardParts DEF CreateJob, AttemptWrites, JobWrites, StoreInv, StoreTypeOK
        <3> QED
            BY <1>3, <3>2, <3>3 DEF Works
    <2>5. CASE job[j] # Absent /\ CreateJobAttempt(j) /\ GotoWith(Starter, [th[Starter] EXCEPT !.todo = @ \ {j}])
        <3>1. PICK g : g = [th[Starter] EXCEPT !.todo = @ \ {j}]
            OBVIOUS
        <3>2. g.pc = "startJobs" /\ g.todo = th[Starter].todo \ {j}
            BY <1>1, <2>2, <3>1 DEF Frames
        <3>3. f = g
            BY <1>1, <2>3, <2>5, <3>1, FrameKept
        <3>4. job' = job /\ \A i \in Jobs : attempt'[i] = IF i = j THEN "CREATED" ELSE attempt[i]
            BY <2>5, OnwardParts DEF CreateJobAttempt, StoreInv, StoreTypeOK
        <3>5. \A i \in Jobs \ f.todo : Made(i)'
            BY <2>2, <2>5, <3>2, <3>3, <3>4 DEF Made, Absent
        <3>6. OwnWork(Starter)
            BY <1>4, <2>3, <3>2, <3>3, <3>5
        <3>7. AttemptWrites(Starter) /\ JobWrites(Starter)
            BY <2>5, <3>4 DEF CreateJobAttempt, AttemptWrites, JobWrites
        <3> QED
            BY <1>3, <3>6, <3>7 DEF Works
    <2>6. CASE th[Starter].todo = {} /\ Goto(Starter, "startDeps") /\ UNCHANGED storeVars
        <3>1. f.pc = "startDeps" /\ UNCHANGED <<job, attempt>>
            BY <1>1, <2>3, <2>6, FrameKept DEF storeVars
        <3>2. OwnWork(Starter)
            BY <1>4, <2>2, <2>3, <2>6, <3>1, MadeStays
        <3> QED
            BY <1>3, <3>1, <3>2, RowsKept DEF Works
    <2> QED
        BY <1>6, <2>1, <2>4, <2>5, <2>6 DEF startRun_Jobs
<1>7. CASE startRun_Dependencies
    <2>1. UNCHANGED <<job, attempt>>
        BY <1>7 DEF startRun_Dependencies, RecordJobDependency, storeVars
    <2>2. th[Starter].pc = "startDeps" /\ \A i \in Jobs : Made(i)'
        BY <1>1, <1>7, MadeStays DEF startRun_Dependencies, At, StartOK
    <2>3. PICK g : g = IF Roots = {} THEN [NewFrame EXCEPT !.pc = "startQueued"]
                       ELSE [NewFrame EXCEPT !.pc = "queueJob", !.job = FirstOf(Roots), !.todo = Roots \ {FirstOf(Roots)}]
        OBVIOUS
    <2>4. \/ Roots = {} /\ g.pc = "startQueued"
          \/ g.pc = "queueJob" /\ g.job = FirstOf(Roots) /\ g.todo = Roots \ {FirstOf(Roots)}
        BY <2>3 DEF NewFrame
    <2>5. th'[Starter] = g \/ th'[Starter] = th[Starter]
        BY <1>1, <1>7, <2>3, FrameKept DEF startRun_Dependencies
    <2>6. OwnWork(Starter)
        BY <1>4, <2>2, <2>4, <2>5
    <2> QED
        BY <1>3, <2>1, <2>6, RowsKept DEF Works
<1> QED
    BY <1>5, <1>6, <1>7

\* The roots are queued, one after the other.
LEMMA RootsWork ==
    ASSUME Onward, queueJobAttempt(Starter)
    PROVE  Works(Starter)
<1>1. /\ Starter \in Threads /\ th[Starter] \in Frames /\ QueuerOK(th[Starter]) /\ StartOK(th[Starter])
      /\ Starter \notin Mains /\ Starter # Canceler
    BY StarterFrame
<1>2. PICK f : f = th'[Starter]
    OBVIOUS
<1>3. /\ AttemptWrites(Starter) /\ JobWrites(Starter)
      /\ \/ /\ th[Starter].pc = "queueJob" /\ f.pc = "queueAttempt"
            /\ f.job = th[Starter].job /\ f.todo = th[Starter].todo /\ QueuerOK(f)'
         \/ /\ th[Starter].pc = "queueAttempt" /\ f.pc = "enqueue" /\ attempt'[th[Starter].job] = "QUEUED"
            /\ f.job = th[Starter].job /\ f.todo = th[Starter].todo /\ QueuerOK(f)'
         \/ th[Starter].pc = "enqueue" /\ f = QueueLoop(Starter)
    BY <1>2, QueueSteps
<1>4. th[Starter].pc \in QueuePlaces
    BY <1>3 DEF QueuePlaces
<1>5. /\ \A j \in Jobs : Made(j)'
      /\ \A r \in Roots : r \in th[Starter].todo \/ r = th[Starter].job \/ job'[r] \notin Unqueued
    BY <1>1, <1>4, MadeStays DEF StartOK, Roots
<1>6. CASE th[Starter].pc = "enqueue" /\ f = QueueLoop(Starter)
    <2>1. f = NextJob(Starter, "queueJob", "startQueued")
        BY <1>6 DEF QueueLoop
    <2>2. \/ th[Starter].todo = {} /\ f.pc = "startQueued"
          \/ /\ f.pc = "queueJob" /\ f.job = FirstOf(th[Starter].todo)
             /\ f.todo = th[Starter].todo \ {FirstOf(th[Starter].todo)}
        <3>1. CASE th[Starter].todo = {}
            BY <2>1, <3>1 DEF NextJob, NewFrame
        <3>2. CASE th[Starter].todo # {}
            <4>1. f = [th[Starter] EXCEPT !.pc = "queueJob", !.job = FirstOf(th[Starter].todo),
                                         !.todo = @ \ {FirstOf(th[Starter].todo)}]
                BY <2>1, <3>2 DEF NextJob
            <4> QED
                BY <1>1, <4>1 DEF Frames
        <3> QED
            BY <3>1, <3>2
    <2>3. th[Starter].job \in Roots => job'[th[Starter].job] \notin Unqueued
        BY <1>1, <1>6, MadeStays DEF QueuerOK, Roots
    <2>4. QueuerOK(f)' /\ StartOK(f)'
        BY <1>5, <2>2, <2>3 DEF QueuerOK, StartOK, QueuePlaces
    <2> QED
        BY <1>1, <1>2, <1>3, <1>6, <2>4 DEF Works, OwnWork, WorkFrame, HandsOn
<1>7. CASE f.pc \in {"queueAttempt", "enqueue"} /\ f.job = th[Starter].job /\ f.todo = th[Starter].todo /\ QueuerOK(f)'
    <2>1. StartOK(f)'
        BY <1>5, <1>7 DEF StartOK, QueuePlaces
    <2>2. OwnWork(Starter)
        BY <1>1, <1>2, <1>7, <2>1 DEF OwnWork, WorkFrame
    <2>3. th[Starter].pc = "queueAttempt" => attempt'[th[Starter].job] = "QUEUED"
        BY <1>3
    <2>4. HandsOn(Starter)
        BY <1>1, <2>3 DEF HandsOn, Unqueued, Absent
    <2> QED
        BY <1>3, <2>2, <2>4 DEF Works
<1> QED
    BY <1>3, <1>6, <1>7

LEMMA StarterWork ==
    ASSUME Onward, startRun
    PROVE  Works(Starter)
BY StartEnds, InsertWork, RootsWork DEF startRun

\* Nobody has asked for a cancellation yet.
LEMMA CancelerWork ==
    ASSUME Onward, CancelRun
    PROVE  Works(Canceler)
<1>1. Canceler \in Threads /\ Canceler \notin Mains /\ Canceler # Starter /\ Canceler \notin Ticks
    BY ThreadKinds DEF Threads
<1>2. th[Canceler].pc \in {"idle", "cancelRun"}
    BY <1>1, OnwardParts, UnderwayParts DEF WorkFrame
<1>3. CancelRun_Request
    BY <1>2 DEF CancelRun, CancelRun_Report, CancelRun_List, CancelRun_Job, finalizeCancelIfReady, ReportVerdict,
                transitionJobAndAttempt, At
<1>4. run' # "CANCEL_REQUESTED"
    BY OnwardParts DEF Going, Absent
<1>5. Fails(Canceler) /\ UNCHANGED storeVars
    BY <1>3, <1>4 DEF CancelRun_Request, TryRun, TransitionRunState
<1>6. th'[Canceler].pc = "idle"
    BY <1>1, <1>5, FrameKept DEF Fails
<1>7. PICK f : f = th'[Canceler]
    OBVIOUS
<1>8. OwnWork(Canceler)
    BY <1>1, <1>6, <1>7 DEF OwnWork, WorkFrame
<1>9. HandsOn(Canceler)
    BY <1>1, <1>2 DEF HandsOn
<1> QED
    BY <1>5, <1>8, <1>9, RowsKept DEF Works, storeVars

(***************************************************************************)
(* Every step of every handler.                                            *)
(***************************************************************************)
LEMMA HandlerWork ==
    ASSUME NoFanIn, Onward, NEW t \in Threads, Handler(t)
    PROVE  Works(t)
<1>1. CASE t \in Mains
    BY <1>1, MainWork
<1>2. CASE t \in Ticks
    <2>1. t \notin Mains /\ t # Starter /\ t # Canceler
        BY <1>2, ThreadKinds
    <2> QED
        BY <1>2, <2>1, TickWork DEF Handler
<1>3. CASE t = Starter
    BY <1>3, ThreadKinds, StarterWork DEF Handler
<1>4. CASE t = Canceler
    BY <1>4, ThreadKinds, CancelerWork DEF Handler
<1> QED
    BY <1>1, <1>2, <1>3, <1>4 DEF Threads

(***************************************************************************)
(* The frames of the other threads.                                        *)
(***************************************************************************)

\* Where a frame speaks of the rows of its job, its lease is live.
LEMMA NotedIsHeld ==
    BusyPlaces \union {"hbJob", "compUpJob", "compAttempt", "compJob", "compLease"} \subseteq AckedPlaces \cap HeldPlaces
BY DEF BusyPlaces, AckedPlaces, HeldPlaces

LEMMA FrameGoesOn ==
    ASSUME Onward, NEW u \in Threads, NEW f, f = th[u],
           u \in Mains /\ f.pc \in HeldPlaces =>
               /\ attempt[JobOf(u)] \in FirmStates => attempt'[JobOf(u)] = attempt[JobOf(u)]
               /\ job[JobOf(u)] \in FirmStates => job'[JobOf(u)] = job[JobOf(u)],
           u \in Mains \union {Starter} /\ f.pc = "queueAttempt" => attempt'[f.job] \in Unqueued
    PROVE  WorkFrame(u, f)'
<1>1. WorkFrame(u, f) /\ FrameOK(u, f)
    BY OnwardParts, UnderwayParts
<1>2. u \in Mains => HolderOK(LeaseOf(u), f)'
    <2> SUFFICES ASSUME u \in Mains PROVE HolderOK(LeaseOf(u), f)'
        OBVIOUS
    <2>1. HolderOK(LeaseOf(u), f)
        BY <1>1 DEF WorkFrame
    <2>2. f.pc \notin WorkerStart => run' = "RUNNING"
        BY <2>1, OnwardParts DEF HolderOK
    <2>3. CASE f.pc \in HeldPlaces
        <3>1. /\ attempt[leaseJob[LeaseOf(u)]] \in FirmStates =>
                    attempt'[leaseJob[LeaseOf(u)]] = attempt[leaseJob[LeaseOf(u)]]
              /\ job[leaseJob[LeaseOf(u)]] \in FirmStates =>
                    job'[leaseJob[LeaseOf(u)]] = job[leaseJob[LeaseOf(u)]]
            BY <2>3 DEF JobOf
        <3>2. f.pc \notin WorkerPlaces
            BY <2>3 DEF HeldPlaces, AckedPlaces, WorkerPlaces
        <3>3. leaseJob'[LeaseOf(u)] = leaseJob[LeaseOf(u)]
            BY <3>2, JobStays DEF JobOf
        <3>4. {"SUCCEEDED", "FAILED", "UPLOADING", "RUNNING"} \subseteq FirmStates
              /\ {"compJob", "compLease"} \subseteq ResultPlaces
            BY DEF FirmStates, ResultPlaces
        <3> QED
            BY <2>1, <2>2, <3>1, <3>3, <3>4 DEF HolderOK
    <2>4. CASE f.pc \notin HeldPlaces
        <3>1. f.pc \notin BusyPlaces \union {"hbJob", "compUpJob", "compAttempt", "compJob", "compLease"}
            BY <2>4, NotedIsHeld
        <3> QED
            BY <2>1, <2>2, <3>1 DEF HolderOK
    <2> QED
        BY <2>3, <2>4
<1>3. u \in Mains \union {Starter} => QueuerOK(f)'
    <2>1. f.pc \in {"queueAttempt", "enqueue"} => f.job \in Jobs
        BY <1>1 DEF FrameOK, JobPlaces, QueuePlaces
    <2> QED
        BY <1>1, <2>1, MadeStays DEF WorkFrame, QueuerOK
<1>4. u = Starter => StartOK(f)'
    BY <1>1, MadeStays DEF WorkFrame, StartOK, Roots
<1>5. u = Canceler => f.pc \in {"idle", "cancelRun"}
    BY <1>1 DEF WorkFrame
<1> QED
    BY <1>2, <1>3, <1>4, <1>5 DEF WorkFrame

\* Nobody but its runner writes a row that the runner has brought to RUNNING.
LEMMA FirmKept ==
    ASSUME Onward, NEW t \in Threads, AttemptWrites(t), JobWrites(t), NEW l \in Leases, Live(l), t # Main(l),
           NEW j, j = leaseJob[l]
    PROVE  /\ attempt[j] \in FirmStates => attempt'[j] = attempt[j]
           /\ job[j] \in FirmStates => job'[j] = job[j]
<1>1. StoreInv /\ j \in Jobs /\ leases_active_per_attempt_idx(j) = FALSE
    BY OnwardParts DEF StoreInv, LiveLeaseIsCurrent, leases_active_per_attempt_idx
<1>2. ~ GrantLease(LeaseOf(t), j)
    BY <1>1 DEF GrantLease, CanGrantLease
<1>3. ASSUME t \in Mains, JobOf(t) = j, th[t].pc \in {"compUpAttempt", "compUpJob", "compAttempt", "compJob"}
      PROVE  FALSE
    <2>1. th[t].pc \in HeldPlaces
        BY <1>3, NotedIsHeld DEF BusyPlaces
    <2>2. Live(LeaseOf(t)) /\ LeaseOf(t) \in Leases /\ t = Main(LeaseOf(t))
        BY <1>3, <2>1, OnwardParts, MainParts
    <2>3. LeaseOf(t) = l
        BY <1>1, <1>3, <2>2 DEF StoreInv, LiveLeaseIsCurrent, JobOf
    <2> QED
        BY <2>2, <2>3
<1>4. FirmStates \cap {Absent, "LEASED", "STARTING"} = {} /\ FirmStates \cap Unqueued = {}
    BY DEF FirmStates, Unqueued, Absent
<1>5. attempt[j] \in FirmStates => attempt'[j] = attempt[j]
    BY <1>1, <1>2, <1>3, <1>4 DEF AttemptWrites
<1>6. job[j] \in FirmStates => job'[j] = job[j]
    BY <1>1, <1>2, <1>3, <1>4 DEF JobWrites
<1> QED
    BY <1>5, <1>6

\* A job has one thread that queues it.
LEMMA OneQueuer ==
    ASSUME NoFanIn, ResultInv, NEW t \in Mains \union {Starter}, NEW u \in Mains \union {Starter},
           th[t].pc \in QueuePlaces, th[u].pc \in QueuePlaces, th[t].job = th[u].job
    PROVE  t = u
<1>1. /\ t \in Threads /\ u \in Threads /\ ResultFrame(t, th[t]) /\ ResultFrame(u, th[u])
      /\ FrameOK(t, th[t]) /\ FrameOK(u, th[u]) /\ OneLoop
    BY DEF ResultInv, TimelyInv, SystemInv, Threads
<1>2. th[t].job \in Jobs
    BY <1>1 DEF FrameOK, JobPlaces
<1>3. ASSUME NEW v \in {t, u}
      PROVE  /\ v = Starter => DependsOn[th[t].job] = {}
             /\ v \in Mains => /\ leaseJob[LeaseOf(v)] \in DependsOn[th[t].job] /\ LeaseOf(v) \in Leases
                               /\ v = Main(LeaseOf(v)) /\ v # Starter /\ th[v].pc \in LoopPlaces
    BY <1>1, ThreadKinds DEF ResultFrame, StarterOK, CompleterOK, Roots, LoopPlaces
<1>4. CASE t \in Mains /\ u \in Mains
    <2>1. leaseJob[LeaseOf(t)] = leaseJob[LeaseOf(u)]
        BY <1>2, <1>3, <1>4 DEF NoFanIn
    <2>2. LeaseOf(t) = LeaseOf(u)
        BY <1>1, <1>3, <1>4, <2>1 DEF OneLoop
    <2> QED
        BY <1>3, <1>4, <2>2
<1> QED
    BY <1>3, <1>4

\* What is written to an attempt that was not queued.
LEMMA AttemptLeaves ==
    ASSUME Onward, NEW t \in Threads, AttemptWrites(t), NEW j \in Jobs, attempt[j] \in Unqueued,
           attempt'[j] \notin Unqueued
    PROVE  t \in Mains \union {Starter} /\ th[t].pc = "queueAttempt" /\ th[t].job = j
<1>1. ~ GrantLease(LeaseOf(t), j)
    BY JobTable DEF GrantLease, CanGrantLease, Unqueued, Absent
<1>2. ~ (t \in Mains /\ JobOf(t) = j /\ th[t].pc \in {"compUpAttempt", "compAttempt"})
    BY OnwardParts, MainParts DEF HolderOK, JobOf, BusyPlaces, Unqueued, Absent
<1> QED
    BY <1>1, <1>2 DEF AttemptWrites, Unqueued, Absent

LEMMA OtherWork ==
    ASSUME NoFanIn, Onward, NEW t \in Threads, AttemptWrites(t), JobWrites(t),
           NEW u \in Threads, u # t, NEW f, f = th[u]
    PROVE  WorkFrame(u, f)'
<1>1. ASSUME u \in Mains, f.pc \in HeldPlaces
      PROVE  /\ attempt[JobOf(u)] \in FirmStates => attempt'[JobOf(u)] = attempt[JobOf(u)]
             /\ job[JobOf(u)] \in FirmStates => job'[JobOf(u)] = job[JobOf(u)]
    <2>1. Live(LeaseOf(u)) /\ LeaseOf(u) \in Leases /\ u = Main(LeaseOf(u))
        BY <1>1, OnwardParts, MainParts
    <2> QED
        BY <2>1, FirmKept DEF JobOf
<1>2. ASSUME u \in Mains \union {Starter}, f.pc = "queueAttempt" PROVE attempt'[f.job] \in Unqueued
    <2>1. ResultInv /\ FrameOK(u, f) /\ WorkFrame(u, f)
        BY OnwardParts, UnderwayParts DEF Underway
    <2>2. f.job \in Jobs /\ attempt[f.job] \in Unqueued
        BY <1>2, <2>1 DEF FrameOK, JobPlaces, QueuePlaces, WorkFrame, QueuerOK
    <2> QED
        BY <1>2, <2>1, <2>2, AttemptLeaves, OneQueuer DEF QueuePlaces
<1> QED
    BY <1>1, <1>2, FrameGoesOn

(***************************************************************************)
(* What the rows say after a step of a handler.                            *)
(***************************************************************************)
Alone(t) == \A u \in Threads : u # t => th'[u] = th[u]

LeasesKept ==
    \A l \in Leases : Live(l) /\ attempt[leaseJob[l]] \in {"LEASED", "STARTING", "RUNNING"} =>
        Live(l)' /\ leaseJob'[l] = leaseJob[l]

\* The thread t, in its new frame, keeps what the invariant says of it.
LEMMA MainAfter ==
    ASSUME Onward, NEW t \in Mains, OwnWork(t), th[t].pc \notin WorkerPlaces
    PROVE  /\ leaseJob'[LeaseOf(t)] = JobOf(t) /\ JobOf(t) \in Jobs
           /\ th'[t].pc = "compJob" => attempt'[JobOf(t)] \in {"SUCCEEDED", "FAILED"}
           /\ th'[t].pc = "compLease" => attempt'[JobOf(t)] = job'[JobOf(t)]
<1>1. PICK f : f = th'[t] /\ WorkFrame(t, f)'
    BY DEF OwnWork
<1>2. HolderOK(LeaseOf(t), f)'
    BY <1>1 DEF WorkFrame
<1>3. leaseJob'[LeaseOf(t)] = JobOf(t) /\ JobOf(t) \in Jobs
    BY JobStays
<1> QED
    BY <1>1, <1>2, <1>3 DEF HolderOK, ResultPlaces

LEMMA ResultStatus ==
    ASSUME Onward, NEW t \in Mains, th[t].pc \in ResultPlaces
    PROVE  th[t].status \in {"SUCCEEDED", "FAILED"}
BY OnwardParts, MainParts DEF HolderOK

LEMMA ShortSets ==
    /\ GoingStates \cap Unqueued = Unqueued /\ Unqueued = {Absent, "CREATED"}
    /\ {"CREATED", "QUEUED", "LEASED", "STARTING", "RUNNING", "UPLOADING", "SUCCEEDED", "FAILED"} \subseteq GoingStates
    /\ {"compUpAttempt", "compUpJob", "compAttempt", "compJob", "compLease"} \subseteq ResultPlaces
    /\ {"compUpAttempt", "compUpJob", "compAttempt", "compJob", "compLease"} \cap (WorkerPlaces \union ClosedPlaces) = {}
BY DEF GoingStates, Unqueued, ResultPlaces, WorkerPlaces, ClosedPlaces, Absent

\* The lease that a grant makes.
LEMMA Granted ==
    ASSUME Onward, NEW l \in Leases, NEW j \in Jobs, GrantLease(l, j)
    PROVE  /\ Live(l)' /\ leaseJob'[l] = j /\ attempt'[j] = "LEASED" /\ job'[j] = "LEASED"
           /\ attempt[j] \in {"QUEUED", "LEASED"} /\ job[j] \in {"QUEUED", "LEASED"}
<1>1. attempt[j] \in {"QUEUED", "LEASED"} /\ job[j] \in {"QUEUED", "LEASED"}
    BY JobTable DEF GrantLease, CanGrantLease
<1> QED
    BY <1>1, OnwardParts DEF GrantLease, Live, LiveLeaseStates, StoreInv, StoreTypeOK

LEMMA RowsGoing ==
    ASSUME Onward, NEW t \in Threads, AttemptWrites(t), JobWrites(t), NEW j \in Jobs
    PROVE  job'[j] \in GoingStates /\ attempt'[j] \in GoingStates
<1>1. job[j] \in GoingStates /\ attempt[j] \in GoingStates
    BY ReadsGoing
<1>2. t \in Mains /\ th[t].pc \in {"compAttempt", "compJob"} => th[t].status \in {"SUCCEEDED", "FAILED"}
    BY ResultStatus, ShortSets
<1>3. t \in Mains /\ GrantLease(LeaseOf(t), j) => attempt'[j] = "LEASED" /\ job'[j] = "LEASED"
    BY OnwardParts, MainParts, Granted
<1>4. attempt'[j] \in GoingStates
    BY <1>1, <1>2, <1>3, ShortSets DEF AttemptWrites
<1>5. job'[j] \in GoingStates
    BY <1>1, <1>2, <1>3, ShortSets DEF JobWrites
<1> QED
    BY <1>4, <1>5

\* A job leaves its first states before its attempt does, and who has taken it
\* out goes on to the attempt.
LEMMA QueuedTogether ==
    ASSUME Onward, NEW t \in Threads, Works(t), Alone(t), NEW j \in Jobs
    PROVE  /\ attempt'[j] \notin Unqueued => job'[j] \notin Unqueued
           /\ job'[j] \notin Unqueued /\ attempt'[j] \in Unqueued =>
                 \E u \in Mains \union {Starter} : th'[u].pc = "queueAttempt" /\ th'[u].job = j
<1>1. JobOK(j) /\ AttemptWrites(t) /\ JobWrites(t) /\ HandsOn(t) /\ WorkFrame(t, th[t])
    BY OnwardParts, UnderwayParts DEF Underway, Work, Works
<1>2. ASSUME attempt'[j] \notin Unqueued PROVE job'[j] \notin Unqueued
    <2>1. CASE attempt[j] \notin Unqueued
        BY <1>1, <2>1, MadeStays DEF JobOK
    <2>2. CASE attempt[j] \in Unqueued
        <3>1. t \in Mains \union {Starter} /\ th[t].pc = "queueAttempt" /\ th[t].job = j
            BY <1>1, <1>2, <2>2, AttemptLeaves
        <3>2. job[j] \notin Unqueued
            BY <1>1, <3>1 DEF WorkFrame, QueuerOK
        <3> QED
            BY <3>2, MadeStays
    <2> QED
        BY <2>1, <2>2
<1>3. ASSUME job'[j] \notin Unqueued, attempt'[j] \in Unqueued
      PROVE  \E u \in Mains \union {Starter} : th'[u].pc = "queueAttempt" /\ th'[u].job = j
    <2>1. attempt[j] \in Unqueued
        BY <1>3, MadeStays
    <2>2. CASE job[j] \notin Unqueued
        <3>1. PICK u \in Mains \union {Starter} : th[u].pc = "queueAttempt" /\ th[u].job = j
            BY <1>1, <2>1, <2>2 DEF JobOK
        <3>2. u # t
            BY <1>1, <1>3, <3>1 DEF HandsOn
        <3>3. th'[u] = th[u]
            BY <3>2 DEF Alone, Threads
        <3> QED
            BY <3>1, <3>3
    <2>3. CASE job[j] \in Unqueued
        <3>1. ~ GrantLease(LeaseOf(t), j)
            BY <2>3, JobTable DEF GrantLease, CanGrantLease, Unqueued, Absent
        <3>2. ~ (t \in Mains /\ JobOf(t) = j /\ th[t].pc \in {"compUpJob", "compJob"})
            BY <2>3, OnwardParts, MainParts DEF HolderOK, JobOf, Unqueued, Absent
        <3> QED
            BY <1>1, <1>3, <2>3, <3>1, <3>2 DEF JobWrites, Unqueued, Absent
    <2> QED
        BY <2>2, <2>3
<1> QED
    BY <1>2, <1>3

LEMMA LeasedHasLease ==
    ASSUME Onward, NEW t \in Threads, Works(t), LeasesKept, NEW j \in Jobs,
           attempt'[j] \in {"LEASED", "STARTING", "RUNNING"}
    PROVE  \E l \in Leases : Live(l)' /\ leaseJob'[l] = j
<1>1. JobOK(j) /\ AttemptWrites(t)
    BY OnwardParts DEF Underway, Work, Works
<1>2. CASE attempt[j] \in {"LEASED", "STARTING", "RUNNING"}
    <2>1. PICK l \in Leases : Live(l) /\ leaseJob[l] = j
        BY <1>1, <1>2 DEF JobOK
    <2> QED
        BY <1>2, <2>1 DEF LeasesKept
<1>3. CASE t \in Mains /\ GrantLease(LeaseOf(t), j)
    BY <1>3, OnwardParts, MainParts, Granted
<1>4. t \in Mains /\ th[t].pc = "compAttempt" => th[t].status \in {"SUCCEEDED", "FAILED"}
    BY ResultStatus, ShortSets
<1> QED
    BY <1>1, <1>2, <1>3, <1>4 DEF AttemptWrites

LEMMA UploadingHasRunner ==
    ASSUME Onward, NEW t \in Threads, Works(t), Alone(t), NEW j \in Jobs, attempt'[j] = "UPLOADING"
    PROVE  \E l \in Leases : leaseJob'[l] = j /\ th'[Main(l)].pc \in {"compUpJob", "compAttempt"}
<1>1. JobOK(j) /\ AttemptWrites(t) /\ HandsOn(t) /\ OwnWork(t)
    BY OnwardParts DEF Underway, Work, Works
<1>2. CASE attempt[j] = "UPLOADING"
    <2>1. PICK l \in Leases : leaseJob[l] = j /\ th[Main(l)].pc \in {"compUpJob", "compAttempt"}
        BY <1>1, <1>2 DEF JobOK
    <2>2. Main(l) \in Mains /\ Main(l) \in Threads /\ LeaseOf(Main(l)) = l
        BY ThreadKinds DEF Threads
    <2>3. leaseJob'[l] = j
        BY <2>1, <2>2, ShortSets, JobStays DEF JobOf
    <2>4. CASE Main(l) # t
        BY <2>1, <2>2, <2>3, <2>4 DEF Alone
    <2>5. CASE Main(l) = t
        <3>1. th'[t].pc \in {"compAttempt", "compJob"}
            BY <1>1, <2>1, <2>2, <2>5 DEF HandsOn
        <3>2. th'[t].pc # "compJob"
            BY <1>1, <2>1, <2>2, <2>5, MainAfter, ShortSets DEF JobOf
        <3> QED
            BY <2>3, <2>5, <3>1, <3>2
    <2> QED
        BY <2>4, <2>5
<1>3. CASE attempt[j] # "UPLOADING"
    <2>1. t \in Mains /\ GrantLease(LeaseOf(t), j) => attempt'[j] = "LEASED"
        BY OnwardParts, MainParts, Granted
    <2>2. t \in Mains /\ th[t].pc = "compAttempt" => th[t].status \in {"SUCCEEDED", "FAILED"}
        BY ResultStatus, ShortSets
    <2>3. t \in Mains /\ JobOf(t) = j /\ th[t].pc = "compUpAttempt" /\ th'[t].pc = "compUpJob"
        BY <1>1, <1>3, <2>1, <2>2 DEF AttemptWrites
    <2>4. LeaseOf(t) \in Leases /\ t = Main(LeaseOf(t)) /\ leaseJob'[LeaseOf(t)] = j
        BY <2>3, OnwardParts, MainParts, JobStays, ShortSets
    <2> QED
        BY <2>3, <2>4
<1> QED
    BY <1>2, <1>3

\* A result that the attempt has is the job's, or about to be.
LEMMA ResultFollows ==
    ASSUME Onward, NEW t \in Threads, Works(t), Alone(t), NEW j \in Jobs, attempt'[j] \in {"SUCCEEDED", "FAILED"}
    PROVE  job'[j] = attempt'[j] \/ \E l \in Leases : leaseJob'[l] = j /\ th'[Main(l)].pc = "compJob"
<1>1. JobOK(j) /\ AttemptWrites(t) /\ JobWrites(t) /\ HandsOn(t) /\ OwnWork(t)
    BY OnwardParts DEF Underway, Work, Works
<1>2. t \in Mains /\ GrantLease(LeaseOf(t), j) =>
          attempt'[j] = "LEASED" /\ job[j] \in {"QUEUED", "LEASED"}
    BY OnwardParts, MainParts, Granted
<1>3. CASE attempt'[j] = attempt[j] /\ job[j] = attempt[j]
    <2>1. ~ (t \in Mains /\ JobOf(t) = j /\ th[t].pc \in {"compUpJob", "compJob"})
        BY <1>3, OnwardParts, MainParts DEF HolderOK, JobOf
    <2>2. job'[j] = job[j]
        BY <1>1, <1>2, <1>3, <2>1 DEF JobWrites, Unqueued, Absent
    <2> QED
        BY <1>3, <2>2
<1>4. CASE attempt'[j] = attempt[j] /\ job[j] # attempt[j]
    <2>1. PICK l \in Leases : leaseJob[l] = j /\ th[Main(l)].pc = "compJob"
        BY <1>1, <1>4 DEF JobOK
    <2>2. Main(l) \in Mains /\ Main(l) \in Threads /\ LeaseOf(Main(l)) = l
        BY ThreadKinds DEF Threads
    <2>3. leaseJob'[l] = j
        BY <2>1, <2>2, ShortSets, JobStays DEF JobOf
    <2>4. CASE Main(l) # t
        BY <2>1, <2>2, <2>3, <2>4 DEF Alone
    <2>5. CASE Main(l) = t
        <3>1. th'[t].pc = "compLease"
            BY <1>1, <2>1, <2>2, <2>5 DEF HandsOn
        <3>2. attempt'[JobOf(t)] = job'[JobOf(t)] /\ JobOf(t) = j
            BY <1>1, <2>1, <2>2, <2>5, <3>1, MainAfter, ShortSets DEF JobOf
        <3> QED
            BY <3>2
    <2> QED
        BY <2>4, <2>5
<1>5. CASE attempt'[j] # attempt[j]
    <2>1. t \in Mains /\ JobOf(t) = j /\ th[t].pc = "compAttempt"
        BY <1>1, <1>2, <1>5 DEF AttemptWrites
    <2>2. LeaseOf(t) \in Leases /\ t = Main(LeaseOf(t)) /\ leaseJob'[LeaseOf(t)] = j
        BY <2>1, OnwardParts, MainParts, JobStays, ShortSets
    <2>3. th'[t].pc = "compJob"
        BY <1>1, <2>1 DEF HandsOn
    <2> QED
        BY <2>2, <2>3
<1> QED
    BY <1>3, <1>4, <1>5

\* An errand places a runner outside the worker's part.
LEMMA ErrandPlaces ==
    ({"compLease", "depAttempt", "queueJob"} \union LoopPlaces \union VerdictAhead) \cap WorkerPlaces = {}
BY DEF LoopPlaces, QueuePlaces, VerdictAhead, WorkerPlaces

\* A job that waits is waited upon: the completion of the one before it has it in
\* hand.
LEMMA ErrandsKept ==
    ASSUME Onward, NEW t \in Threads, Works(t), Alone(t), NEW j \in Jobs, job'[j] \in Unqueued,
           NEW d \in DependsOn[j], job'[d] = "SUCCEEDED"
    PROVE  \E l \in Leases : OnItsWay(l, d, j)'
<1>1. /\ JobOK(j) /\ AttemptWrites(t) /\ JobWrites(t) /\ HandsOn(t)
      /\ job[j] \in Unqueued /\ d \in Jobs
    BY OnwardParts, MadeStays, PlanAssumption DEF Underway, Work, Works
<1>2. CASE job[d] = "SUCCEEDED"
    <2>1. PICK l \in Leases : OnItsWay(l, d, j)
        BY <1>1, <1>2 DEF JobOK
    <2>2. Main(l) \in Mains /\ Main(l) \in Threads /\ LeaseOf(Main(l)) = l
        BY ThreadKinds DEF Threads
    <2>3. CASE Main(l) = t
        BY <1>1, <1>2, <2>1, <2>2, <2>3 DEF HandsOn, Carries
    <2>4. CASE Main(l) # t
        <3>1. th'[Main(l)] = th[Main(l)]
            BY <2>2, <2>4 DEF Alone
        <3>2. th[Main(l)].pc \notin WorkerPlaces
            BY <2>1, ErrandPlaces DEF OnItsWay
        <3>3. leaseJob'[l] = leaseJob[l]
            BY <2>2, <3>2, JobStays DEF JobOf
        <3>4. OnItsWay(l, d, j)'
            BY <2>1, <3>1, <3>3 DEF OnItsWay
        <3> QED
            BY <3>4
    <2> QED
        BY <2>3, <2>4
<1>3. CASE job[d] # "SUCCEEDED"
    <2>1. t \in Mains /\ GrantLease(LeaseOf(t), d) => job'[d] = "LEASED"
        BY <1>1, OnwardParts, MainParts, Granted
    <2>2. t \in Mains /\ JobOf(t) = d /\ th[t].pc = "compJob"
        BY <1>1, <1>3, <2>1 DEF JobWrites
    <2>3. LeaseOf(t) \in Leases /\ t = Main(LeaseOf(t)) /\ leaseJob'[LeaseOf(t)] = d
        BY <2>2, OnwardParts, MainParts, JobStays, ShortSets
    <2>4. th'[t].pc = "compLease"
        BY <1>1, <2>2 DEF HandsOn
    <2>5. OnItsWay(LeaseOf(t), d, j)'
        BY <2>3, <2>4 DEF OnItsWay
    <2> QED
        BY <2>3, <2>5
<1> QED
    BY <1>2, <1>3

LEMMA JobWork ==
    ASSUME Onward, NEW t \in Threads, Works(t), Alone(t), LeasesKept, NEW j \in Jobs
    PROVE  JobOK(j)'
<1>1. job'[j] \in GoingStates /\ attempt'[j] \in GoingStates
    BY RowsGoing DEF Works
<1>2. /\ attempt'[j] \notin Unqueued => job'[j] \notin Unqueued
      /\ job'[j] \notin Unqueued /\ attempt'[j] \in Unqueued =>
            \E u \in Mains \union {Starter} : th'[u].pc = "queueAttempt" /\ th'[u].job = j
    BY QueuedTogether
<1>3. attempt'[j] \in {"LEASED", "STARTING", "RUNNING"} => \E l \in Leases : Live(l)' /\ leaseJob'[l] = j
    BY LeasedHasLease
<1>4. attempt'[j] = "UPLOADING" =>
          \E l \in Leases : leaseJob'[l] = j /\ th'[Main(l)].pc \in {"compUpJob", "compAttempt"}
    BY UploadingHasRunner
<1>5. attempt'[j] \in {"SUCCEEDED", "FAILED"} =>
          job'[j] = attempt'[j] \/ \E l \in Leases : leaseJob'[l] = j /\ th'[Main(l)].pc = "compJob"
    BY ResultFollows
<1>6. job'[j] \in Unqueued =>
          \A d \in DependsOn[j] : job'[d] = "SUCCEEDED" => \E l \in Leases : OnItsWay(l, d, j)'
    BY ErrandsKept
<1> QED
    BY <1>1, <1>2, <1>3, <1>4, <1>5, <1>6 DEF JobOK

\* The verdict depends on the jobs that have a final state.
LEMMA VerdictNotNew ==
    ASSUME \A j \in Jobs : /\ job'[j] = "SUCCEEDED" <=> job[j] = "SUCCEEDED"
                           /\ job'[j] \in {"FAILED", "TIMED_OUT", "CANCELED"} =>
                                 job[j] \in {"FAILED", "TIMED_OUT", "CANCELED"},
           RunVerdict' # Absent
    PROVE  RunVerdict # Absent
<1>1. PICK U : U = {j \in Required : job[j] # "SUCCEEDED"}
    OBVIOUS
<1>2. U = {j \in Required : job'[j] # "SUCCEEDED"} /\ U \subseteq Jobs
    BY <1>1, PlanAssumption
<1>3. U = {} \/ job'[FirstOf(U)] \in {"FAILED", "TIMED_OUT", "CANCELED"}
    BY <1>2 DEF RunVerdict, FirstOf
<1>4. U # {} => FirstOf(U) \in Jobs
    BY <1>2, FirstOfRange
<1>5. U = {} \/ job[FirstOf(U)] \in {"FAILED", "TIMED_OUT", "CANCELED"}
    BY <1>3, <1>4
<1> QED
    BY <1>1, <1>5 DEF RunVerdict, Absent

LEMMA VerdictKept ==
    ASSUME Onward, NEW t \in Threads, Works(t), Alone(t)
    PROVE  VerdictSeen'
<1>1. JobWrites(t) /\ HandsOn(t) /\ VerdictSeen
    BY OnwardParts DEF Underway, Work, Works
<1> SUFFICES ASSUME RunVerdict' # Absent PROVE \E l \in Leases : th'[Main(l)].pc \in VerdictAhead
    BY DEF VerdictSeen
<1>2. CASE t \in Mains /\ th[t].pc = "compJob"
    <2>1. th'[t].pc = "compLease"
        BY <1>1, <1>2 DEF HandsOn
    <2> QED
        BY <1>2, <2>1, OnwardParts, MainParts DEF VerdictAhead
<1>3. CASE ~ (t \in Mains /\ th[t].pc = "compJob")
    <2>1. ASSUME NEW j \in Jobs
          PROVE  /\ job'[j] = "SUCCEEDED" <=> job[j] = "SUCCEEDED"
                 /\ job'[j] \in {"FAILED", "TIMED_OUT", "CANCELED"} =>
                       job[j] \in {"FAILED", "TIMED_OUT", "CANCELED"}
        <3>1. t \in Mains /\ GrantLease(LeaseOf(t), j) =>
                  job'[j] = "LEASED" /\ job[j] \in {"QUEUED", "LEASED"}
            BY OnwardParts, MainParts, Granted
        <3>2. t \in Mains /\ JobOf(t) = j /\ th[t].pc = "compUpJob" => job[j] = "RUNNING"
            BY OnwardParts, MainParts DEF HolderOK, JobOf
        <3> QED
            BY <1>1, <1>3, <3>1, <3>2 DEF JobWrites, Unqueued, Absent
    <2>2. RunVerdict # Absent
        BY <2>1, VerdictNotNew
    <2>3. PICK l \in Leases : th[Main(l)].pc \in VerdictAhead
        BY <1>1, <2>2 DEF VerdictSeen
    <2>4. Main(l) \in Mains /\ Main(l) \in Threads
        BY ThreadKinds DEF Threads
    <2> QED
        BY <1>1, <2>2, <2>3, <2>4 DEF HandsOn, Alone
<1> QED
    BY <1>2, <1>3

\* The run opens when all roots are in the queue.
LEMMA RunOpens ==
    ASSUME Onward, Open', ~Open => th[Starter].pc = "startQueued"
    PROVE  OpenOK'
<1>1. (\A j \in Jobs : Made(j)) /\ (\A r \in Roots : job[r] \notin Unqueued)
    <2>1. CASE Open
        BY <2>1, OnwardParts DEF Underway, Work, OpenOK
    <2>2. CASE ~Open
        BY <2>2, StarterFrame DEF StartOK
    <2> QED
        BY <2>1, <2>2
<1> QED
    BY <1>1, MadeStays DEF OpenOK, Roots

LEMMA WorkKept ==
    ASSUME NoFanIn, Onward, NEW t \in Threads, Works(t), Alone(t), LeasesKept,
           Open' /\ ~Open => th[Starter].pc = "startQueued"
    PROVE  Work'
<1>1. ASSUME NEW u \in Threads PROVE WorkFrame(u, th[u])'
    <2>1. CASE u = t
        BY <2>1 DEF Works, OwnWork
    <2>2. CASE u # t
        <3>1. PICK f : f = th[u]
            OBVIOUS
        <3>2. WorkFrame(u, f)'
            BY <2>2, <3>1, OtherWork DEF Works
        <3>3. f = th'[u]
            BY <2>2, <3>1 DEF Alone
        <3> QED
            BY <3>2, <3>3
    <2> QED
        BY <2>1, <2>2
<1>2. OpenOK'
    BY RunOpens DEF OpenOK
<1>3. \A j \in Jobs : JobOK(j)'
    BY JobWork
<1>4. VerdictSeen'
    BY VerdictKept
<1> QED
    BY <1>1, <1>2, <1>3, <1>4 DEF Work

LEMMA StarterOpens ==
    ASSUME startRun, run' = "QUEUED", run # "QUEUED"
    PROVE  th[Starter].pc = "startQueued"
BY DEF startRun, startRun_Create, startRun_Planning, startRun_Plan, failRun, startRun_Jobs, startRun_Dependencies,
       queueJobAttempt, queueJobAttempt_Skip, startRun_Queued, startRun_Report, TryRun, reportRun, CreateRun, CreateJob,
       CreateJobAttempt, RecordJobDependency, TransitionRunState, TransitionJobState, TransitionJobAttemptState,
       EnqueueJobAttempt, At, storeVars

LEMMA HandlerKeepsWork ==
    ASSUME NoFanIn, Onward, NEW t \in Threads, Handler(t)
    PROVE  Work'
<1>1. Works(t)
    BY HandlerWork
<1>2. ThreadsInv /\ FrameOK(t, th[t]) /\ [StoreNext]_storeVars /\ Going
    BY OnwardParts, UnderwayParts
<1>3. Alone(t)
    <2>1. Good(t)
        BY <1>2, HandlerGood
    <2>2. DOMAIN th = Threads
        BY <1>2 DEF ThreadsInv
    <2> QED
        BY <2>1, <2>2 DEF Good, Alone
<1>4. LeasesKept
    <2> SUFFICES ASSUME NEW l \in Leases, Live(l), attempt[leaseJob[l]] \in {"LEASED", "STARTING", "RUNNING"}
                 PROVE  Live(l)' /\ leaseJob'[l] = leaseJob[l]
        BY DEF LeasesKept
    <2>1. Main(l) \in Mains /\ LeaseOf(Main(l)) = l
        BY ThreadKinds
    <2>2. th[Main(l)].pc \notin {"compLease", "cakLease"}
        BY <2>1, OnwardParts, MainParts DEF HolderOK, ClosedPlaces, ResultPlaces
    <2> QED
        BY <1>2, <2>2, HandlerFlow, LeaseStaysLive
<1>5. Open' /\ ~Open => th[Starter].pc = "startQueued"
    <2> SUFFICES ASSUME Open', ~Open PROVE th[Starter].pc = "startQueued"
        OBVIOUS
    <2>1. run \in Unstarted /\ run # "QUEUED"
        BY <1>2 DEF Going, Open, Unstarted
    <2>2. run' = "QUEUED"
        BY <1>2, <2>1, RunGoesOn DEF Open, Unstarted, Absent
    <2>3. t = Starter
        BY <1>2, <2>1, <2>2, HandlerMoves DEF MovesRows
    <2>4. startRun
        BY <2>3, ThreadKinds DEF Handler
    <2> QED
        BY <2>1, <2>2, <2>4, StarterOpens
<1> QED
    BY <1>1, <1>3, <1>4, <1>5, WorkKept

(***************************************************************************)
(* The runner processes.                                                   *)
(***************************************************************************)
LEMMA NoWrites ==
    ASSUME NoFanIn, Onward, UNCHANGED <<run, job, attempt, leaseState, leaseJob>>,
           NEW t \in Threads, th[t].pc \notin HandingPlaces, Alone(t), OwnWork(t)
    PROVE  Work'
<1>1. Works(t)
    BY RowsKept, NothingInHand DEF Works
<1>2. LeasesKept
    BY DEF LeasesKept, Live
<1>3. ~ (Open' /\ ~Open)
    BY DEF Open
<1> QED
    BY <1>1, <1>2, <1>3, WorkKept

LEMMA FinishWork ==
    ASSUME Onward, NEW t \in Mains, NEW place, Finish(t, place), place \notin NotedPlaces,
           place \in WorkerStart \/ th[t].pc \notin WorkerStart
    PROVE  OwnWork(t)
<1>1. PICK f : f = [NewFrame EXCEPT !.pc = place]
    OBVIOUS
<1>2. f.pc = place /\ f.run = Absent /\ f.attempt = Absent
    BY <1>1 DEF NewFrame
<1>3. GotoWith(t, f)
    BY <1>1 DEF Finish
<1> QED
    BY <1>2, <1>3, FreshWork

LEMMA RunnerKeepsWork ==
    ASSUME NoFanIn, Onward, UNCHANGED storeVars,
           \/ \E l \in Leases : CommandEnds(l) \/ TickerFires(l) \/ RunnerCrashes(l)
           \/ CancelRequested
    PROVE  Work'
<1>1. DOMAIN th = Threads /\ {"exec", "granted"} \cap (HandingPlaces \union WorkerStart) = {}
      /\ {"gone", "cakCheck"} \cap NotedPlaces = {}
    BY OnwardParts
       DEF ThreadsInv, HandingPlaces, VerdictAhead, LoopPlaces, QueuePlaces, WorkerStart, NotedPlaces, BusyPlaces,
           ResultPlaces, ClosedPlaces
<1>2. UNCHANGED <<run, job, attempt, leaseState, leaseJob>>
    BY DEF storeVars, leaseVars
<1>3. ASSUME NEW l \in Leases, CommandEnds(l) PROVE Work'
    <2>1. Main(l) \in Mains /\ Main(l) \in Threads /\ th[Main(l)].pc = "exec"
        BY <1>3, ThreadKinds DEF Threads, CommandEnds, At
    <2>2. Alone(Main(l))
        BY <1>1, <1>3 DEF CommandEnds, Finish, GotoWith, Alone
    <2>3. OwnWork(Main(l))
        <3>1. CASE Finish(Main(l), "cakCheck")
            BY <1>1, <2>1, <3>1, FinishWork
        <3>2. CASE \E s \in {"SUCCEEDED", "FAILED"} :
                      GotoWith(Main(l), [NewFrame EXCEPT !.pc = "compCheck", !.status = s])
            <4>1. PICK s \in {"SUCCEEDED", "FAILED"} :
                      GotoWith(Main(l), [NewFrame EXCEPT !.pc = "compCheck", !.status = s])
                BY <3>2
            <4>2. PICK f : f = [NewFrame EXCEPT !.pc = "compCheck", !.status = s]
                OBVIOUS
            <4>3. f.pc = "compCheck" /\ f.run = Absent /\ f.attempt = Absent /\ f.status = s
                BY <4>2 DEF NewFrame
            <4>4. f = th'[Main(l)]
                BY <2>1, <4>1, <4>2, FrameKept
            <4>5. f.run \notin UndeliverableRunStates /\ f.attempt # "CANCEL_REQUESTED"
                BY <4>3 DEF UndeliverableRunStates, TerminalRunStates, Absent
            <4>6. {"exec", "compCheck"} \subseteq BusyPlaces
                BY DEF BusyPlaces
            <4>7. WorkFrame(Main(l), f)'
                BY <1>2, <2>1, <4>3, <4>5, <4>6, BusyStays
            <4> QED
                BY <4>4, <4>7 DEF OwnWork
        <3> QED
            BY <1>3, <3>1, <3>2 DEF CommandEnds
    <2> QED
        BY <1>1, <1>2, <2>1, <2>2, <2>3, NoWrites
<1>4. ASSUME NEW l \in Leases, TickerFires(l) PROVE Work'
    <2>1. /\ Tick(l) \in Threads /\ Tick(l) \notin Mains /\ Tick(l) # Starter /\ Tick(l) # Canceler
          /\ th[Tick(l)].pc = "idle"
        BY <1>4, ThreadKinds DEF Threads, TickerFires, At
    <2>2. Alone(Tick(l))
        BY <1>1, <1>4 DEF TickerFires, Goto, Alone
    <2>3. OwnWork(Tick(l))
        BY <2>1 DEF OwnWork, WorkFrame
    <2>4. "idle" \notin HandingPlaces
        BY DEF HandingPlaces, VerdictAhead, LoopPlaces, QueuePlaces
    <2> QED
        BY <1>2, <2>1, <2>2, <2>3, <2>4, NoWrites
<1>5. ASSUME NEW l \in Leases, RunnerCrashes(l) PROVE Work'
    <2>1. Main(l) \in Mains /\ Main(l) \in Threads /\ th[Main(l)].pc \in {"granted", "exec"}
        BY <1>5, ThreadKinds DEF Threads, RunnerCrashes
    <2>2. Alone(Main(l)) /\ Finish(Main(l), "gone")
        BY <1>1, <1>5 DEF RunnerCrashes, Finish, GotoWith, Alone
    <2>3. OwnWork(Main(l))
        BY <1>1, <2>1, <2>2, FinishWork DEF WorkerStart
    <2> QED
        BY <1>1, <1>2, <2>1, <2>2, <2>3, NoWrites
<1>6. CASE CancelRequested
    <2>1. Canceler \in Threads /\ Canceler \notin Mains /\ Canceler # Starter /\ th[Canceler].pc = "idle"
        BY <1>6, ThreadKinds DEF Threads, CancelRequested, CancelRun_Read, At
    <2>2. Alone(Canceler) /\ th'[Canceler].pc = "cancelRun"
        BY <1>1, <1>6, <2>1, FrameKept DEF CancelRequested, CancelRun_Read, Goto, Alone
    <2>3. PICK f : f = th'[Canceler]
        OBVIOUS
    <2>4. OwnWork(Canceler)
        BY <2>1, <2>2, <2>3 DEF OwnWork, WorkFrame
    <2>5. "idle" \notin HandingPlaces
        BY DEF HandingPlaces, VerdictAhead, LoopPlaces, QueuePlaces
    <2> QED
        BY <1>2, <2>1, <2>2, <2>4, <2>5, NoWrites
<1> QED
    BY <1>3, <1>4, <1>5, <1>6

(***************************************************************************)
(* The sweep and the clock.                                                *)
(***************************************************************************)
LEMMA TimePasses ==
    ASSUME NoFanIn, Onward, UNCHANGED <<run, job, attempt, leaseState, leaseJob, th>>
    PROVE  Work'
<1>1. Canceler \in Threads /\ Canceler \notin Mains /\ Canceler # Starter
    BY ThreadKinds DEF Threads
<1>2. th[Canceler].pc \in {"idle", "cancelRun"}
    BY <1>1, OnwardParts, UnderwayParts DEF WorkFrame
<1>3. th[Canceler].pc \notin HandingPlaces
    BY <1>2 DEF HandingPlaces, VerdictAhead, LoopPlaces, QueuePlaces
<1>4. OwnWork(Canceler) /\ Alone(Canceler)
    BY <1>1, <1>2 DEF OwnWork, WorkFrame, Alone
<1> QED
    BY <1>1, <1>3, <1>4, NoWrites

\* The sweep finds the attempt of a dead runner where that runner left it, and
\* no thread that would still write it.
LEMMA SweepFinds ==
    ASSUME Onward, NEW m \in Leases, Live(m), due[m], NEW j, j = leaseJob[m]
    PROVE  /\ j \in Jobs /\ th[Main(m)].pc = "gone"
           /\ attempt[j] \notin Unqueued /\ job[j] \notin Unqueued
           /\ \A l \in Leases : Live(l) /\ leaseJob[l] = j => l = m
           /\ \/ attempt[j] \in {"QUEUED", "LEASED", "STARTING", "RUNNING"}
              \/ attempt[j] = "SUCCEEDED" /\ job[j] = "SUCCEEDED"
<1>1. StoreInv /\ TimelyInv /\ Main(m) \in Mains /\ Main(m) \in Threads /\ LeaseOf(Main(m)) = m
    BY OnwardParts, UnderwayParts, ThreadKinds DEF Threads
<1>2. j \in Jobs /\ attempt[j] \notin Unqueued /\ job[j] \notin Unqueued
    BY <1>1 DEF StoreInv, GrantedOnQueued, Live, LiveLeaseStates, Absent
<1>3. th[Main(m)].pc = "gone"
    BY <1>1 DEF TimelyInv, DueIsAbandoned, Abandoned, At
<1>4. ASSUME NEW l \in Leases, Live(l), leaseJob[l] = j PROVE l = m
    BY <1>1, <1>4 DEF StoreInv, LiveLeaseIsCurrent
<1>5. ASSUME NEW l \in Leases, leaseJob[l] = j, th[Main(l)].pc \in {"compUpJob", "compAttempt", "compJob"}
      PROVE  FALSE
    <2>1. Main(l) \in Mains /\ LeaseOf(Main(l)) = l /\ th[Main(l)].pc \in HeldPlaces
        BY <1>5, ThreadKinds, NotedIsHeld
    <2>2. Live(l)
        BY <2>1, OnwardParts, MainParts
    <2> QED
        BY <1>3, <1>4, <1>5, <2>2
<1>6. job[j] # "FAILED"
    <2>1. ResultFrame(Main(m), th[Main(m)])
        BY <1>1, OnwardParts, UnderwayParts
    <2> QED
        BY <1>1, <1>3, <2>1 DEF ResultFrame, CompleterOK
<1>7. JobOK(j)
    BY <1>2, OnwardParts DEF Underway, Work
<1>8. attempt[j] # "UPLOADING" /\ (attempt[j] \in {"SUCCEEDED", "FAILED"} => job[j] = attempt[j])
    BY <1>5, <1>7 DEF JobOK
<1>9. attempt[j] \in GoingStates
    BY <1>7 DEF JobOK
<1> QED
    BY <1>2, <1>3, <1>4, <1>6, <1>8, <1>9 DEF GoingStates, Unqueued

LEMMA SweepTable ==
    /\ \A from \in {"QUEUED", "LEASED", "STARTING", "RUNNING"} : validateJobTransition(from, "QUEUED")
    /\ ~ validateJobTransition("SUCCEEDED", "QUEUED")
BY DEF validateJobTransition, jobTransitions, JobStates

LEMMA SweepWork ==
    ASSUME NoFanIn, Onward, NEW m \in Leases, Sweep(m)
    PROVE  Work'
<1>1. PICK j : j = leaseJob[m]
    OBVIOUS
<1>2. Live(m) /\ due[m] /\ run' = run /\ leaseJob' = leaseJob /\ th' = th
    BY DEF Sweep, ExpireLease
<1>3. /\ j \in Jobs /\ th[Main(m)].pc = "gone"
      /\ attempt[j] \notin Unqueued /\ job[j] \notin Unqueued
      /\ \A l \in Leases : Live(l) /\ leaseJob[l] = j => l = m
      /\ \/ attempt[j] \in {"QUEUED", "LEASED", "STARTING", "RUNNING"}
         \/ attempt[j] = "SUCCEEDED" /\ job[j] = "SUCCEEDED"
    BY <1>1, <1>2, SweepFinds
<1>4. /\ \A l \in Leases : l # m => leaseState'[l] = leaseState[l]
      /\ \A i \in Jobs : i # j => attempt'[i] = attempt[i] /\ job'[i] = job[i]
      /\ attempt'[j] = IF validateJobTransition(attempt[j], "QUEUED") THEN "QUEUED" ELSE attempt[j]
      /\ job'[j] = IF validateJobTransition(job[j], "QUEUED") THEN "QUEUED" ELSE job[j]
    BY <1>1, <1>3, OnwardParts DEF Sweep, ExpireLease, StoreInv, StoreTypeOK
<1>5. /\ attempt'[j] = "QUEUED" \/ (attempt[j] = "SUCCEEDED" /\ attempt'[j] = "SUCCEEDED" /\ job'[j] = "SUCCEEDED")
      /\ job'[j] = job[j] \/ (job'[j] = "QUEUED" /\ job[j] # "SUCCEEDED")
    BY <1>3, <1>4, SweepTable
<1>6. \A i \in Jobs : /\ job'[i] = "SUCCEEDED" <=> job[i] = "SUCCEEDED"
                      /\ job'[i] \in {"FAILED", "TIMED_OUT", "CANCELED"} =>
                            job[i] \in {"FAILED", "TIMED_OUT", "CANCELED"}
    BY <1>4, <1>5
<1>7. ASSUME NEW u \in Threads PROVE WorkFrame(u, th[u])'
    <2>1. PICK f : f = th[u]
        OBVIOUS
    <2>2. ASSUME u \in Mains, f.pc \in HeldPlaces
          PROVE  attempt'[JobOf(u)] = attempt[JobOf(u)] /\ job'[JobOf(u)] = job[JobOf(u)]
        <3>1. Live(LeaseOf(u)) /\ LeaseOf(u) \in Leases /\ u = Main(LeaseOf(u)) /\ JobOf(u) \in Jobs
            BY <2>1, <2>2, OnwardParts, MainParts DEF HeldPlaces, AckedPlaces, WorkerPlaces
        <3>2. LeaseOf(u) # m
            BY <1>3, <2>1, <2>2, <3>1 DEF HeldPlaces, AckedPlaces
        <3> QED
            BY <1>3, <1>4, <3>1, <3>2 DEF JobOf
    <2>3. ASSUME u \in Mains \union {Starter}, f.pc = "queueAttempt" PROVE attempt'[f.job] \in Unqueued
        <3>1. FrameOK(u, f) /\ WorkFrame(u, f)
            BY <2>1, OnwardParts, UnderwayParts
        <3>2. f.job \in Jobs /\ attempt[f.job] \in Unqueued
            BY <2>3, <3>1 DEF FrameOK, JobPlaces, QueuePlaces, WorkFrame, QueuerOK
        <3> QED
            BY <1>3, <1>4, <3>2
    <2>4. WorkFrame(u, f)'
        BY <2>1, <2>2, <2>3, FrameGoesOn
    <2> QED
        BY <1>2, <2>1, <2>4
<1>8. OpenOK'
    <2>1. Open' => Open
        BY <1>2 DEF Open
    <2> QED
        BY <2>1, RunOpens DEF OpenOK
<1>9. ASSUME NEW i \in Jobs PROVE JobOK(i)'
    <2>1. JobOK(i)
        BY OnwardParts DEF Underway, Work
    <2>2. ASSUME NEW d \in DependsOn[i], job'[i] \in Unqueued, job'[d] = "SUCCEEDED"
          PROVE  \E l \in Leases : OnItsWay(l, d, i)'
        <3>1. d \in Jobs /\ job[d] = "SUCCEEDED" /\ job[i] \in Unqueued
            BY <1>6, <2>2, MadeStays, PlanAssumption
        <3>2. PICK l \in Leases : OnItsWay(l, d, i)
            BY <2>1, <3>1 DEF JobOK
        <3> QED
            BY <1>2, <3>2 DEF OnItsWay
    <2>3. CASE i = j
        <3>1. job'[j] \in GoingStates /\ attempt'[j] \in GoingStates
            BY <1>3, <1>5, <2>1, <2>3, ShortSets DEF JobOK
        <3>2. job'[j] \notin Unqueued /\ attempt'[j] \notin Unqueued
            BY <1>3, MadeStays
        <3> QED
            BY <1>5, <2>2, <2>3, <3>1, <3>2 DEF JobOK
    <2>4. CASE i # j
        <3>1. attempt'[i] = attempt[i] /\ job'[i] = job[i]
            BY <1>4, <2>4
        <3>2. \A l \in Leases : Live(l) /\ leaseJob[l] = i => Live(l)' /\ leaseJob'[l] = i
            BY <1>1, <1>2, <1>4, <2>4 DEF Live
        <3> QED
            BY <1>2, <2>1, <2>2, <3>1, <3>2 DEF JobOK
    <2> QED
        BY <2>3, <2>4
<1>10. VerdictSeen'
    <2>1. VerdictSeen
        BY OnwardParts DEF Underway, Work
    <2> QED
        BY <1>2, <1>6, <2>1, VerdictNotNew DEF VerdictSeen
<1> QED
    BY <1>7, <1>8, <1>9, <1>10 DEF Work

(***************************************************************************)
(* The theorems.                                                           *)
(***************************************************************************)

\* The first of a set of jobs is in it, and none before it is.
LEMMA FirstOfLeast ==
    ASSUME NEW S, S \subseteq Jobs, S # {}
    PROVE  \E k \in 1 .. Len(Order) : /\ FirstOf(S) = Order[k] /\ Order[k] \in S
                                      /\ \A i \in 1 .. k - 1 : Order[i] \notin S
<1> DEFINE T == {i \in 1 .. Len(Order) : Order[i] \in S}
<1>1. T # {} /\ T \subseteq Nat
    BY PlanAssumption
<1>2. PICK i \in T : \A k \in T : ~ (k < i)
    BY <1>1, LeastIndex
<1>3. \A k \in 1 .. i - 1 : Order[k] \notin S
    BY <1>2
<1> QED
    BY <1>2, <1>3 DEF FirstOf

LEMMA WorkInit ==
    ASSUME RequiredInOrder, Init
    PROVE  WorkInv
<1>1. DeliveryInv /\ ResultInv
    BY DeliveryInit, ResultInit
<1>2. /\ run = Absent /\ \A j \in Jobs : job[j] = Absent /\ attempt[j] = Absent
      /\ \A t \in Threads : th[t] = NewFrame
    BY DEF Init, StoreInit
<1>3. ASSUME NEW t \in Threads PROVE WorkFrame(t, th[t])
    <2>1. th[t].pc = "idle" /\ th[t].run = Absent /\ th[t].attempt = Absent
        BY <1>2 DEF NewFrame
    <2>2. "idle" \in WorkerStart /\ "idle" \notin NotedPlaces \union StarterNoted
        BY DEF WorkerStart, NotedPlaces, BusyPlaces, ResultPlaces, ClosedPlaces, StarterNoted, QueuePlaces
    <2>3. HolderOK(LeaseOf(t), th[t])
        BY <2>1, <2>2 DEF HolderOK, NotedPlaces, BusyPlaces, ResultPlaces, UndeliverableRunStates, TerminalRunStates,
                          Absent
    <2>4. QueuerOK(th[t]) /\ StartOK(th[t])
        BY <2>1, <2>2 DEF QueuerOK, StartOK, StarterNoted, QueuePlaces
    <2> QED
        BY <2>1, <2>3, <2>4 DEF WorkFrame
<1>4. OpenOK
    BY <1>2 DEF OpenOK, Open, Absent
<1>5. ASSUME NEW j \in Jobs PROVE JobOK(j)
    <2>1. \A d \in DependsOn[j] : job[d] = Absent
        BY <1>2, PlanAssumption
    <2> QED
        BY <1>2, <2>1 DEF JobOK, GoingStates, Unqueued, Absent
<1>6. RunVerdict = Absent
    <2>1. PICK U : U = {j \in Required : job[j] # "SUCCEEDED"}
        OBVIOUS
    <2>2. U # {} /\ U \subseteq Jobs
        BY <1>2, <2>1, PlanAssumption DEF RequiredInOrder, Absent
    <2>3. job[FirstOf(U)] = Absent
        BY <1>2, <2>2, FirstOfRange
    <2> QED
        BY <2>1, <2>2, <2>3 DEF RunVerdict, Absent
<1> QED
    BY <1>1, <1>3, <1>4, <1>5, <1>6 DEF WorkInv, Work, VerdictSeen

\* Every step keeps it.
LEMMA WorkStep ==
    ASSUME ~SlowRunners, MaxAborts = 0, NoFanIn, WorkInv, [Next]_vars
    PROVE  WorkInv'
<1>1. DeliveryInv' /\ ResultInv'
    BY DeliveryStep, ResultStep DEF WorkInv
<1>2. ASSUME Going' PROVE Work'
    <2>1. SystemInv /\ ResultInv
        BY DEF WorkInv, ResultInv, TimelyInv
    <2>2. [StoreNext]_storeVars
        BY <2>1, SystemStep
    <2>3. Going
        BY <1>2, <2>2, GoingBefore
    <2>4. Onward
        BY <1>2, <2>2, <2>3 DEF Onward, Underway, WorkInv
    <2>5. CASE \E t \in Threads : Handler(t)
        BY <2>4, <2>5, HandlerKeepsWork
    <2>6. CASE /\ \/ \E l \in Leases : CommandEnds(l) \/ TickerFires(l) \/ RunnerCrashes(l)
                  \/ CancelRequested
               /\ UNCHANGED storeVars
        BY <2>4, <2>6, RunnerKeepsWork
    <2>7. CASE \/ \E l \in Leases : Sweep(l) \/ LeaseTimesOut(l)
               \/ \E j \in Jobs : VisibilityTimesOut(j)
               \/ UNCHANGED vars
        <3>1. CASE \E l \in Leases : Sweep(l)
            BY <2>4, <3>1, SweepWork
        <3>2. CASE \/ \E l \in Leases : LeaseTimesOut(l)
                   \/ \E j \in Jobs : VisibilityTimesOut(j)
                   \/ UNCHANGED vars
            <4>1. UNCHANGED <<run, job, attempt, leaseState, leaseJob, th>>
                BY <3>2 DEF LeaseTimesOut, LeaseFallsDue, VisibilityTimesOut, VisibilityLapses, vars, storeVars, leaseVars
            <4> QED
                BY <2>4, <4>1, TimePasses
        <3> QED
            BY <2>7, <3>1, <3>2
    <2> QED
        BY <2>1, <2>5, <2>6, <2>7, NextKinds
<1> QED
    BY <1>1, <1>2 DEF WorkInv

\* Where nothing is under way, every attempt is where a completion, or startRun,
\* left it.
LEMMA NothingUnderWay ==
    ASSUME Underway, Open, ~WorkRemains, NEW j \in Jobs
    PROVE  /\ job[j] \in Unqueued \/ job[j] \in {"SUCCEEDED", "FAILED"}
           /\ \A l \in Leases : th[Main(l)].pc \notin VerdictAhead
           /\ \A d \in Jobs, l \in Leases : ~OnItsWay(l, d, j)
<1>1. /\ \A t \in Threads : th[t].pc \in {"idle", "gone", "off", "done", "dequeue"}
      /\ \A l \in Leases : ~Live(l)
      /\ \A i \in Jobs : Deliverable(i) => queue[i] = "none"
    BY DEF WorkRemains, Open, RestingPlaces
<1>2. \A l \in Leases : Main(l) \in Threads /\ th[Main(l)].pc \in {"idle", "gone", "off", "done", "dequeue"}
    BY <1>1, ThreadKinds DEF Threads
<1>3. \A l \in Leases : th[Main(l)].pc \notin VerdictAhead /\ \A d \in Jobs : ~OnItsWay(l, d, j)
    BY <1>2 DEF OnItsWay, VerdictAhead, LoopPlaces, QueuePlaces
<1>4. attempt[j] # "QUEUED"
    <2> SUFFICES ASSUME attempt[j] = "QUEUED" PROVE FALSE
        OBVIOUS
    <2>1. Deliverable(j)
        BY DEF Deliverable, Open, UndeliverableRunStates, TerminalRunStates
    <2>2. Delivered(j)
        BY <2>1 DEF Underway, DeliveryInv, AlwaysDelivered
    <2>3. queue[j] = "none" /\ \A l \in Leases : ~Returnable(l, j)
        BY <1>1, <2>1 DEF Returnable
    <2>4. \A t \in Threads : ~At(t, "enqueue")
        BY <1>1 DEF At
    <2> QED
        BY <2>2, <2>3, <2>4 DEF Delivered
<1>5. JobOK(j)
    BY DEF Underway, Work
<1>6. CASE attempt[j] \in Unqueued
    <2>1. \A t \in Mains \union {Starter} : th[t].pc # "queueAttempt"
        BY <1>1 DEF Threads
    <2> QED
        BY <1>3, <1>5, <1>6, <2>1 DEF JobOK
<1>7. CASE attempt[j] \notin Unqueued
    <2>1. attempt[j] \notin {"LEASED", "STARTING", "RUNNING", "UPLOADING"}
        BY <1>1, <1>2, <1>5 DEF JobOK
    <2>2. attempt[j] \in {"SUCCEEDED", "FAILED"}
        BY <1>4, <1>5, <1>7, <2>1 DEF JobOK, GoingStates, Unqueued
    <2>3. job[j] = attempt[j]
        BY <1>2, <1>5, <2>2 DEF JobOK
    <2> QED
        BY <1>3, <2>2, <2>3
<1> QED
    BY <1>6, <1>7

LEMMA SomethingIsLeft ==
    ASSUME RequiredInOrder, Underway
    PROVE  WorkRemains
<1> SUFFICES ASSUME Open, ~WorkRemains PROVE FALSE
    BY DEF WorkRemains, Open
<1>1. PICK U : U = {j \in Required : job[j] # "SUCCEEDED"}
    OBVIOUS
<1>2. U \subseteq Jobs /\ Jobs # {}
    BY <1>1, PlanAssumption
<1>3. RunVerdict = Absent
    BY <1>2, NothingUnderWay DEF Underway, Work, VerdictSeen
<1>4. U # {} /\ job[FirstOf(U)] \notin {"FAILED", "TIMED_OUT", "CANCELED"}
    BY <1>1, <1>3 DEF RunVerdict, Absent
<1>5. PICK k \in 1 .. Len(Order) : /\ FirstOf(U) = Order[k] /\ Order[k] \in U
                                   /\ \A i \in 1 .. k - 1 : Order[i] \notin U
    BY <1>2, <1>4, FirstOfLeast
<1>6. Order[k] \in Jobs /\ Order[k] \in Required /\ job[Order[k]] \in Unqueued
    BY <1>1, <1>2, <1>4, <1>5, NothingUnderWay
<1>7. \A d \in DependsOn[Order[k]] : d \in Jobs /\ job[d] = "SUCCEEDED"
    BY <1>1, <1>5, <1>6, PlanAssumption DEF RequiredInOrder
<1>8. DependsOn[Order[k]] # {}
    BY <1>6 DEF Underway, Work, OpenOK, Roots
<1>9. PICK d \in DependsOn[Order[k]] : TRUE
    BY <1>8
<1>10. \E l \in Leases : OnItsWay(l, d, Order[k])
    BY <1>6, <1>7, <1>9 DEF Underway, Work, JobOK
<1> QED
    BY <1>6, <1>7, <1>9, <1>10, NothingUnderWay

\* Each row of a run that goes on says who writes it next, and each dependent
\* that waits, and the verdict, is in the hands of a completion.
THEOREM WorkInvariant ==
    ASSUME ~SlowRunners, MaxAborts = 0, NoFanIn, RequiredInOrder
    PROVE  Spec => []WorkInv
<1>1. Init => WorkInv
    BY WorkInit
<1>2. WorkInv /\ [Next]_vars => WorkInv'
    BY WorkStep
<1> QED
    BY <1>1, <1>2, PTL DEF Spec

\* A run that is not over always has something left that will move it: whatever
\* the runners' deaths, the sweeps and the cancellations, a completion never ends
\* without having queued the jobs it releases, or given the verdict.
THEOREM WorkAlwaysRemains ==
    ASSUME ~SlowRunners, MaxAborts = 0, NoFanIn, RequiredInOrder
    PROVE  Spec => []WorkRemains
<1>1. WorkInv => WorkRemains
    <2>1. ASSUME WorkInv, Open PROVE WorkRemains
        BY <2>1, SomethingIsLeft DEF WorkInv, Underway, Open, Going
    <2> QED
        BY <2>1 DEF WorkRemains, Open
<1> QED
    BY <1>1, WorkInvariant, PTL
=============================================================================
