------------------------------ MODULE Threads ------------------------------
(***************************************************************************)
(* The threads of the orchestrator and of its clients, and the procedures  *)
(* of orchestrator/service.go that several of them share.                  *)
(*                                                                         *)
(* A thread runs one request handler at a time, one database transaction   *)
(* (or one read) per step, and other threads run between its steps.  What  *)
(* it keeps in local variables across steps is its frame: a value read     *)
(* early and used late is stale exactly when the code's is.                *)
(*                                                                         *)
(*   <<l, "main">>         the worker that obtains lease l, then the       *)
(*                         runner it starts: ack, first heartbeat, command,*)
(*                         and the final Complete or CancelAck             *)
(*   <<l, "tick">>         the heartbeat goroutine of that runner          *)
(*   <<NoLease, "start">>  the request that creates and starts the run     *)
(*   <<NoLease, "cancel">> a client that asks for cancellation             *)
(***************************************************************************)
EXTENDS Store, Naturals, Sequences

CONSTANTS
    Order,      \* the planned jobs, in plan order (ListJobsByRun keeps it)
    Required,   \* the jobs whose result decides the run
    DependsOn   \* for each job, the planned jobs it waits for

ASSUME PlanAssumption ==
    /\ \A i, k \in 1 .. Len(Order) : Order[i] = Order[k] => i = k
    /\ Jobs = {Order[i] : i \in 1 .. Len(Order)}
    /\ Jobs # {}
    /\ Required \subseteq Jobs
    /\ DependsOn \in [Jobs -> SUBSET Jobs]
    /\ \A j \in Jobs : j \notin DependsOn[j]

VARIABLES
    th,         \* the frame of every thread
    sig         \* cancelSignal of the runner of each lease has been closed

Main(l)  == <<l, "main">>
Tick(l)  == <<l, "tick">>
Mains    == {Main(l) : l \in Leases}
Ticks    == {Tick(l) : l \in Leases}
Starter  == <<NoLease, "start">>
Canceler == <<NoLease, "cancel">>
Threads  == Mains \union Ticks \union {Starter, Canceler}

LeaseOf(t) == t[1]
JobOf(t)   == leaseJob[LeaseOf(t)]

\* job: the job in hand; attempt, run: states read earlier in this request;
\* todo: jobs a loop has still to visit; queued: those CancelRun's job list
\* showed as QUEUED; status: the result to write; cancel: the answer the
\* heartbeat will give.
NewFrame == [pc |-> "idle", job |-> NoJob, attempt |-> Absent, run |-> Absent,
             todo |-> {}, queued |-> {}, status |-> Absent, cancel |-> FALSE]

\* Places where the thread is not inside a request.
RestingPlaces == {"idle", "exec", "granted", "gone", "off", "done"}

At(t, place) == th[t].pc = place
Goto(t, place) == th' = [th EXCEPT ![t].pc = place]
GotoWith(t, frame) == th' = [th EXCEPT ![t] = frame]
Finish(t, place) == GotoWith(t, [NewFrame EXCEPT !.pc = place])

\* The request returned no error, or one its caller only logs.
Returns(t) ==
    /\ Finish(t, IF t \in Mains THEN "gone" ELSE IF t = Canceler THEN "idle" ELSE "done")
    /\ UNCHANGED sig

\* The request returned an error or its answer never came.  A worker that has
\* no lease yet exits, and it or another one polls again; a runner exits; the
\* heartbeat goroutine signals cancellation and stops.
Fails(t) ==
    /\ Finish(t, CASE t \in Mains -> IF leaseState[LeaseOf(t)] = Absent THEN "idle" ELSE "gone"
                   [] t \in Ticks -> "off"
                   [] t = Canceler -> "idle"
                   [] OTHER -> "done")
    /\ sig' = IF t \in Ticks THEN [sig EXCEPT ![LeaseOf(t)] = TRUE] ELSE sig

-----------------------------------------------------------------------------
(* One transition of the store: on to `place', or out with its error *)

TryRun(t, next, place) ==
    \/ TransitionRunState(next) /\ Goto(t, place) /\ UNCHANGED sig
    \/ /\ ~validateRunTransition(run, next)
       /\ Fails(t) /\ UNCHANGED storeVars

TryAttempt(t, j, next, place) ==
    \/ TransitionJobAttemptState(j, next) /\ Goto(t, place) /\ UNCHANGED sig
    \/ /\ ~validateJobTransition(attempt[j], next)
       /\ Fails(t) /\ UNCHANGED storeVars

TryJob(t, j, next, place) ==
    \/ TransitionJobState(j, next) /\ Goto(t, place) /\ UNCHANGED sig
    \/ /\ ~validateJobTransition(job[j], next)
       /\ Fails(t) /\ UNCHANGED storeVars

\* Seeded fault: the job is written before its attempt.
JobBeforeAttempt(t, j, next, places) ==
    \/ At(t, places[1]) /\ TryJob(t, j, next, places[2])
    \/ At(t, places[2]) /\ TryAttempt(t, j, next, places[3])

\* transitionJobAndAttempt: the attempt in one transaction, then the job in
\* another.  It starts at places[1], writes the job at places[2] and leaves for
\* places[3].
transitionJobAndAttempt(t, j, next, places) ==
    \/ At(t, places[1]) /\ TryAttempt(t, j, next, places[2])
    \/ At(t, places[2]) /\ TryJob(t, j, next, places[3])

\* Seeded fault: the reporter marks the run REPORTED with a bare UPDATE.
ReportUnchecked(t, place) ==
    /\ \/ /\ run # Absent /\ run' = "REPORTED"
          /\ UNCHANGED <<job, attempt, leaseVars, queue, deps>>
       \/ UNCHANGED storeVars
    /\ IF place = "return" THEN Returns(t) ELSE Goto(t, place) /\ UNCHANGED sig

\* reportRun: the reporter may be off, or fail, or find the run finished and
\* mark it REPORTED once the result is published (external: the VCS provider).
reportRun(t, place) ==
    /\ \/ /\ run \in TerminalRunStates \ {"REPORTED"}
          /\ TransitionRunState("REPORTED")
       \/ UNCHANGED storeVars
    /\ IF place = "return" THEN Returns(t) ELSE Goto(t, place) /\ UNCHANGED sig

-----------------------------------------------------------------------------
\* The first job of the set in plan order.
FirstOf(S) == Order[CHOOSE i \in 1 .. Len(Order) :
                      Order[i] \in S /\ \A k \in 1 .. i - 1 : Order[k] \notin S]

\* The frame that takes up the next job of todo at place p, or leaves the loop
\* for place q when there is none.
NextJob(t, p, q) ==
    IF th[t].todo = {}
    THEN [NewFrame EXCEPT !.pc = q]
    ELSE [th[t] EXCEPT !.pc = p, !.job = FirstOf(th[t].todo), !.todo = @ \ {FirstOf(th[t].todo)}]

-----------------------------------------------------------------------------
(* finalizeRunIfReady *)

\* Seeded fault: a required job that is still at work is passed over.
VerdictIgnoringUnfinished ==
    IF \E j \in Required : job[j] \in {"FAILED", "TIMED_OUT", "CANCELED"} THEN "FAILED" ELSE "SUCCESS"

\* Seeded fault: every required job that has not succeeded counts as failed.
VerdictWithoutWaiting ==
    IF \A j \in Required : job[j] = "SUCCEEDED" THEN "SUCCESS" ELSE "FAILED"

\* The loop over the required jobs in list order: it stops at the first one
\* that has not succeeded.
RunVerdict ==
    LET Unfinished == {j \in Required : job[j] # "SUCCEEDED"}
    IN  CASE Unfinished = {} -> "SUCCESS"
          [] Unfinished # {} /\ job[FirstOf(Unfinished)] \in {"FAILED", "TIMED_OUT", "CANCELED"} -> "FAILED"
          [] OTHER -> Absent

finalizeRunIfReady(t) ==
    \/ /\ At(t, "finRead")
       /\ IF run = "RUNNING" THEN Goto(t, "finList") /\ UNCHANGED sig ELSE Returns(t)
       /\ UNCHANGED storeVars
    \/ /\ At(t, "finList")
       /\ IF RunVerdict = Absent
          THEN Returns(t)
          ELSE GotoWith(t, [th[t] EXCEPT !.pc = "finWrite", !.status = RunVerdict]) /\ UNCHANGED sig
       /\ UNCHANGED storeVars
    \/ /\ At(t, "finWrite")
       /\ \/ TransitionRunState(th[t].status) /\ Goto(t, "finReport") /\ UNCHANGED sig
          \/ ~validateRunTransition(run, th[t].status) /\ UNCHANGED storeVars /\ Returns(t)

(* finalizeCancelIfReady *)

\* Seeded fault: jobs that still owe their acknowledgement are not waited for.
PendingWithoutRequested == \E j \in Jobs : job[j] \in {"QUEUED", "LEASED", "STARTING", "RUNNING"}

CancelPending == \E j \in Jobs :
    job[j] \in {"QUEUED", "LEASED", "STARTING", "RUNNING", "CANCEL_REQUESTED"}

finalizeCancelIfReady(t) ==
    \/ /\ At(t, "finCancelRead")
       /\ IF run = "CANCEL_REQUESTED" THEN Goto(t, "finCancelList") /\ UNCHANGED sig ELSE Returns(t)
       /\ UNCHANGED storeVars
    \/ /\ At(t, "finCancelList")
       /\ IF CancelPending THEN Returns(t) ELSE Goto(t, "finCancelWrite") /\ UNCHANGED sig
       /\ UNCHANGED storeVars
    \/ /\ At(t, "finCancelWrite")
       /\ \/ TransitionRunState("CANCELED") /\ Goto(t, "finReport") /\ UNCHANGED sig
          \/ ~validateRunTransition(run, "CANCELED") /\ UNCHANGED storeVars /\ Returns(t)

\* Both end by reporting the state they wrote.
ReportVerdict(t) == At(t, "finReport") /\ reportRun(t, "return")
=============================================================================
