------------------------------- MODULE Intake -------------------------------
(***************************************************************************)
(* The intake: GitHub webhooks and rerun requests, delivered any number of *)
(* times and handled concurrently (orchestrator/http.go), each key bound   *)
(* to one run by a unique index (state/run_triggers.go, run_reruns.go),    *)
(* and each new run planned by the diff-aware planner while the checkout   *)
(* and the recipes may change (CreateRunFromTrigger, RerunRun, startRun).  *)
(*                                                                         *)
(* A handler takes one request, one transaction, read or planning step at  *)
(* a time.  Dispatch, cancellation and reports are in DeltaCI and Reporter.*)
(***************************************************************************)
EXTENDS Recipes

CONSTANTS
    Handlers,       \* the requests that will be made
    Requests,       \* the events GitHub may deliver (see TriggersRun)
    IdempotencyKeys,\* the Idempotency-Key headers of reruns
    Scenarios,      \* initial checkout, what it may become, changed paths of
                    \* every commit, events that happen, bounds (see Init)
    QuietCheckout   \* whether the checkout stays as it is while a plan is made

\* The ref of a pull request is made from its number (normalizePullRequest).
ASSUME IntakeAssumption ==
    /\ QuietCheckout \in BOOLEAN
    /\ IsFiniteSet(Handlers)
    /\ \A q \in Requests :
          /\ q.event \in {"push", "pull_request"}
          /\ q.event = "pull_request" => q.ref = <<"pull", q.ref[2]>>
    /\ \A s \in Scenarios :
          /\ s.events \subseteq Requests /\ s.deliveries \in Nat /\ s.faults \in Nat
          /\ \A tree \in {s.tree} \union s.upcoming : IsCheckout(tree)
          /\ \A q \in s.events : q.sha \in DOMAIN s.commits
          /\ \A sha \in DOMAIN s.commits : \A p \in s.commits[sha] : IsSequence(p)

VARIABLES
    th,             \* the frame of every handler
    bound,          \* run_triggers and run_reruns: the pairs <<key, run>>
    checkout,       \* the build files of the working tree
    commits,        \* git: the changed paths of a commit; none: git show fails
    upcoming,       \* bound: the checkouts still to come
    events,         \* bound: the events that happen, of all Requests
    deliveries,     \* bound: how many requests are still made
    workers         \* bound: whether queued runs are executed

envVars == <<commits, events, workers>>
vars == <<recipeVars, th, bound, checkout, envVars, upcoming, deliveries>>

Idle == [pc |-> "idle", req |-> [event |-> "none", action |-> "none", sha |-> "none", ref |-> <<"none", 0>>],
         key |-> <<"none", 0, "none">>, run |-> 0, tree |-> {}, fp |-> {}, plan |-> {}]

Init ==
    /\ RecipesInit
    /\ th = [h \in Handlers |-> Idle]
    /\ bound = {}
    /\ \E s \in Scenarios :
          /\ checkout = s.tree /\ upcoming = s.upcoming /\ commits = s.commits /\ events = s.events
          /\ deliveries = s.deliveries /\ faults = s.faults /\ workers = s.workers

At(h, place) == th[h].pc = place
Goto(h, place) == th' = [th EXCEPT ![h].pc = place]
GotoWith(h, frame) == th' = [th EXCEPT ![h] = frame]

\* Places where a handler may be cut off; its run exists from "start" on.
Starting == {"start", "discover", "fingerprint", "lookup", "record", "create", "queue"}
Working  == Starting \union {"insert", "duplicate"}

-----------------------------------------------------------------------------
(* Webhooks.  A ref is <<"heads", n>> or <<"pull", n>>. *)

isSupportedPRAction(action) == action \in {"opened", "synchronize", "reopened"}

\* NormalizeEvent: whether the event asks for a run.
TriggersRun(q) ==
    \/ q.event = "push" /\ q.action # "deleted"
    \/ q.event = "pull_request" /\ isSupportedPRAction(q.action)

\* Seeded fault: the number of the pull request is left out.
EventKeyWithoutPR(q) == <<q.event, 0, q.sha>>

\* The pull request number is part of the key, the ref of a push is not.
ComputeEventKey(q) == <<q.event, IF q.ref[1] = "pull" THEN q.ref[2] ELSE 0, q.sha>>

Webhook(h, q) ==
    /\ At(h, "idle") /\ deliveries > 0
    /\ GotoWith(h, IF TriggersRun(q)
                   THEN [Idle EXCEPT !.pc = "insert", !.req = q, !.key = ComputeEventKey(q)]
                   ELSE [Idle EXCEPT !.pc = "ignored", !.req = q])
    /\ deliveries' = deliveries - 1
    /\ UNCHANGED <<recipeVars, bound, checkout, upcoming, envVars>>

RerunKey(r, k) == <<"rerun", r, k>>

\* A rerun of an existing run asks for its commit once more.
Rerun(h, r, k) ==
    /\ At(h, "idle") /\ deliveries > 0
    /\ GotoWith(h, [Idle EXCEPT !.pc = "insert", !.key = RerunKey(r, k),
                    !.req = [event |-> "rerun", action |-> "none", sha |-> runs[r].sha, ref |-> runs[r].ref]])
    /\ deliveries' = deliveries - 1
    /\ UNCHANGED <<recipeVars, bound, checkout, upcoming, envVars>>

\* Seeded fault: the key is inserted in a second transaction.
InsertRunFirst(h) ==
    /\ At(h, "insert")
    /\ runs' = Append(runs, newRun(th[h].req.sha, th[h].req.ref))
    /\ IF \E b \in bound : b[1] = th[h].key
       THEN Goto(h, "duplicate") /\ UNCHANGED bound
       ELSE /\ bound' = bound \union {<<th[h].key, Len(runs) + 1>>}
            /\ GotoWith(h, [th[h] EXCEPT !.pc = "start", !.run = Len(runs) + 1])
    /\ UNCHANGED <<recipes, fin, faults, checkout, upcoming, deliveries, envVars>>

\* CreateRunWithTrigger and CreateRunWithRerun: run and key in one transaction,
\* which the unique index rolls back when the key is taken.
InsertRun(h) ==
    /\ At(h, "insert")
    /\ \/ /\ \A b \in bound : b[1] # th[h].key
          /\ runs' = Append(runs, newRun(th[h].req.sha, th[h].req.ref))
          /\ bound' = bound \union {<<th[h].key, Len(runs) + 1>>}
          /\ GotoWith(h, [th[h] EXCEPT !.pc = "start", !.run = Len(runs) + 1])
       \/ /\ \E b \in bound : b[1] = th[h].key
          /\ Goto(h, "duplicate")
          /\ UNCHANGED <<runs, bound>>
    /\ UNCHANGED <<recipes, fin, faults, checkout, upcoming, deliveries, envVars>>

\* A duplicate is answered with the run the key is bound to, in whatever state
\* it is (getRunByTriggerKey, getRerunByKey).
AnswerDuplicate(h) ==
    /\ At(h, "duplicate")
    /\ \E b \in bound : b[1] = th[h].key /\ GotoWith(h, [th[h] EXCEPT !.pc = "answered", !.run = b[2]])
    /\ UNCHANGED <<recipeVars, bound, checkout, upcoming, deliveries, envVars>>

-----------------------------------------------------------------------------
(* startRun, with the steps of DiffPlanner.Plan *)

\* The run's next state, or the end of the request with a transition error.
Enter(h, next, place) ==
    /\ IF validateRunTransition(runs[th[h].run].state, next)
       THEN TransitionRunState(th[h].run, next) /\ Goto(h, place)
       ELSE Goto(h, "failed") /\ UNCHANGED runs
    /\ UNCHANGED <<recipes, fin, faults, bound, checkout, upcoming, deliveries, envVars>>

StartPlanning(h) == At(h, "start") /\ Enter(h, "PLANNING", "discover")

Discover(h) ==
    /\ At(h, "discover")
    /\ GotoWith(h, [th[h] EXCEPT !.pc = "fingerprint", !.tree = {checkout}])
    /\ UNCHANGED <<recipeVars, bound, checkout, upcoming, deliveries, envVars>>

\* The fingerprint walks the checkout a second time.
Fingerprint(h) ==
    /\ At(h, "fingerprint")
    /\ GotoWith(h, [th[h] EXCEPT !.pc = "lookup", !.fp = computeRepoFingerprint(checkout)])
    /\ UNCHANGED <<recipeVars, bound, checkout, upcoming, deliveries, envVars>>

\* The paths of the commit alone, whatever else the push or the pull request
\* holds; none when git fails.
gitChangedFiles(sha) == commits[sha]

\* A lookup that fails is noted and planning goes on without a recipe.
Decide(h) ==
    /\ At(h, "lookup")
    /\ \E tree \in th[h].tree :
          LET asked == looksForRecipe(tree, th[h].fp)
              decided(found) ==
                  GotoWith(h, [th[h] EXCEPT !.pc = "record",
                                   !.plan = {Plan(tree, th[h].fp, found, gitChangedFiles(th[h].req.sha))}])
          IN  \/ decided(IF asked THEN FindRecipeByFingerprint(th[h].fp) ELSE {}) /\ UNCHANGED faults
              \/ asked /\ faults > 0 /\ decided({}) /\ faults' = faults - 1
    /\ UNCHANGED <<runs, recipes, fin, bound, checkout, upcoming, deliveries, envVars>>

\* recordRunPlan; an error is only logged.
RecordPlan(h) ==
    /\ At(h, "record")
    /\ \E plan \in th[h].plan :
          \/ /\ RecordRunPlan(th[h].run, [source |-> plan.source, fp |-> plan.fp,
                                          recipe |-> plan.recipe, skipped |-> plan.skipped])
             /\ UNCHANGED faults
          \/ faults > 0 /\ faults' = faults - 1 /\ UNCHANGED runs
    /\ Goto(h, "create")
    /\ UNCHANGED <<recipes, fin, bound, checkout, upcoming, deliveries, envVars>>

\* Job names are unique and every dependency is a job of the plan.
Creatable(jobs) ==
    /\ \A i, j \in jobs : i.name = j.name => i = j
    /\ \A i \in jobs : i.deps \subseteq {j.name : j \in jobs} \ {i.name}

\* The jobs are inserted one by one; an ill-formed plan ends the request after
\* some of them, with the run left as it is.
CreateJobs(h) ==
    /\ At(h, "create")
    /\ \E plan \in th[h].plan :
          IF Creatable(plan.jobs)
          THEN /\ runs' = [runs EXCEPT ![th[h].run].jobs = plan.jobs]
               /\ GotoWith(h, [th[h] EXCEPT !.pc = "queue", !.tree = {}, !.fp = {}, !.plan = {}])
          ELSE /\ \E made \in SUBSET plan.jobs : runs' = [runs EXCEPT ![th[h].run].jobs = made]
               /\ Goto(h, "failed")
    /\ UNCHANGED <<recipes, fin, faults, bound, checkout, upcoming, deliveries, envVars>>

QueueRun(h) == At(h, "queue") /\ Enter(h, "QUEUED", "answered")

-----------------------------------------------------------------------------
(* The world around the handlers *)

\* The client disconnects, the database fails, or the orchestrator restarts.
CutOff(h) ==
    /\ th[h].pc \in Working /\ faults > 0
    /\ Goto(h, "cut")
    /\ faults' = faults - 1
    /\ UNCHANGED <<runs, recipes, fin, bound, checkout, upcoming, deliveries, envVars>>

MoveCheckout(tree) ==
    /\ tree \in upcoming
    /\ QuietCheckout => \A h \in Handlers : ~At(h, "fingerprint")
    /\ checkout' = tree /\ upcoming' = upcoming \ {tree}
    /\ UNCHANGED <<recipeVars, th, bound, deliveries, envVars>>

Execution ==
    /\ \/ \E r \in DOMAIN runs, ok \in BOOLEAN : workers /\ RunExecutes(r, ok)
       \/ \E r \in DOMAIN runs : RunIsCanceled(r)
       \/ \E f \in Finalizers : FinalizeSteps(f)
    /\ UNCHANGED <<th, bound, checkout, upcoming, deliveries, envVars>>

Next ==
    \/ \E h \in Handlers, q \in events : Webhook(h, q)
    \/ \E h \in Handlers, r \in DOMAIN runs, k \in IdempotencyKeys : Rerun(h, r, k)
    \/ \E h \in Handlers :
          \/ InsertRun(h) \/ AnswerDuplicate(h)
          \/ StartPlanning(h) \/ Discover(h) \/ Fingerprint(h) \/ Decide(h)
          \/ RecordPlan(h) \/ CreateJobs(h) \/ QueueRun(h)
          \/ CutOff(h)
    \/ \E tree \in upcoming : MoveCheckout(tree)
    \/ Execution

Spec == Init /\ [][Next]_vars

-----------------------------------------------------------------------------
(* Type correctness *)

Keys ==
    {ComputeEventKey(q) : q \in Requests} \union
    {RerunKey(r, k) : r \in 1 .. Cardinality(Handlers), k \in IdempotencyKeys}

Sources == {"config", "recipe", "discovery", "fallback"}

Places == Working \union {"idle", "ignored", "answered", "cut", "failed"}

\* The rows and the frames refer to rows that exist: a plan row to its recipe, a
\* key to its run, a handler to the run it created or was answered with
\* (the foreign keys of migrations 0005, 0007 and 0010).
IntakeTypeOK ==
    /\ \A r \in DOMAIN runs :
          /\ runs[r].state \in RunStates
          /\ \A row \in runs[r].plan : row.source \in Sources /\ row.recipe \subseteq DOMAIN recipes
    /\ bound \subseteq Keys \X DOMAIN runs
    /\ \A h \in Handlers : th[h].pc \in Places /\ th[h].run \in 0 .. Len(runs)
    /\ \A i \in DOMAIN recipes : recipes[i].fp # {}
    /\ \A f \in Finalizers : fin[f].run \in 0 .. Len(runs) /\ fin[f].recipe \subseteq DOMAIN recipes
    /\ faults \in Nat /\ deliveries \in Nat

-----------------------------------------------------------------------------
(* Safety of the intake *)

Answered == {h \in Handlers : At(h, "answered")}

I == INSTANCE Idempotency
        WITH created <- Len(runs), binding <- bound,
             answers <- {<<th[h].key, th[h].run>> : h \in Answered}

\* However often and however concurrently a request is delivered, one run is
\* created for its key and every answer names it (CreateRunWithTrigger,
\* CreateRunWithRerun).
ImplementsIdempotency == I!IInit /\ [][I!INext]_I!IVars

\* Sharing a run is sound: it builds the commit the request was about, for the
\* pull request it was about, and a rerun is not answered with the run it
\* reruns (ComputeEventKey).
AnswerFitsRequest ==
    \A h \in Answered :
        LET r == th[h].run
        IN  /\ runs[r].sha = th[h].req.sha
            /\ th[h].req.event = "pull_request" => runs[r].ref = th[h].req.ref
            /\ th[h].req.event = "rerun" => r # th[h].key[2]

\* A run that has not been queued has its handler at work: the planner's plans
\* never make startRun give up half way, only a cut-off request strands a run
\* (startRun).
NobodyIsStranded ==
    \A r \in DOMAIN runs :
        runs[r].state \in {"CREATED", "PLANNING"} =>
            \E h \in Handlers : th[h].run = r /\ th[h].pc \in Starting \union {"cut"}

-----------------------------------------------------------------------------
(* Safety of the plans *)

\* Every checkout there ever is.
Trees == UNION {{s.tree} \union s.upcoming : s \in Scenarios}

ModulesAreApart == \A tree \in Trees : ModulesApart(tree)

\* The plan h has just made, the checkout and the changed paths it is for.
Planned(h, sources) ==
    {<<p, t, gitChangedFiles(th[h].req.sha)>> :
        p \in {p \in th[h].plan : At(h, "record") /\ p.source \in sources}, t \in th[h].tree}

Covers(jobs, dir, base) == \E j \in jobs : j.dir = dir /\ j.base = base /\ j.required

\* Whatever the change may break is built, and tested unless it is docs only;
\* when ownership or dependencies are not fully known, every module is
\* (analyzeImpact, planForGo).
ImpactIsTested ==
    \A h \in Handlers : \A made \in Planned(h, {"discovery"}) :
        LET tree == made[2]  paths == made[3]
        IN  \A d \in IF ImpactKnown(tree, paths) THEN Affected(tree, paths) ELSE Boundaries(tree) :
                /\ Covers(made[1].jobs, d, "build")
                /\ (\E p \in paths : ~isDocsPath(p)) => Covers(made[1].jobs, d, "test")

\* When everything is known, nothing else is built (ownerForPath,
\* resolveImpactedProjects).
NothingNeedless ==
    \A h \in Handlers : \A made \in Planned(h, {"discovery"}) :
        ImpactKnown(made[2], made[3]) =>
            \A j \in made[1].jobs : j.dir \in Affected(made[2], made[3])

\* A recipe made on an older checkout is used only where its directories are
\* still modules, or there are none and it builds the root: the fingerprint
\* changes whenever a boundary does (computeRepoFingerprint, planFromRecipe).
RecipeFitsCheckout ==
    \A h \in Handlers : \A made \in Planned(h, {"recipe"}) :
        \A j \in made[1].jobs :
            IF Boundaries(made[2]) = {} THEN j.dir = <<>> ELSE j.dir \in Boundaries(made[2])

\* A commit that changes code has some required test job (refuted by the run
\* recipe_narrow: a recipe keeps the jobs of the run that made it).
CodeChangeIsTested ==
    \A h \in Handlers : \A made \in Planned(h, Sources) :
        (\E p \in made[3] : isCodePath(p) /\ ~isDocsPath(p)) =>
            \E j \in made[1].jobs : j.base = "test" /\ j.required
=============================================================================
