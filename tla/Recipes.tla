------------------------------ MODULE Recipes ------------------------------
(***************************************************************************)
(* Recipes: what state/recipes.go stores of plans, and how the request     *)
(* that finds a run finished turns the jobs of a successful run into the   *)
(* recipe of its fingerprint (finalizeRunIfReady, persistRecipeIfNeeded).  *)
(*                                                                         *)
(* The rows of one run in runs, jobs and run_plans are one record.  All    *)
(* runs are of one repository.  Two requests may finalize the same run at  *)
(* once, one database statement per step; the jobs, their leases and the   *)
(* cancellation, which DeltaCI models, appear here by their outcome.       *)
(***************************************************************************)
EXTENDS Planner, StateMachines

CONSTANT Finalizers     \* requests that may complete a run, one at a time each

VARIABLES
    runs,       \* the rows of each run; a run's id is its position
    recipes,    \* the rows of recipes; a recipe's id is its position
    fin,        \* the frame of every finalizer
    faults      \* bound: the errors and lost connections still to come

recipeVars == <<runs, recipes, fin, faults>>

\* green: every required job has SUCCEEDED.
newRun(sha, ref) ==
    [state |-> "CREATED", sha |-> sha, ref |-> ref, green |-> FALSE, jobs |-> {}, plan |-> {}]

Resting == [pc |-> "idle", run |-> 0, row |-> {}, recipe |-> {}]

RecipesInit ==
    /\ runs = <<>> /\ recipes = <<>>
    /\ fin = [f \in Finalizers |-> Resting]

TransitionRunState(r, next) ==
    /\ validateRunTransition(runs[r].state, next)
    /\ runs' = [runs EXCEPT ![r].state = next]

\* The plan row replaces the one the run had, if any.
RecordRunPlan(r, row) == runs' = [runs EXCEPT ![r].plan = {row}]

\* The newest recipe of the fingerprint, all of them being version 1.
FindRecipeByFingerprint(fp) ==
    LET Of == {i \in DOMAIN recipes : recipes[i].fp = fp}
    IN  {[id |-> i, jobs |-> recipes[i].jobs] : i \in {k \in Of : \A n \in Of : n <= k}}

GetRunPlan(r) == runs[r].plan

\* Name, required flag, spec and dependency names of every job, read back from
\* the rows of the run; only the reason is left behind.
buildRecipeJobs(r) == runs[r].jobs

\* Seeded fault: no unique index on the fingerprint.
AlwaysFree(fp) == TRUE

\* The unique index on (repo_id, fingerprint, version).
recipes_repo_fingerprint_version_idx(fp) == \A i \in DOMAIN recipes : recipes[i].fp # fp

\* The jobs become version 1, unless the fingerprint has one (ON CONFLICT DO NOTHING).
CreateRecipe(fp, jobs) ==
    /\ recipes_repo_fingerprint_version_idx(fp)
    /\ recipes' = Append(recipes, [fp |-> fp, jobs |-> jobs])

-----------------------------------------------------------------------------
(* The life of a queued run, seen from here *)

RunExecutes(r, ok) ==
    /\ runs[r].state = "QUEUED"
    /\ runs' = [runs EXCEPT ![r].state = "RUNNING", ![r].green = ok]
    /\ UNCHANGED <<recipes, fin, faults>>

RunIsCanceled(r) ==
    /\ runs[r].state = "RUNNING"
    /\ TransitionRunState(r, "CANCEL_REQUESTED")
    /\ UNCHANGED <<recipes, fin, faults>>

-----------------------------------------------------------------------------
(* finalizeRunIfReady and persistRecipeIfNeeded *)

Moves(f, frame) == fin' = [fin EXCEPT ![f] = frame]

\* The run is read, then its jobs; the verdict is reached on what was read.
Finalize_Read(f, r) ==
    /\ fin[f].pc = "idle"
    /\ runs[r].state = "RUNNING"
    /\ Moves(f, [Resting EXCEPT !.pc = "verdict", !.run = r])
    /\ UNCHANGED <<runs, recipes, faults>>

\* The verdict is written and reported: a report that succeeds leaves the run
\* REPORTED, one that fails leaves the verdict (reportRun).
ReportedAs(r, verdict) ==
    /\ validateRunTransition(runs[r].state, verdict)
    /\ \E told \in {verdict, "REPORTED"} : runs' = [runs EXCEPT ![r].state = told]

\* Seeded fault: the recipe is persisted whatever the verdict.
PersistAnyVerdict(f) ==
    LET r == fin[f].run
        verdict == IF runs[r].green THEN "SUCCESS" ELSE "FAILED"
    IN  /\ fin[f].pc = "verdict"
        /\ ReportedAs(r, verdict)
        /\ Moves(f, [fin[f] EXCEPT !.pc = "persist"])
        /\ UNCHANGED <<recipes, faults>>

\* A second verdict on the same run, until it is REPORTED, is a legal transition
\* to the same state, so both requests go on to persist; on a canceled or a
\* reported run it ends the request with an error.
Finalize_Verdict(f) ==
    LET r == fin[f].run
        verdict == IF runs[r].green THEN "SUCCESS" ELSE "FAILED"
    IN  /\ fin[f].pc = "verdict"
        /\ \/ ReportedAs(r, verdict)
              /\ Moves(f, IF verdict = "SUCCESS" THEN [fin[f] EXCEPT !.pc = "persist"] ELSE Resting)
           \/ ~validateRunTransition(runs[r].state, verdict)
              /\ Moves(f, Resting) /\ UNCHANGED runs
        /\ UNCHANGED <<recipes, faults>>

\* Only a plan that discovery made, for a known fingerprint, becomes a recipe.
PersistRecipe_Read(f) ==
    LET r == fin[f].run
    IN  /\ fin[f].pc = "persist"
        /\ \/ /\ runs[r].jobs # {}
              /\ \E row \in GetRunPlan(r) :
                    /\ row.source = "discovery" /\ row.fp # {}
                    /\ Moves(f, [fin[f] EXCEPT !.pc = "create", !.row = {row}])
           \/ /\ runs[r].jobs = {} \/ \A row \in GetRunPlan(r) : row.source # "discovery" \/ row.fp = {}
              /\ Moves(f, Resting)
        /\ UNCHANGED <<runs, recipes, faults>>

\* Seeded fault: ON CONFLICT DO UPDATE.
CreateOrReplace(f) ==
    /\ fin[f].pc = "create"
    /\ \E row \in fin[f].row :
          LET fresh == [fp |-> row.fp, jobs |-> buildRecipeJobs(fin[f].run)]
              Same  == {i \in DOMAIN recipes : recipes[i].fp = row.fp}
          IN  /\ recipes' = IF Same = {} THEN Append(recipes, fresh)
                            ELSE [i \in DOMAIN recipes |-> IF i \in Same THEN fresh ELSE recipes[i]]
              /\ Moves(f, [fin[f] EXCEPT !.pc = "find"])
    /\ UNCHANGED <<runs, faults>>

\* Seeded fault: the id made up for the new recipe is used although its row was
\* not inserted.
NamesOwnRecipe(f) ==
    /\ fin[f].pc = "create"
    /\ Moves(f, [fin[f] EXCEPT !.pc = "update", !.recipe = {Len(recipes) + 1}])
    /\ \E row \in fin[f].row :
          recipes' = IF recipes_repo_fingerprint_version_idx(row.fp)
                     THEN Append(recipes, [fp |-> row.fp, jobs |-> buildRecipeJobs(fin[f].run)])
                     ELSE recipes
    /\ UNCHANGED <<runs, faults>>

\* The jobs of the run become the recipe; if there is one it is looked up.
PersistRecipe_Create(f) ==
    /\ fin[f].pc = "create"
    /\ \E row \in fin[f].row :
          \/ /\ CreateRecipe(row.fp, buildRecipeJobs(fin[f].run))
             /\ Moves(f, [fin[f] EXCEPT !.pc = "update", !.recipe = {Len(recipes) + 1}])
          \/ /\ ~recipes_repo_fingerprint_version_idx(row.fp)
             /\ Moves(f, [fin[f] EXCEPT !.pc = "find"])
             /\ UNCHANGED recipes
    /\ UNCHANGED <<runs, faults>>

PersistRecipe_Find(f) ==
    /\ fin[f].pc = "find"
    /\ \E row \in fin[f].row : \E found \in FindRecipeByFingerprint(row.fp) :
          Moves(f, [fin[f] EXCEPT !.pc = "update", !.recipe = {found.id}])
    /\ UNCHANGED <<runs, recipes, faults>>

\* updateRunPlanRecipe writes its copy of the plan row back with the recipe's id.
PersistRecipe_Update(f) ==
    /\ fin[f].pc = "update"
    /\ \E row \in fin[f].row : RecordRunPlan(fin[f].run, [row EXCEPT !.recipe = fin[f].recipe])
    /\ Moves(f, Resting)
    /\ UNCHANGED <<recipes, faults>>

\* A database error, which is logged, or the end of the request.
Finalize_Fails(f) ==
    /\ fin[f].pc # "idle" /\ faults > 0
    /\ Moves(f, Resting)
    /\ faults' = faults - 1
    /\ UNCHANGED <<runs, recipes>>

FinalizeSteps(f) ==
    \/ \E r \in DOMAIN runs : Finalize_Read(f, r)
    \/ Finalize_Verdict(f)
    \/ PersistRecipe_Read(f) \/ PersistRecipe_Create(f) \/ PersistRecipe_Find(f)
    \/ PersistRecipe_Update(f)
    \/ Finalize_Fails(f)

-----------------------------------------------------------------------------
(* Properties *)

\* Every recipe is the job list of a run of that fingerprint which discovery
\* planned and which was found successful: known-good behavior, not a guess
\* (persistRecipeIfNeeded).
RecipeIsGreen ==
    \A i \in DOMAIN recipes :
        \E r \in DOMAIN runs :
            /\ runs[r].state \in {"SUCCESS", "REPORTED"} /\ runs[r].green
            /\ runs[r].jobs = recipes[i].jobs
            /\ \E row \in runs[r].plan : row.source = "discovery" /\ row.fp = recipes[i].fp

\* A recipe row is never rewritten or removed, also when several runs of its
\* fingerprint finish at once (CreateRecipe).
RecipeIsKept == [][\A i \in DOMAIN recipes : i \in DOMAIN recipes' /\ recipes'[i] = recipes[i]]_recipes

\* Two plan rows of one fingerprint never name different recipes, whichever
\* requests created, found or used them (PersistRecipe, planFromRecipe).
RecipesAgree ==
    \A r, q \in DOMAIN runs :
        \A x \in runs[r].plan, y \in runs[q].plan :
            x.fp = y.fp /\ x.recipe # {} /\ y.recipe # {} => x.recipe = y.recipe
=============================================================================
