---------------------------- MODULE IntakeProofs ----------------------------
(***************************************************************************)
(* Proofs about Intake and Recipes, for every value of the constants.      *)
(***************************************************************************)
EXTENDS Intake, PlannerProofs

-----------------------------------------------------------------------------
(* The inductive invariant, one predicate per kind of row or frame.  Each   *)
(* is about the values it is given, so that a lemma can compare two states. *)

\* What is stored as a plan's recipe is the recipe of the plan's fingerprint.
Names(recipe, fp, rc) == \E i \in DOMAIN rc : recipe = {i} /\ rc[i].fp = fp

RowOK(row, rc) ==
    /\ row = [source |-> row.source, fp |-> row.fp, recipe |-> row.recipe, skipped |-> row.skipped]
    /\ row.source \in Sources
    /\ row.recipe # {} => Names(row.recipe, row.fp, rc)

RunOK(x, rc) ==
    /\ x = [state |-> x.state, sha |-> x.sha, ref |-> x.ref, green |-> x.green, jobs |-> x.jobs, plan |-> x.plan]
    /\ x.state \in RunStates /\ x.green \in BOOLEAN
    /\ \A row \in x.plan : RowOK(row, rc)
    /\ \A a, b \in x.plan : a = b

Succeeded(x) == x.state \in {"SUCCESS", "REPORTED"} /\ x.green

DiscoveredFor(x, fp) == \E row \in x.plan : row.source = "discovery" /\ row.fp = fp

RecipeOK(c, rs) ==
    /\ c.fp # {}
    /\ \E r \in DOMAIN rs : Succeeded(rs[r]) /\ rs[r].jobs = c.jobs /\ DiscoveredFor(rs[r], c.fp)

\* The states a run may be in while a finalizer works on it.
Executed == {"RUNNING", "CANCEL_REQUESTED", "SUCCESS", "FAILED", "REPORTED"}

FinOK(x, rs, rc) ==
    /\ x = [pc |-> x.pc, run |-> x.run, row |-> x.row, recipe |-> x.recipe]
    /\ x.pc \in {"idle", "verdict", "persist", "create", "find", "update"}
    /\ x.pc = "idle" => x.run = 0
    /\ x.pc # "idle" => x.run \in DOMAIN rs /\ rs[x.run].state \in Executed
    /\ x.pc \in {"persist", "create", "find", "update"} => Succeeded(rs[x.run])
    /\ x.pc \in {"create", "find", "update"} =>
          \A row \in x.row :
              /\ row = [source |-> row.source, fp |-> row.fp, recipe |-> row.recipe, skipped |-> row.skipped]
              /\ row.source = "discovery" /\ row.fp # {} /\ DiscoveredFor(rs[x.run], row.fp)
              /\ x.pc = "update" => Names(x.recipe, row.fp, rc)
    /\ x.pc \in {"create", "find", "update"} => \A a, b \in x.row : a = b
    /\ x.recipe \subseteq DOMAIN rc

KeyFits(k, q, rs) ==
    \/ q.event = "rerun" /\ k[1] = "rerun" /\ k[2] \in DOMAIN rs /\ rs[k[2]].sha = q.sha
    \/ /\ q.event \in {"push", "pull_request"}
       /\ k[1] = q.event /\ k[3] = q.sha
       /\ q.event = "pull_request" => q.ref = <<"pull", k[2]>>

BoundOK(b, rs) ==
    /\ b \in Keys \X DOMAIN rs
    /\ b[1][1] = "rerun" =>
          b[1][2] \in DOMAIN rs /\ rs[b[2]].sha = rs[b[1][2]].sha /\ b[2] # b[1][2]
    /\ b[1][1] # "rerun" => rs[b[2]].sha = b[1][3]
    /\ b[1][1] = "pull_request" => rs[b[2]].ref = <<"pull", b[1][2]>>

PlanOK(p, rc) == p.source \in Sources /\ (p.recipe # {} => Names(p.recipe, p.fp, rc))

FrameOK(x, rs, bd, rc) ==
    /\ x = [pc |-> x.pc, req |-> x.req, key |-> x.key, run |-> x.run,
            tree |-> x.tree, fp |-> x.fp, plan |-> x.plan]
    /\ x.pc \in Places
    /\ x.run = 0 \/ x.run \in DOMAIN rs
    /\ x.pc \in {"idle", "ignored", "insert", "duplicate"} => x.run = 0
    /\ x.pc \notin {"idle", "ignored"} => x.key \in Keys /\ KeyFits(x.key, x.req, rs)
    /\ x.pc \in Starting =>
          /\ x.run \in DOMAIN rs
          /\ rs[x.run].state = IF x.pc = "start" THEN "CREATED" ELSE "PLANNING"
    /\ x.pc \in Starting \union {"answered"} => <<x.key, x.run>> \in bd
    /\ \A p \in x.plan : PlanOK(p, rc)

RunsInv == IsSequence(runs) /\ \A r \in DOMAIN runs : RunOK(runs[r], recipes)

RecipesInv ==
    /\ IsSequence(recipes)
    /\ \A i \in DOMAIN recipes : RecipeOK(recipes[i], runs)
    /\ \A i, j \in DOMAIN recipes : recipes[i].fp = recipes[j].fp => i = j

FinInv ==
    /\ fin = [f \in Finalizers |-> fin[f]]
    /\ \A f \in Finalizers : FinOK(fin[f], runs, recipes)

\* Each run is being started by one handler at most, and was by some handler:
\* there are no more runs than handlers.
FramesInv ==
    /\ th = [h \in Handlers |-> th[h]]
    /\ \A h \in Handlers : FrameOK(th[h], runs, bound, recipes)
    /\ \A g, h \in Handlers :
          th[g].pc \in Starting /\ th[h].pc \in Starting /\ th[g].run = th[h].run => g = h
    /\ \A r \in DOMAIN runs : \E h \in Handlers : th[h].run = r

BoundInv == \A b \in bound : BoundOK(b, runs)

BoundsInv == events \subseteq Requests /\ faults \in Nat /\ deliveries \in Nat

IntakeInv == RunsInv /\ RecipesInv /\ FinInv /\ FramesInv /\ BoundInv /\ BoundsInv

-----------------------------------------------------------------------------
(* What a step may do to the rows others rely on. *)

RowStep(x, y) ==
    /\ y.sha = x.sha /\ y.ref = x.ref
    /\ x.state \in Executed => y.state \in Executed
    /\ Succeeded(x) =>
          /\ Succeeded(y) /\ y.jobs = x.jobs
          /\ \A fp : DiscoveredFor(x, fp) => DiscoveredFor(y, fp)

RunsStep(rs, new) == \A r \in DOMAIN rs : r \in DOMAIN new /\ RowStep(rs[r], new[r])

RecipesStep(rc, new) == \A i \in DOMAIN rc : i \in DOMAIN new /\ new[i] = rc[i]

LEMMA NamesKept ==
    ASSUME NEW rc, NEW new, RecipesStep(rc, new), NEW c, NEW fp, Names(c, fp, rc)
    PROVE  Names(c, fp, new)
BY DEF Names, RecipesStep

LEMMA RunKept ==
    ASSUME NEW rc, NEW new, RecipesStep(rc, new), NEW x, RunOK(x, rc)
    PROVE  RunOK(x, new)
BY NamesKept DEF RunOK, RowOK

LEMMA RecipeKept ==
    ASSUME NEW rs, NEW new, RunsStep(rs, new), NEW c, RecipeOK(c, rs)
    PROVE  RecipeOK(c, new)
<1>1. PICK r \in DOMAIN rs : Succeeded(rs[r]) /\ rs[r].jobs = c.jobs /\ DiscoveredFor(rs[r], c.fp)
    BY DEF RecipeOK
<1>2. r \in DOMAIN new /\ RowStep(rs[r], new[r])
    BY DEF RunsStep
<1> QED
    BY <1>1, <1>2 DEF RowStep, RecipeOK

LEMMA FinKept ==
    ASSUME NEW rs, NEW rs2, RunsStep(rs, rs2), NEW rc, NEW rc2, RecipesStep(rc, rc2),
           NEW x, FinOK(x, rs, rc)
    PROVE  FinOK(x, rs2, rc2)
<1>1. x.run \in DOMAIN rs => x.run \in DOMAIN rs2 /\ RowStep(rs[x.run], rs2[x.run])
    BY DEF RunsStep
<1>2. x.recipe \subseteq DOMAIN rc2
    BY DEF FinOK, RecipesStep
<1>3. ASSUME x.pc \in {"create", "find", "update"}, NEW row \in x.row
      PROVE  /\ row = [source |-> row.source, fp |-> row.fp, recipe |-> row.recipe, skipped |-> row.skipped]
             /\ row.source = "discovery" /\ row.fp # {} /\ DiscoveredFor(rs2[x.run], row.fp)
             /\ x.pc = "update" => Names(x.recipe, row.fp, rc2)
    BY <1>1, <1>3, NamesKept DEF FinOK, RowStep
<1> QED
    BY <1>1, <1>2, <1>3 DEF FinOK, RowStep

LEMMA KeyKept ==
    ASSUME NEW rs, NEW new, RunsStep(rs, new), NEW k, NEW q, KeyFits(k, q, rs)
    PROVE  KeyFits(k, q, new)
BY DEF KeyFits, RunsStep, RowStep

LEMMA BoundKept ==
    ASSUME NEW rs, NEW new, RunsStep(rs, new), NEW b, BoundOK(b, rs)
    PROVE  BoundOK(b, new)
<1>1. /\ b[2] \in DOMAIN new /\ RowStep(rs[b[2]], new[b[2]])
      /\ b[1] \in Keys
    BY DEF BoundOK, RunsStep
<1>2. b[1][1] = "rerun" => b[1][2] \in DOMAIN new /\ RowStep(rs[b[1][2]], new[b[1][2]])
    BY DEF BoundOK, RunsStep
<1>3. b \in Keys \X DOMAIN new
    BY <1>1 DEF BoundOK
<1> QED
    BY <1>1, <1>2, <1>3 DEF BoundOK, RowStep

\* A frame that is left alone stays good, if the run it is starting does.
LEMMA FrameKept ==
    ASSUME NEW rs, NEW rs2, RunsStep(rs, rs2), NEW rc, NEW rc2, RecipesStep(rc, rc2),
           NEW bd, NEW bd2, bd \subseteq bd2, NEW x, FrameOK(x, rs, bd, rc),
           x.pc \in Starting => rs2[x.run].state = rs[x.run].state
    PROVE  FrameOK(x, rs2, bd2, rc2)
<1>1. x.run \in DOMAIN rs => x.run \in DOMAIN rs2
    BY DEF RunsStep
<1>2. \A p \in x.plan : PlanOK(p, rc2)
    BY NamesKept DEF FrameOK, PlanOK
<1>3. KeyFits(x.key, x.req, rs) => KeyFits(x.key, x.req, rs2)
    BY KeyKept
<1> QED
    BY <1>1, <1>2, <1>3 DEF FrameOK

LEMMA RowStepRefl == \A x : RowStep(x, x)
BY DEF RowStep

LEMMA NoStep == (\A rs : RunsStep(rs, rs)) /\ (\A rc : RecipesStep(rc, rc))
BY RowStepRefl DEF RunsStep, RecipesStep

-----------------------------------------------------------------------------
(* Each part of the invariant under a step that leaves its own variable     *)
(* alone, and under the two ways a step changes the runs.                   *)

LEMMA RunsCarry ==
    ASSUME RunsInv, runs' = runs, RecipesStep(recipes, recipes')
    PROVE  RunsInv' /\ RunsStep(runs, runs')
BY RunKept, NoStep DEF RunsInv

LEMMA RecipesCarry ==
    ASSUME RecipesInv, RunsStep(runs, runs'), recipes' = recipes
    PROVE  RecipesInv' /\ RecipesStep(recipes, recipes')
BY RecipeKept, NoStep DEF RecipesInv

LEMMA FinCarry ==
    ASSUME FinInv, RunsStep(runs, runs'), RecipesStep(recipes, recipes'), fin' = fin
    PROVE  FinInv'
BY FinKept DEF FinInv

LEMMA BoundCarry ==
    ASSUME BoundInv, RunsStep(runs, runs'), bound' = bound
    PROVE  BoundInv'
BY BoundKept DEF BoundInv

LEMMA FramesCarry ==
    ASSUME FramesInv, RunsStep(runs, runs'), RecipesStep(recipes, recipes'),
           bound' = bound, th' = th, DOMAIN runs' = DOMAIN runs,
           \A h \in Handlers : th[h].pc \in Starting => runs'[th[h].run].state = runs[th[h].run].state
    PROVE  FramesInv'
<1>1. \A h \in Handlers : FrameOK(th[h], runs', bound', recipes')
    BY FrameKept DEF FramesInv
<1> QED
    BY <1>1 DEF FramesInv

\* One handler moves; what it starts, no other handler does.
LEMMA FrameMoves ==
    ASSUME FramesInv, RunsStep(runs, runs'), recipes' = recipes, bound \subseteq bound',
           NEW h \in Handlers, NEW x, th' = [th EXCEPT ![h] = x],
           FrameOK(x, runs', bound', recipes'),
           \A g \in Handlers \ {h} :
               th[g].pc \in Starting => runs'[th[g].run].state = runs[th[g].run].state,
           x.pc \in Starting => \/ th[h].pc \in Starting /\ x.run = th[h].run
                                \/ x.run \notin DOMAIN runs,
           th[h].run = 0 \/ x.run = th[h].run,
           0 \notin DOMAIN runs,
           \A r \in DOMAIN runs' : r \in DOMAIN runs \/ r = x.run
    PROVE  FramesInv'
<1>1. \A g \in Handlers : th'[g] = IF g = h THEN x ELSE th[g]
    BY DEF FramesInv
<1>2. th' = [g \in Handlers |-> th'[g]]
    BY DEF FramesInv
<1>3. \A g \in Handlers : FrameOK(th'[g], runs', bound', recipes')
    <2> SUFFICES ASSUME NEW g \in Handlers, g # h
                 PROVE  FrameOK(th[g], runs', bound', recipes')
        BY <1>1
    <2> QED
        BY FrameKept, NoStep DEF FramesInv
<1>4. ASSUME NEW g \in Handlers, g # h, th[g].pc \in Starting
      PROVE  ~(x.pc \in Starting /\ x.run = th[g].run)
    <2>1. th[g].run \in DOMAIN runs
        BY <1>4 DEF FramesInv, FrameOK
    <2> QED
        BY <1>4, <2>1 DEF FramesInv
<1>5. \A f, g \in Handlers :
          th'[f].pc \in Starting /\ th'[g].pc \in Starting /\ th'[f].run = th'[g].run => f = g
    <2> SUFFICES ASSUME NEW f \in Handlers, NEW g \in Handlers,
                        th'[f].pc \in Starting, th'[g].pc \in Starting, th'[f].run = th'[g].run, f # g
                 PROVE  FALSE
        OBVIOUS
    <2>1. CASE f = h
        BY <1>1, <1>4, <2>1
    <2>2. CASE g = h
        BY <1>1, <1>4, <2>2
    <2>3. CASE f # h /\ g # h
        BY <1>1, <2>3 DEF FramesInv
    <2> QED
        BY <2>1, <2>2, <2>3
<1>6. \A r \in DOMAIN runs' : \E g \in Handlers : th'[g].run = r
    <2> SUFFICES ASSUME NEW r \in DOMAIN runs'
                 PROVE  \E g \in Handlers : th'[g].run = r
        OBVIOUS
    <2>1. CASE r = x.run
        BY <1>1, <2>1
    <2>2. CASE r \in DOMAIN runs
        <3>1. PICK g \in Handlers : th[g].run = r
            BY <2>2 DEF FramesInv
        <3>2. th'[g].run = r
            BY <1>1, <2>2, <3>1
        <3> QED
            BY <3>2
    <2> QED
        BY <2>1, <2>2
<1> QED
    BY <1>2, <1>3, <1>5, <1>6 DEF FramesInv

\* One row changes.
LEMMA RowChanges ==
    ASSUME RunsInv, recipes' = recipes, NEW r \in DOMAIN runs, NEW y,
           runs' = [runs EXCEPT ![r] = y], RunOK(y, recipes), RowStep(runs[r], y)
    PROVE  /\ RunsInv' /\ RunsStep(runs, runs') /\ DOMAIN runs' = DOMAIN runs
           /\ runs'[r] = y /\ \A q \in DOMAIN runs : q # r => runs'[q] = runs[q]
           /\ Len(runs') = Len(runs)
<1>1. /\ IsSequence(runs') /\ DOMAIN runs' = DOMAIN runs /\ Len(runs') = Len(runs)
      /\ runs'[r] = y /\ \A q \in DOMAIN runs : q # r => runs'[q] = runs[q]
    <2>1. /\ DOMAIN runs' = DOMAIN runs /\ runs'[r] = y
          /\ \A q \in DOMAIN runs : q # r => runs'[q] = runs[q]
        OBVIOUS
    <2>2. IsFunction(runs')
        BY DEF IsFunction
    <2>3. IsSequence(runs)
        BY DEF RunsInv
    <2> QED
        BY <2>1, <2>2, <2>3, SameShape
<1>2. \A q \in DOMAIN runs : RowStep(runs[q], runs'[q])
    BY <1>1, RowStepRefl
<1> QED
    BY <1>1, <1>2 DEF RunsInv, RunsStep

\* A run is created.
LEMMA RowIsAdded ==
    ASSUME RunsInv, recipes' = recipes, NEW y, runs' = Append(runs, y), RunOK(y, recipes)
    PROVE  /\ RunsInv' /\ RunsStep(runs, runs')
           /\ Len(runs) + 1 \in DOMAIN runs' /\ runs'[Len(runs) + 1] = y /\ Len(runs) + 1 \notin DOMAIN runs
           /\ \A r \in DOMAIN runs : r \in DOMAIN runs' /\ runs'[r] = runs[r]
           /\ \A r \in DOMAIN runs' : r \in DOMAIN runs \/ r = Len(runs) + 1
           /\ Len(runs') = Len(runs) + 1
<1>1. PICK z : z = runs'
    OBVIOUS
<1>2. /\ IsSequence(runs') /\ Len(runs') = Len(runs) + 1
      /\ \A r \in DOMAIN runs : r \in DOMAIN runs' /\ runs'[r] = runs[r]
      /\ Len(runs) + 1 \in DOMAIN runs' /\ runs'[Len(runs) + 1] = y
      /\ \A r \in DOMAIN runs' : r \in DOMAIN runs \/ r = Len(runs) + 1
    BY <1>1, AppendShape DEF RunsInv
<1>3. Len(runs) + 1 \notin DOMAIN runs
    BY SequenceShape DEF RunsInv
<1>4. \A r \in DOMAIN runs : RowStep(runs[r], runs'[r])
    BY <1>2, RowStepRefl
<1> QED
    BY <1>2, <1>3, <1>4 DEF RunsInv, RunsStep

-----------------------------------------------------------------------------
(* The steps of handlers that change no row. *)

LEMMA ZeroIsNoRun == ASSUME RunsInv PROVE 0 \notin DOMAIN runs
BY SequenceShape DEF RunsInv

LEMMA HandlerMoves ==
    ASSUME IntakeInv, UNCHANGED <<runs, recipes, fin, bound>>, BoundsInv',
           NEW h \in Handlers, NEW x, th' = [th EXCEPT ![h] = x], FrameOK(x, runs, bound, recipes),
           x.pc \in Starting => th[h].pc \in Starting /\ x.run = th[h].run,
           th[h].run = 0 \/ x.run = th[h].run
    PROVE  IntakeInv'
<1>1. RunsInv' /\ RunsStep(runs, runs') /\ RecipesInv' /\ RecipesStep(recipes, recipes')
    BY RunsCarry, RecipesCarry, NoStep DEF IntakeInv
<1>2. FinInv' /\ BoundInv'
    BY <1>1, FinCarry, BoundCarry DEF IntakeInv
<1>3. FramesInv'
    BY <1>1, FrameMoves, ZeroIsNoRun DEF IntakeInv
<1> QED
    BY <1>1, <1>2, <1>3 DEF IntakeInv

\* A frame that only goes to another place.
LEMMA FrameGoes ==
    ASSUME NEW rs, NEW bd, NEW rc, NEW x, FrameOK(x, rs, bd, rc), x.pc \notin {"idle", "ignored"},
           NEW place \in Places \ {"idle", "ignored", "answered"},
           place \in {"insert", "duplicate"} => x.run = 0,
           place \in Starting => x.pc \in Starting /\ (place = "start" <=> x.pc = "start")
    PROVE  FrameOK([x EXCEPT !.pc = place], rs, bd, rc)
BY DEF FrameOK

LEMMA GotoMoves ==
    ASSUME IntakeInv, UNCHANGED <<runs, recipes, fin, bound>>, BoundsInv',
           NEW h \in Handlers, th[h].pc \notin {"idle", "ignored"},
           NEW place \in Places \ {"idle", "ignored", "answered"}, Goto(h, place),
           place \in {"insert", "duplicate"} => th[h].run = 0,
           place \in Starting => th[h].pc \in Starting /\ (place = "start" <=> th[h].pc = "start")
    PROVE  IntakeInv'
<1>1. PICK x : x = [th[h] EXCEPT !.pc = place]
    OBVIOUS
<1>2. FrameOK(th[h], runs, bound, recipes)
    BY DEF IntakeInv, FramesInv
<1>3. FrameOK(x, runs, bound, recipes)
    BY <1>1, <1>2, FrameGoes
<1>4. x.pc = place /\ x.run = th[h].run
    BY <1>1, <1>2 DEF FrameOK
<1>5. th' = [th EXCEPT ![h] = x]
    BY <1>1 DEF Goto
<1> QED
    BY <1>3, <1>4, <1>5, HandlerMoves

LEMMA WebhookKeeps ==
    ASSUME IntakeInv, NEW h \in Handlers, NEW q \in events, Webhook(h, q)
    PROVE  IntakeInv'
<1>1. q \in Requests /\ FrameOK(th[h], runs, bound, recipes)
    BY DEF IntakeInv, FramesInv, BoundsInv
<1>2. BoundsInv' /\ th[h].run = 0 /\ UNCHANGED <<runs, recipes, fin, bound>>
    BY <1>1 DEF IntakeInv, BoundsInv, Webhook, recipeVars, envVars, FrameOK, At
<1>3. CASE TriggersRun(q)
    <2>1. PICK x : x = [Idle EXCEPT !.pc = "insert", !.req = q, !.key = ComputeEventKey(q)]
        OBVIOUS
    <2>2. /\ x.pc = "insert" /\ x.req = q /\ x.key = ComputeEventKey(q) /\ x.run = 0 /\ x.plan = {}
          /\ x = [pc |-> x.pc, req |-> x.req, key |-> x.key, run |-> x.run,
                  tree |-> x.tree, fp |-> x.fp, plan |-> x.plan]
        BY <2>1 DEF Idle
    <2>3. x.key \in Keys
        BY <1>1, <2>2 DEF Keys
    <2>4. KeyFits(x.key, x.req, runs)
        BY <1>1, <2>2, IntakeAssumption DEF KeyFits, ComputeEventKey
    <2>5. FrameOK(x, runs, bound, recipes)
        BY <2>2, <2>3, <2>4 DEF FrameOK, Places, Working, Starting
    <2>6. th' = [th EXCEPT ![h] = x]
        BY <1>3, <2>1 DEF Webhook, GotoWith
    <2>7. x.pc \notin Starting
        BY <2>2 DEF Starting
    <2> QED
        BY <1>2, <2>5, <2>6, <2>7, HandlerMoves
<1>4. CASE ~TriggersRun(q)
    <2>1. PICK x : x = [Idle EXCEPT !.pc = "ignored", !.req = q]
        OBVIOUS
    <2>2. FrameOK(x, runs, bound, recipes) /\ x.pc \notin Starting
        BY <2>1 DEF FrameOK, Idle, Places, Working, Starting
    <2>3. th' = [th EXCEPT ![h] = x]
        BY <1>4, <2>1 DEF Webhook, GotoWith
    <2> QED
        BY <1>2, <2>2, <2>3, HandlerMoves
<1> QED
    BY <1>3, <1>4

\* Every run was created by a handler of its own.
LEMMA RunsAreFewer ==
    ASSUME RunsInv, FramesInv
    PROVE  DOMAIN runs \subseteq 1 .. Cardinality(Handlers)
<1>1. Len(runs) \in Nat /\ DOMAIN runs = 1 .. Len(runs)
    BY SequenceShape DEF RunsInv
<1>2. IsFiniteSet(Handlers)
    BY IntakeAssumption
<1>3. PICK g : g = [r \in 1 .. Len(runs) |-> CHOOSE h \in Handlers : th[h].run = r]
    OBVIOUS
<1>4. \A r \in 1 .. Len(runs) : g[r] \in Handlers /\ th[g[r]].run = r
    BY <1>1, <1>3 DEF FramesInv
<1>5. g \in Injection(1 .. Len(runs), Handlers)
    BY <1>3, <1>4 DEF Injection, IsInjective
<1>6. Cardinality(1 .. Len(runs)) <= Cardinality(Handlers)
    <2>1. IsFiniteSet(1 .. Len(runs)) 
        BY <1>1, FS_Interval
    <2> QED
        BY <1>2, <1>5, <2>1, FS_Injection
<1>7. Cardinality(1 .. Len(runs)) = Len(runs)
    <2>1. PICK n \in Nat : n = Len(runs)
        BY <1>1
    <2>2. Cardinality(1 .. n) = n
        BY FS_Interval
    <2> QED
        BY <2>1, <2>2
<1>8. Cardinality(Handlers) \in Nat
    BY <1>2, FS_CardinalityType
<1> QED
    BY <1>1, <1>6, <1>7, <1>8

LEMMA RerunKeeps ==
    ASSUME IntakeInv, NEW h \in Handlers, NEW r \in DOMAIN runs, NEW k \in IdempotencyKeys, Rerun(h, r, k)
    PROVE  IntakeInv'
<1>1. FrameOK(th[h], runs, bound, recipes) /\ r \in 1 .. Cardinality(Handlers)
    BY RunsAreFewer DEF IntakeInv, FramesInv
<1>2. BoundsInv' /\ th[h].run = 0 /\ UNCHANGED <<runs, recipes, fin, bound>>
    BY <1>1 DEF IntakeInv, BoundsInv, Rerun, recipeVars, envVars, FrameOK, At
<1>3. PICK q : q = [event |-> "rerun", action |-> "none", sha |-> runs[r].sha, ref |-> runs[r].ref]
    OBVIOUS
<1>4. q.event = "rerun" /\ q.sha = runs[r].sha
    BY <1>3
<1>5. PICK x : x = [Idle EXCEPT !.pc = "insert", !.key = RerunKey(r, k), !.req = q]
    OBVIOUS
<1>6. /\ x.pc = "insert" /\ x.req = q /\ x.key = RerunKey(r, k) /\ x.run = 0 /\ x.plan = {}
      /\ x = [pc |-> x.pc, req |-> x.req, key |-> x.key, run |-> x.run,
              tree |-> x.tree, fp |-> x.fp, plan |-> x.plan]
    BY <1>5 DEF Idle
<1>7. x.key \in Keys
    BY <1>1, <1>6 DEF Keys
<1>8. KeyFits(x.key, x.req, runs)
    BY <1>4, <1>6 DEF KeyFits, RerunKey
<1>9. FrameOK(x, runs, bound, recipes) /\ x.pc \notin Starting
    BY <1>6, <1>7, <1>8 DEF FrameOK, Places, Working, Starting
<1>10. th' = [th EXCEPT ![h] = x]
    BY <1>3, <1>5 DEF Rerun, GotoWith
<1> QED
    BY <1>2, <1>9, <1>10, HandlerMoves

LEMMA AnswerDuplicateKeeps ==
    ASSUME IntakeInv, NEW h \in Handlers, AnswerDuplicate(h)
    PROVE  IntakeInv'
<1>1. FrameOK(th[h], runs, bound, recipes) /\ th[h].pc = "duplicate" /\ th[h].run = 0
    BY DEF IntakeInv, FramesInv, AnswerDuplicate, At, FrameOK
<1>2. BoundsInv' /\ UNCHANGED <<runs, recipes, fin, bound>>
    BY DEF IntakeInv, BoundsInv, AnswerDuplicate, recipeVars, envVars
<1>3. PICK b \in bound : b[1] = th[h].key /\ GotoWith(h, [th[h] EXCEPT !.pc = "answered", !.run = b[2]])
    BY DEF AnswerDuplicate
<1>4. PICK x : x = [th[h] EXCEPT !.pc = "answered", !.run = b[2]]
    OBVIOUS
<1>5. BoundOK(b, runs)
    BY DEF IntakeInv, BoundInv
<1>6. b[2] \in DOMAIN runs /\ b = <<b[1], b[2]>>
    BY <1>5 DEF BoundOK
<1>7. /\ x.pc = "answered" /\ x.req = th[h].req /\ x.key = b[1] /\ x.run = b[2] /\ x.plan = th[h].plan
      /\ x = [pc |-> x.pc, req |-> x.req, key |-> x.key, run |-> x.run,
              tree |-> x.tree, fp |-> x.fp, plan |-> x.plan]
    BY <1>1, <1>3, <1>4 DEF FrameOK
<1>8. FrameOK(x, runs, bound, recipes) /\ x.pc \notin Starting
    BY <1>1, <1>3, <1>6, <1>7 DEF FrameOK, Places, Working, Starting
<1>9. th' = [th EXCEPT ![h] = x]
    BY <1>3, <1>4 DEF GotoWith
<1> QED
    BY <1>1, <1>2, <1>8, <1>9, HandlerMoves

LEMMA DiscoverKeeps ==
    ASSUME IntakeInv, NEW h \in Handlers, Discover(h)
    PROVE  IntakeInv'
<1>1. FrameOK(th[h], runs, bound, recipes) /\ th[h].pc = "discover"
    BY DEF IntakeInv, FramesInv, Discover, At
<1>2. BoundsInv' /\ UNCHANGED <<runs, recipes, fin, bound>>
    BY DEF IntakeInv, BoundsInv, Discover, recipeVars, envVars
<1>3. PICK x : x = [th[h] EXCEPT !.pc = "fingerprint", !.tree = {checkout}]
    OBVIOUS
<1>4. FrameOK(x, runs, bound, recipes) /\ x.pc = "fingerprint" /\ x.run = th[h].run
    BY <1>1, <1>3 DEF FrameOK, Places, Working, Starting
<1>5. th' = [th EXCEPT ![h] = x]
    BY <1>3 DEF Discover, GotoWith
<1> QED
    BY <1>1, <1>2, <1>4, <1>5, HandlerMoves DEF Starting

LEMMA FingerprintKeeps ==
    ASSUME IntakeInv, NEW h \in Handlers, Fingerprint(h)
    PROVE  IntakeInv'
<1>1. FrameOK(th[h], runs, bound, recipes) /\ th[h].pc = "fingerprint"
    BY DEF IntakeInv, FramesInv, Fingerprint, At
<1>2. BoundsInv' /\ UNCHANGED <<runs, recipes, fin, bound>>
    BY DEF IntakeInv, BoundsInv, Fingerprint, recipeVars, envVars
<1>3. PICK x : x = [th[h] EXCEPT !.pc = "lookup", !.fp = computeRepoFingerprint(checkout)]
    OBVIOUS
<1>4. FrameOK(x, runs, bound, recipes) /\ x.pc = "lookup" /\ x.run = th[h].run
    BY <1>1, <1>3 DEF FrameOK, Places, Working, Starting
<1>5. th' = [th EXCEPT ![h] = x]
    BY <1>3 DEF Fingerprint, GotoWith
<1> QED
    BY <1>1, <1>2, <1>4, <1>5, HandlerMoves DEF Starting

\* Every plan states where it comes from, and names the recipe it uses.
LEMMA PlanMade ==
    ASSUME NEW tree, NEW fp, NEW found, NEW paths, NEW rc,
           \A c \in found : c.id \in DOMAIN rc /\ rc[c.id].fp = fp,
           NEW p, p = Plan(tree, fp, found, paths)
    PROVE  PlanOK(p, rc)
<1>1. CASE tree.config
    BY <1>1 DEF Plan, staticPlan, PlanOK, Sources
<1>2. CASE ~tree.config /\ hasGo(tree) /\ found # {}
    <2>1. PICK c \in found : c = CHOOSE r \in found : TRUE
        BY <1>2
    <2>2. p = planFromRecipe(c, fp)
        BY <1>2, <2>1 DEF Plan
    <2>3. p.source = "recipe" /\ p.recipe = {c.id} /\ p.fp = fp
        BY <2>2 DEF planFromRecipe
    <2> QED
        BY <2>3 DEF PlanOK, Sources, Names
<1>3. CASE ~tree.config /\ hasGo(tree) /\ found = {} /\ paths # {}
    <2>1. PICK go : go = discoverGoProjects(tree)
        OBVIOUS
    <2>2. p = planForGo(analyzeImpact(paths, go.projects, go.unknown), go.projects, fp)
        BY <1>3, <2>1 DEF Plan
    <2>3. p.source = "discovery" /\ p.recipe = {}
        BY <2>2 DEF planForGo
    <2> QED
        BY <2>3 DEF PlanOK, Sources
<1>4. CASE ~tree.config /\ (~hasGo(tree) \/ (found = {} /\ paths = {}))
    <2>1. p = staticPlan("fallback", fp)
        BY <1>4 DEF Plan
    <2> QED
        BY <2>1 DEF staticPlan, PlanOK, Sources
<1> QED
    BY <1>1, <1>2, <1>3, <1>4

LEMMA DecideKeeps ==
    ASSUME IntakeInv, NEW h \in Handlers, Decide(h)
    PROVE  IntakeInv'
<1>1. FrameOK(th[h], runs, bound, recipes) /\ th[h].pc = "lookup"
    BY DEF IntakeInv, FramesInv, Decide, At
<1>2. BoundsInv' /\ UNCHANGED <<runs, recipes, fin, bound>>
    BY DEF IntakeInv, BoundsInv, Decide, envVars
<1>3. PICK tree \in th[h].tree, found \in {FindRecipeByFingerprint(th[h].fp), {}} :
          GotoWith(h, [th[h] EXCEPT !.pc = "record",
                           !.plan = {Plan(tree, th[h].fp, found, gitChangedFiles(th[h].req.sha))}])
    BY DEF Decide
<1>4. \A c \in found : c.id \in DOMAIN recipes /\ recipes[c.id].fp = th[h].fp
    BY DEF FindRecipeByFingerprint
<1>5. PICK p : p = Plan(tree, th[h].fp, found, gitChangedFiles(th[h].req.sha))
    OBVIOUS
<1>6. PlanOK(p, recipes)
    BY <1>4, <1>5, PlanMade
<1>7. PICK x : x = [th[h] EXCEPT !.pc = "record", !.plan = {p}]
    OBVIOUS
<1>8. FrameOK(x, runs, bound, recipes) /\ x.pc = "record" /\ x.run = th[h].run
    BY <1>1, <1>6, <1>7 DEF FrameOK, Places, Working, Starting
<1>9. th' = [th EXCEPT ![h] = x]
    BY <1>3, <1>5, <1>7 DEF GotoWith
<1> QED
    BY <1>1, <1>2, <1>8, <1>9, HandlerMoves DEF Starting

LEMMA CutOffKeeps ==
    ASSUME IntakeInv, NEW h \in Handlers, CutOff(h)
    PROVE  IntakeInv'
<1>1. BoundsInv' /\ UNCHANGED <<runs, recipes, fin, bound>>
    BY DEF IntakeInv, BoundsInv, CutOff, envVars
<1>2. th[h].pc \notin {"idle", "ignored"} /\ Goto(h, "cut")
    BY DEF CutOff, Working, Starting
<1>3. "cut" \in Places \ {"idle", "ignored", "answered"} /\ "cut" \notin Starting
    BY DEF Places, Starting
<1> QED
    BY <1>1, <1>2, <1>3, GotoMoves

-----------------------------------------------------------------------------
(* The steps of handlers that write rows. *)

\* The new frame x of a handler that changes the run it is starting.
LEMMA HandlerWrites ==
    ASSUME IntakeInv, UNCHANGED <<recipes, fin, bound>>, BoundsInv',
           NEW h \in Handlers, th[h].pc \in Starting,
           NEW y, runs' = [runs EXCEPT ![th[h].run] = y],
           RunOK(y, recipes), RowStep(runs[th[h].run], y),
           NEW x, th' = [th EXCEPT ![h] = x], x.run = th[h].run,
           x = [pc |-> x.pc, req |-> th[h].req, key |-> th[h].key, run |-> th[h].run,
                tree |-> x.tree, fp |-> x.fp, plan |-> x.plan],
           x.pc \in Places \ {"idle", "ignored", "insert", "duplicate"},
           x.plan \subseteq th[h].plan,
           x.pc \in Starting => y.state = IF x.pc = "start" THEN "CREATED" ELSE "PLANNING"
    PROVE  IntakeInv'
<1>1. FrameOK(th[h], runs, bound, recipes)
    BY DEF IntakeInv, FramesInv
<1>2. th[h].run \in DOMAIN runs /\ <<th[h].key, th[h].run>> \in bound
    BY <1>1 DEF FrameOK
<1>3. /\ RunsInv' /\ RunsStep(runs, runs') /\ DOMAIN runs' = DOMAIN runs
      /\ runs'[th[h].run] = y /\ \A q \in DOMAIN runs : q # th[h].run => runs'[q] = runs[q]
    BY <1>2, RowChanges DEF IntakeInv
<1>4. RecipesInv' /\ RecipesStep(recipes, recipes')
    BY <1>3, RecipesCarry DEF IntakeInv
<1>5. FinInv' /\ BoundInv'
    BY <1>3, <1>4, FinCarry, BoundCarry DEF IntakeInv
<1>6. KeyFits(th[h].key, th[h].req, runs') /\ th[h].key \in Keys
    <2>1. th[h].pc \notin {"idle", "ignored"}
        BY DEF Starting
    <2> QED
        BY <1>1, <1>3, <2>1, KeyKept DEF FrameOK
<1>7. FrameOK(x, runs', bound', recipes')
    <2>1. x.key = th[h].key /\ x.req = th[h].req
        OBVIOUS
    <2> QED
        BY <1>1, <1>2, <1>3, <1>6, <2>1 DEF FrameOK
<1>8. \A g \in Handlers \ {h} :
          th[g].pc \in Starting => runs'[th[g].run].state = runs[th[g].run].state
    <2> SUFFICES ASSUME NEW g \in Handlers \ {h}, th[g].pc \in Starting
                 PROVE  runs'[th[g].run].state = runs[th[g].run].state
        OBVIOUS
    <2>1. th[g].run # th[h].run /\ th[g].run \in DOMAIN runs
        BY DEF IntakeInv, FramesInv, FrameOK
    <2> QED
        BY <1>3, <2>1
<1>9. FramesInv'
    BY <1>3, <1>7, <1>8, ZeroIsNoRun, FrameMoves DEF IntakeInv
<1> QED
    BY <1>3, <1>4, <1>5, <1>9 DEF IntakeInv

\* A new run, for the request of the handler that creates it.
LEMMA NewBound ==
    ASSUME NEW rs, NEW new, RunsStep(rs, new), NEW n \in DOMAIN new, n \notin DOMAIN rs,
           NEW k \in Keys, NEW q, KeyFits(k, q, rs), new[n].sha = q.sha, new[n].ref = q.ref
    PROVE  BoundOK(<<k, n>>, new)
<1>1. PICK b : b = <<k, n>>
    OBVIOUS
<1>2. b[1] = k /\ b[2] = n /\ b \in Keys \X DOMAIN new
    BY <1>1
<1>3. CASE q.event = "rerun" /\ k[1] = "rerun" /\ k[2] \in DOMAIN rs /\ rs[k[2]].sha = q.sha
    <2>1. k[2] \in DOMAIN new /\ new[k[2]].sha = q.sha /\ k[2] # n
        BY <1>3 DEF RunsStep, RowStep
    <2>2. BoundOK(b, new)
        BY <1>2, <1>3, <2>1 DEF BoundOK
    <2> QED
        BY <1>1, <2>2
<1>4. CASE /\ q.event \in {"push", "pull_request"}
           /\ k[1] = q.event /\ k[3] = q.sha
           /\ q.event = "pull_request" => q.ref = <<"pull", k[2]>>
    <2>1. BoundOK(b, new)
        BY <1>2, <1>4 DEF BoundOK
    <2> QED
        BY <1>1, <2>1
<1> QED
    BY <1>3, <1>4 DEF KeyFits

LEMMA InsertRunKeeps ==
    ASSUME IntakeInv, NEW h \in Handlers, InsertRun(h)
    PROVE  IntakeInv'
<1>1. FrameOK(th[h], runs, bound, recipes) /\ th[h].pc = "insert" /\ th[h].run = 0
    BY DEF IntakeInv, FramesInv, InsertRun, At, FrameOK
<1>2. BoundsInv' /\ UNCHANGED <<recipes, fin>>
    BY DEF IntakeInv, BoundsInv, InsertRun, envVars
<1>3. CASE Goto(h, "duplicate") /\ UNCHANGED <<runs, bound>>
    <2>1. "duplicate" \in Places \ {"idle", "ignored", "answered"} /\ "duplicate" \notin Starting
        BY DEF Places, Working, Starting
    <2> QED
        BY <1>1, <1>2, <1>3, <2>1, GotoMoves
<1>4. CASE /\ runs' = Append(runs, newRun(th[h].req.sha, th[h].req.ref))
           /\ bound' = bound \union {<<th[h].key, Len(runs) + 1>>}
           /\ GotoWith(h, [th[h] EXCEPT !.pc = "start", !.run = Len(runs) + 1])
    <2>1. PICK n : n = Len(runs) + 1
        OBVIOUS
    <2>2. PICK y : y = newRun(th[h].req.sha, th[h].req.ref)
        OBVIOUS
    <2>3. RunOK(y, recipes) /\ y.state = "CREATED" /\ y.sha = th[h].req.sha /\ y.ref = th[h].req.ref
        BY <2>2 DEF newRun, RunOK, RunStates
    <2>4. runs' = Append(runs, y)
        BY <1>4, <2>2
    <2>5. /\ RunsInv' /\ RunsStep(runs, runs') /\ n \in DOMAIN runs' /\ runs'[n] = y /\ n \notin DOMAIN runs
          /\ \A r \in DOMAIN runs : r \in DOMAIN runs' /\ runs'[r] = runs[r]
          /\ \A r \in DOMAIN runs' : r \in DOMAIN runs \/ r = n
        BY <1>2, <2>1, <2>3, <2>4, RowIsAdded DEF IntakeInv
    <2>6. RecipesInv' /\ RecipesStep(recipes, recipes') /\ FinInv'
        BY <1>2, <2>5, RecipesCarry, FinCarry DEF IntakeInv
    <2>7. th[h].key \in Keys /\ KeyFits(th[h].key, th[h].req, runs)
        BY <1>1 DEF FrameOK
    <2>8. BoundOK(<<th[h].key, n>>, runs')
        BY <2>3, <2>5, <2>7, NewBound
    <2>9. BoundInv'
        <3>1. \A b \in bound : BoundOK(b, runs')
            BY <2>5, BoundKept DEF IntakeInv, BoundInv
        <3> QED
            BY <1>4, <2>1, <2>8, <3>1 DEF BoundInv
    <2>10. PICK x : x = [th[h] EXCEPT !.pc = "start", !.run = n]
        OBVIOUS
    <2>11. /\ x.pc = "start" /\ x.run = n /\ x.key = th[h].key /\ x.req = th[h].req /\ x.plan = th[h].plan
           /\ x = [pc |-> x.pc, req |-> x.req, key |-> x.key, run |-> x.run,
                   tree |-> x.tree, fp |-> x.fp, plan |-> x.plan]
        BY <1>1, <2>10 DEF FrameOK
    <2>12. KeyFits(x.key, x.req, runs') /\ x.key \in Keys
        BY <2>5, <2>7, <2>11, KeyKept
    <2>13. <<x.key, x.run>> \in bound' /\ bound \subseteq bound'
        BY <1>4, <2>1, <2>11
    <2>14. \A p \in x.plan : PlanOK(p, recipes')
        BY <1>1, <1>2, <2>11 DEF FrameOK
    <2>15. FrameOK(x, runs', bound', recipes')
        BY <2>3, <2>5, <2>11, <2>12, <2>13, <2>14 DEF FrameOK, Places, Working, Starting
    <2>16. th' = [th EXCEPT ![h] = x]
        BY <1>4, <2>1, <2>10 DEF GotoWith
    <2>17. \A g \in Handlers \ {h} :
               th[g].pc \in Starting => runs'[th[g].run].state = runs[th[g].run].state
        BY <2>5 DEF IntakeInv, FramesInv, FrameOK
    <2>18. FramesInv'
        BY <1>1, <1>2, <2>5, <2>11, <2>13, <2>15, <2>16, <2>17, ZeroIsNoRun, FrameMoves DEF IntakeInv
    <2> QED
        BY <1>2, <2>5, <2>6, <2>9, <2>18 DEF IntakeInv
<1> QED
    BY <1>3, <1>4 DEF InsertRun

\* The row of a run that is being started may change at will: nobody relies on it.
LEMMA StartingRow ==
    ASSUME NEW x, x.state \in {"CREATED", "PLANNING"}, NEW y, y.sha = x.sha, y.ref = x.ref
    PROVE  RowStep(x, y)
BY DEF RowStep, Executed, Succeeded

LEMMA StartingFrame ==
    ASSUME IntakeInv, NEW h \in Handlers, th[h].pc \in Starting
    PROVE  /\ FrameOK(th[h], runs, bound, recipes)
           /\ th[h].run \in DOMAIN runs /\ RunOK(runs[th[h].run], recipes)
           /\ runs[th[h].run].state = IF th[h].pc = "start" THEN "CREATED" ELSE "PLANNING"
BY DEF IntakeInv, FramesInv, RunsInv, FrameOK

LEMMA EnterKeeps ==
    ASSUME IntakeInv, NEW h \in Handlers, th[h].pc \in Starting, NEW next, NEW place, Enter(h, next, place),
           \/ next = "PLANNING" /\ place = "discover"
           \/ next = "QUEUED" /\ place = "answered"
    PROVE  IntakeInv'
<1>1. /\ FrameOK(th[h], runs, bound, recipes)
      /\ th[h].run \in DOMAIN runs /\ RunOK(runs[th[h].run], recipes)
      /\ runs[th[h].run].state \in {"CREATED", "PLANNING"}
    BY StartingFrame
<1>2. BoundsInv' /\ UNCHANGED <<recipes, fin, bound>>
    BY DEF IntakeInv, BoundsInv, Enter, envVars
<1>3. CASE TransitionRunState(th[h].run, next) /\ Goto(h, place)
    <2>1. PICK y : y = [runs[th[h].run] EXCEPT !.state = next]
        OBVIOUS
    <2>2. runs' = [runs EXCEPT ![th[h].run] = y]
        BY <1>3, <2>1 DEF TransitionRunState
    <2>3. /\ RunOK(y, recipes) /\ y.state = next
          /\ y.sha = runs[th[h].run].sha /\ y.ref = runs[th[h].run].ref
        BY <1>1, <2>1 DEF RunOK, RunStates
    <2>4. RowStep(runs[th[h].run], y)
        BY <1>1, <2>3, StartingRow
    <2>5. PICK x : x = [th[h] EXCEPT !.pc = place]
        OBVIOUS
    <2>6. th' = [th EXCEPT ![h] = x]
        BY <1>3, <2>5 DEF Goto
    <2>7. /\ x.pc = place /\ x.run = th[h].run /\ x.plan \subseteq th[h].plan
          /\ x = [pc |-> x.pc, req |-> th[h].req, key |-> th[h].key, run |-> th[h].run,
                  tree |-> x.tree, fp |-> x.fp, plan |-> x.plan]
        BY <1>1, <2>5 DEF FrameOK
    <2>8. /\ x.pc \in Places \ {"idle", "ignored", "insert", "duplicate"}
          /\ x.pc \in Starting => y.state = IF x.pc = "start" THEN "CREATED" ELSE "PLANNING"
        BY <2>3, <2>7 DEF Places, Working, Starting
    <2> QED
        BY <1>2, <2>2, <2>3, <2>4, <2>6, <2>7, <2>8, HandlerWrites
<1>4. CASE Goto(h, "failed") /\ UNCHANGED runs
    <2>1. /\ "failed" \in Places \ {"idle", "ignored", "answered"} /\ "failed" \notin Starting
          /\ th[h].pc \notin {"idle", "ignored"}
        BY DEF Places, Working, Starting
    <2> QED
        BY <1>2, <1>4, <2>1, GotoMoves
<1> QED
    BY <1>3, <1>4 DEF Enter

LEMMA StartPlanningKeeps ==
    ASSUME IntakeInv, NEW h \in Handlers, StartPlanning(h)
    PROVE  IntakeInv'
BY EnterKeeps DEF StartPlanning, At, Starting

LEMMA QueueRunKeeps ==
    ASSUME IntakeInv, NEW h \in Handlers, QueueRun(h)
    PROVE  IntakeInv'
BY EnterKeeps DEF QueueRun, At, Starting

LEMMA RecordPlanKeeps ==
    ASSUME IntakeInv, NEW h \in Handlers, RecordPlan(h)
    PROVE  IntakeInv'
<1>1. th[h].pc = "record" /\ th[h].pc \in Starting
    BY DEF RecordPlan, At, Starting
<1>2. /\ FrameOK(th[h], runs, bound, recipes)
      /\ th[h].run \in DOMAIN runs /\ RunOK(runs[th[h].run], recipes)
      /\ runs[th[h].run].state = "PLANNING"
    BY <1>1, StartingFrame
<1>3. BoundsInv' /\ UNCHANGED <<recipes, fin, bound>>
    BY DEF IntakeInv, BoundsInv, RecordPlan, envVars
<1>4. PICK p \in th[h].plan :
          \/ RecordRunPlan(th[h].run, [source |-> p.source, fp |-> p.fp,
                                       recipe |-> p.recipe, skipped |-> p.skipped])
          \/ UNCHANGED runs
    BY DEF RecordPlan
<1>5. PICK x : x = [th[h] EXCEPT !.pc = "create"]
    OBVIOUS
<1>6. th' = [th EXCEPT ![h] = x]
    BY <1>5 DEF RecordPlan, Goto
<1>7. /\ x.pc = "create" /\ x.run = th[h].run /\ x.plan \subseteq th[h].plan
      /\ x = [pc |-> x.pc, req |-> th[h].req, key |-> th[h].key, run |-> th[h].run,
              tree |-> x.tree, fp |-> x.fp, plan |-> x.plan]
    BY <1>2, <1>5 DEF FrameOK
<1>8. "create" \in Places \ {"idle", "ignored", "insert", "duplicate", "answered"}
    BY DEF Places, Working, Starting
<1>9. CASE RecordRunPlan(th[h].run, [source |-> p.source, fp |-> p.fp,
                                     recipe |-> p.recipe, skipped |-> p.skipped])
    <2>1. PICK row : row = [source |-> p.source, fp |-> p.fp, recipe |-> p.recipe, skipped |-> p.skipped]
        OBVIOUS
    <2>2. PICK y : y = [runs[th[h].run] EXCEPT !.plan = {row}]
        OBVIOUS
    <2>3. runs' = [runs EXCEPT ![th[h].run] = y]
        BY <1>9, <2>1, <2>2 DEF RecordRunPlan
    <2>4. PlanOK(p, recipes)
        BY <1>2 DEF FrameOK
    <2>5. RowOK(row, recipes)
        BY <2>1, <2>4 DEF PlanOK, RowOK
    <2>6. /\ RunOK(y, recipes) /\ y.state = "PLANNING"
          /\ y.sha = runs[th[h].run].sha /\ y.ref = runs[th[h].run].ref
        BY <1>2, <2>2, <2>5 DEF RunOK
    <2>7. RowStep(runs[th[h].run], y)
        BY <1>2, <2>6, StartingRow
    <2> QED
        BY <1>1, <1>3, <1>6, <1>7, <1>8, <2>3, <2>6, <2>7, HandlerWrites
<1>10. CASE UNCHANGED runs
    <2>1. Goto(h, "create") /\ th[h].pc \notin {"idle", "ignored"} /\ "create" \in Starting
        BY <1>1 DEF RecordPlan, Starting
    <2> QED
        BY <1>1, <1>3, <1>8, <1>10, <2>1, GotoMoves
<1> QED
    BY <1>4, <1>9, <1>10

LEMMA CreateJobsKeeps ==
    ASSUME IntakeInv, NEW h \in Handlers, CreateJobs(h)
    PROVE  IntakeInv'
<1>1. th[h].pc = "create" /\ th[h].pc \in Starting
    BY DEF CreateJobs, At, Starting
<1>2. /\ FrameOK(th[h], runs, bound, recipes)
      /\ th[h].run \in DOMAIN runs /\ RunOK(runs[th[h].run], recipes)
      /\ runs[th[h].run].state = "PLANNING"
    BY <1>1, StartingFrame
<1>3. BoundsInv' /\ UNCHANGED <<recipes, fin, bound>>
    BY DEF IntakeInv, BoundsInv, CreateJobs, envVars
<1>4. PICK made : runs' = [runs EXCEPT ![th[h].run].jobs = made]
    BY DEF CreateJobs
<1>5. PICK y : y = [runs[th[h].run] EXCEPT !.jobs = made]
    OBVIOUS
<1>6. runs' = [runs EXCEPT ![th[h].run] = y]
    BY <1>4, <1>5
<1>7. /\ RunOK(y, recipes) /\ y.state = "PLANNING"
      /\ y.sha = runs[th[h].run].sha /\ y.ref = runs[th[h].run].ref
    BY <1>2, <1>5 DEF RunOK
<1>8. RowStep(runs[th[h].run], y)
    BY <1>2, <1>7, StartingRow
<1>9. \/ GotoWith(h, [th[h] EXCEPT !.pc = "queue", !.tree = {}, !.fp = {}, !.plan = {}])
      \/ Goto(h, "failed")
    BY DEF CreateJobs
<1>10. PICK x : \/ x = [th[h] EXCEPT !.pc = "queue", !.tree = {}, !.fp = {}, !.plan = {}]
                   /\ th' = [th EXCEPT ![h] = x]
                \/ x = [th[h] EXCEPT !.pc = "failed"] /\ th' = [th EXCEPT ![h] = x]
    BY <1>9 DEF Goto, GotoWith
<1>11. /\ x.pc \in {"queue", "failed"} /\ x.run = th[h].run /\ x.plan \subseteq th[h].plan
       /\ x = [pc |-> x.pc, req |-> th[h].req, key |-> th[h].key, run |-> th[h].run,
               tree |-> x.tree, fp |-> x.fp, plan |-> x.plan]
    BY <1>2, <1>10 DEF FrameOK
<1>12. /\ x.pc \in Places \ {"idle", "ignored", "insert", "duplicate"} /\ x.pc # "start"
    BY <1>11 DEF Places, Working, Starting
<1>13. th' = [th EXCEPT ![h] = x]
    BY <1>10
<1> QED
    BY <1>1, <1>3, <1>6, <1>7, <1>8, <1>11, <1>12, <1>13, HandlerWrites

-----------------------------------------------------------------------------
(* The steps of runs and of finalizers. *)

\* A run that is past its start changes.
LEMMA RunMoves ==
    ASSUME IntakeInv, UNCHANGED <<recipes, bound, th>>,
           NEW r \in DOMAIN runs, runs[r].state \notin {"CREATED", "PLANNING"},
           NEW y, runs' = [runs EXCEPT ![r] = y], RunOK(y, recipes), RowStep(runs[r], y)
    PROVE  /\ RunsInv' /\ RecipesInv' /\ FramesInv' /\ BoundInv'
           /\ RunsStep(runs, runs') /\ RecipesStep(recipes, recipes')
           /\ DOMAIN runs' = DOMAIN runs /\ runs'[r] = y
<1>1. /\ RunsInv' /\ RunsStep(runs, runs') /\ DOMAIN runs' = DOMAIN runs
      /\ runs'[r] = y /\ \A q \in DOMAIN runs : q # r => runs'[q] = runs[q]
    BY RowChanges DEF IntakeInv
<1>2. RecipesInv' /\ RecipesStep(recipes, recipes') /\ BoundInv'
    BY <1>1, RecipesCarry, BoundCarry DEF IntakeInv
<1>3. \A h \in Handlers : th[h].pc \in Starting => runs'[th[h].run].state = runs[th[h].run].state
    <2> SUFFICES ASSUME NEW h \in Handlers, th[h].pc \in Starting
                 PROVE  runs'[th[h].run].state = runs[th[h].run].state
        OBVIOUS
    <2>1. th[h].run \in DOMAIN runs /\ th[h].run # r
        BY StartingFrame
    <2> QED
        BY <1>1, <2>1
<1>4. FramesInv'
    BY <1>1, <1>2, <1>3, FramesCarry DEF IntakeInv
<1> QED
    BY <1>1, <1>2, <1>4

LEMMA FinMoves ==
    ASSUME FinInv, RunsStep(runs, runs'), RecipesStep(recipes, recipes'),
           NEW f \in Finalizers, NEW x, fin' = [fin EXCEPT ![f] = x], FinOK(x, runs', recipes')
    PROVE  FinInv'
<1>1. \A g \in Finalizers : fin'[g] = IF g = f THEN x ELSE fin[g]
    BY DEF FinInv
<1>2. \A g \in Finalizers : g # f => FinOK(fin[g], runs', recipes')
    BY FinKept DEF FinInv
<1>3. fin' = [g \in Finalizers |-> fin'[g]]
    BY DEF FinInv
<1> QED
    BY <1>1, <1>2, <1>3 DEF FinInv

\* A finalizer moves and changes no row.
LEMMA OnlyFinMoves ==
    ASSUME IntakeInv, UNCHANGED <<runs, recipes, bound, th>>, BoundsInv',
           NEW f \in Finalizers, NEW x, fin' = [fin EXCEPT ![f] = x], FinOK(x, runs, recipes)
    PROVE  IntakeInv'
<1>1. RunsInv' /\ RunsStep(runs, runs') /\ RecipesInv' /\ RecipesStep(recipes, recipes')
    BY RunsCarry, RecipesCarry, NoStep DEF IntakeInv
<1>2. BoundInv' /\ FramesInv'
    BY <1>1, BoundCarry, FramesCarry DEF IntakeInv
<1>3. FinInv'
    BY <1>1, FinMoves DEF IntakeInv
<1> QED
    BY <1>1, <1>2, <1>3 DEF IntakeInv

LEMMA RestingIsGood == \A rs, rc : FinOK(Resting, rs, rc)
BY DEF Resting, FinOK

LEMMA RunExecutesKeeps ==
    ASSUME IntakeInv, NEW r \in DOMAIN runs, NEW ok \in BOOLEAN, RunExecutes(r, ok),
           UNCHANGED <<th, bound, deliveries, envVars>>
    PROVE  IntakeInv'
<1>1. RunOK(runs[r], recipes) /\ runs[r].state = "QUEUED"
    BY DEF IntakeInv, RunsInv, RunExecutes
<1>2. PICK y : y = [runs[r] EXCEPT !.state = "RUNNING", !.green = ok]
    OBVIOUS
<1>3. runs' = [runs EXCEPT ![r] = y]
    BY <1>2 DEF RunExecutes
<1>4. RunOK(y, recipes) /\ RowStep(runs[r], y)
    BY <1>1, <1>2 DEF RunOK, RunStates, RowStep, Executed, Succeeded
<1>5. BoundsInv' /\ UNCHANGED <<recipes, fin>>
    BY DEF IntakeInv, BoundsInv, RunExecutes, envVars
<1>6. /\ RunsInv' /\ RecipesInv' /\ FramesInv' /\ BoundInv'
      /\ RunsStep(runs, runs') /\ RecipesStep(recipes, recipes')
    BY <1>1, <1>3, <1>4, <1>5, RunMoves
<1>7. FinInv'
    BY <1>5, <1>6, FinCarry DEF IntakeInv
<1> QED
    BY <1>5, <1>6, <1>7 DEF IntakeInv

LEMMA RunIsCanceledKeeps ==
    ASSUME IntakeInv, NEW r \in DOMAIN runs, RunIsCanceled(r), UNCHANGED <<th, bound, deliveries, envVars>>
    PROVE  IntakeInv'
<1>1. RunOK(runs[r], recipes) /\ runs[r].state = "RUNNING"
    BY DEF IntakeInv, RunsInv, RunIsCanceled
<1>2. PICK y : y = [runs[r] EXCEPT !.state = "CANCEL_REQUESTED"]
    OBVIOUS
<1>3. runs' = [runs EXCEPT ![r] = y]
    BY <1>2 DEF RunIsCanceled, TransitionRunState
<1>4. RunOK(y, recipes) /\ RowStep(runs[r], y)
    BY <1>1, <1>2 DEF RunOK, RunStates, RowStep, Executed, Succeeded
<1>5. BoundsInv' /\ UNCHANGED <<recipes, fin>>
    BY DEF IntakeInv, BoundsInv, RunIsCanceled, envVars
<1>6. /\ RunsInv' /\ RecipesInv' /\ FramesInv' /\ BoundInv'
      /\ RunsStep(runs, runs') /\ RecipesStep(recipes, recipes')
    BY <1>1, <1>3, <1>4, <1>5, RunMoves
<1>7. FinInv'
    BY <1>5, <1>6, FinCarry DEF IntakeInv
<1> QED
    BY <1>5, <1>6, <1>7 DEF IntakeInv

LEMMA FinalizeReadKeeps ==
    ASSUME IntakeInv, NEW f \in Finalizers, NEW r \in DOMAIN runs, Finalize_Read(f, r),
           UNCHANGED <<th, bound, deliveries, envVars>>
    PROVE  IntakeInv'
<1>1. PICK x : x = [Resting EXCEPT !.pc = "verdict", !.run = r]
    OBVIOUS
<1>2. FinOK(x, runs, recipes)
    BY <1>1 DEF Finalize_Read, FinOK, Resting, Executed
<1>3. fin' = [fin EXCEPT ![f] = x] /\ BoundsInv' /\ UNCHANGED <<runs, recipes>>
    BY <1>1 DEF Finalize_Read, Moves, IntakeInv, BoundsInv, envVars
<1> QED
    BY <1>2, <1>3, OnlyFinMoves

\* A verdict is given to a running run, or given once more.
LEMMA VerdictRow ==
    ASSUME NEW x, NEW rc, RunOK(x, rc), NEW verdict,
           verdict = IF x.green THEN "SUCCESS" ELSE "FAILED", validateRunTransition(x.state, verdict),
           NEW told \in {verdict, "REPORTED"}, NEW y, y = [x EXCEPT !.state = told]
    PROVE  /\ RunOK(y, rc) /\ RowStep(x, y) /\ y.state \in Executed
           /\ x.state \notin {"CREATED", "PLANNING"}
           /\ verdict = "SUCCESS" => Succeeded(y)
<1>1. x.state \in RunStates /\ verdict \in runTransitions[x.state]
    BY DEF validateRunTransition
<1>2. x.state \in {"RUNNING", "SUCCESS", "FAILED", "PLAN_FAILED"}
    BY <1>1 DEF runTransitions, RunStates
<1>3. x.green \in BOOLEAN /\ told \in {"SUCCESS", "FAILED", "REPORTED"}
    BY DEF RunOK
<1>4. /\ y = [state |-> told, sha |-> x.sha, ref |-> x.ref, green |-> x.green, jobs |-> x.jobs, plan |-> x.plan]
      /\ y.state = told /\ y.sha = x.sha /\ y.ref = x.ref /\ y.green = x.green
      /\ y.jobs = x.jobs /\ y.plan = x.plan
    BY DEF RunOK
<1>5. RunOK(y, rc)
    BY <1>3, <1>4 DEF RunOK, RunStates
<1>6. x.state = "SUCCESS" /\ x.green => verdict = "SUCCESS"
    OBVIOUS
<1>7. RowStep(x, y)
    BY <1>2, <1>3, <1>4, <1>6 DEF RowStep, Executed, Succeeded, DiscoveredFor
<1>8. verdict = "SUCCESS" => Succeeded(y)
    BY <1>3, <1>4 DEF Succeeded
<1> QED
    BY <1>2, <1>3, <1>4, <1>5, <1>7, <1>8 DEF Executed

LEMMA FinalizeVerdictKeeps ==
    ASSUME IntakeInv, NEW f \in Finalizers, Finalize_Verdict(f), UNCHANGED <<th, bound, deliveries, envVars>>
    PROVE  IntakeInv'
<1>1. PICK r : r = fin[f].run
    OBVIOUS
<1>2. PICK verdict : verdict = IF runs[r].green THEN "SUCCESS" ELSE "FAILED"
    OBVIOUS
<1>3. FinOK(fin[f], runs, recipes) /\ fin[f].pc = "verdict" /\ r \in DOMAIN runs
    BY <1>1 DEF IntakeInv, FinInv, Finalize_Verdict, FinOK
<1>4. BoundsInv' /\ UNCHANGED recipes
    BY DEF Finalize_Verdict, IntakeInv, BoundsInv, envVars
<1>5. CASE Moves(f, Resting) /\ UNCHANGED runs
    BY <1>4, <1>5, RestingIsGood, OnlyFinMoves DEF Moves
<1>6. CASE /\ ReportedAs(r, verdict)
           /\ Moves(f, IF verdict = "SUCCESS" THEN [fin[f] EXCEPT !.pc = "persist"] ELSE Resting)
    <2>1. RunOK(runs[r], recipes) /\ validateRunTransition(runs[r].state, verdict)
        BY <1>3, <1>6 DEF IntakeInv, RunsInv, ReportedAs
    <2>2. PICK told \in {verdict, "REPORTED"} : runs' = [runs EXCEPT ![r].state = told]
        BY <1>6 DEF ReportedAs
    <2>3. PICK y : y = [runs[r] EXCEPT !.state = told]
        OBVIOUS
    <2>4. runs' = [runs EXCEPT ![r] = y]
        BY <2>2, <2>3
    <2>5. /\ RunOK(y, recipes) /\ RowStep(runs[r], y) /\ y.state \in Executed
          /\ runs[r].state \notin {"CREATED", "PLANNING"}
          /\ verdict = "SUCCESS" => Succeeded(y)
        <3>1. PICK x : x = runs[r]
            OBVIOUS
        <3> QED
            BY <1>2, <2>1, <2>3, <3>1, VerdictRow
    <2>6. /\ RunsInv' /\ RecipesInv' /\ FramesInv' /\ BoundInv'
          /\ RunsStep(runs, runs') /\ RecipesStep(recipes, recipes')
          /\ DOMAIN runs' = DOMAIN runs /\ runs'[r] = y
        BY <1>3, <1>4, <2>4, <2>5, RunMoves
    <2>7. PICK z : z = IF verdict = "SUCCESS" THEN [fin[f] EXCEPT !.pc = "persist"] ELSE Resting
        OBVIOUS
    <2>8. FinOK(z, runs', recipes')
        <3>1. CASE verdict = "SUCCESS"
            <4>1. /\ z = [pc |-> z.pc, run |-> z.run, row |-> z.row, recipe |-> z.recipe]
                  /\ z.pc = "persist" /\ z.run = r /\ z.recipe = fin[f].recipe
                BY <1>1, <1>3, <2>7, <3>1 DEF FinOK
            <4>2. z.recipe \subseteq DOMAIN recipes'
                BY <1>3, <1>4, <4>1 DEF FinOK
            <4> QED
                BY <1>3, <2>5, <2>6, <3>1, <4>1, <4>2 DEF FinOK
        <3>2. CASE verdict # "SUCCESS"
            BY <2>7, <3>2, RestingIsGood
        <3> QED
            BY <3>1, <3>2
    <2>9. fin' = [fin EXCEPT ![f] = z]
        BY <1>6, <2>7 DEF Moves
    <2>10. FinInv'
        BY <2>6, <2>8, <2>9, FinMoves DEF IntakeInv
    <2> QED
        BY <1>4, <2>6, <2>10 DEF IntakeInv
<1> QED
    BY <1>1, <1>2, <1>5, <1>6 DEF Finalize_Verdict

LEMMA PersistReadKeeps ==
    ASSUME IntakeInv, NEW f \in Finalizers, PersistRecipe_Read(f), UNCHANGED <<th, bound, deliveries, envVars>>
    PROVE  IntakeInv'
<1>1. FinOK(fin[f], runs, recipes) /\ fin[f].pc = "persist"
    BY DEF IntakeInv, FinInv, PersistRecipe_Read
<1>2. BoundsInv' /\ UNCHANGED <<runs, recipes>>
    BY DEF PersistRecipe_Read, IntakeInv, BoundsInv, envVars
<1>3. CASE Moves(f, Resting)
    BY <1>2, <1>3, RestingIsGood, OnlyFinMoves DEF Moves
<1>4. CASE \E row \in GetRunPlan(fin[f].run) :
              /\ row.source = "discovery" /\ row.fp # {}
              /\ Moves(f, [fin[f] EXCEPT !.pc = "create", !.row = {row}])
    <2>1. PICK row \in runs[fin[f].run].plan :
              /\ row.source = "discovery" /\ row.fp # {}
              /\ Moves(f, [fin[f] EXCEPT !.pc = "create", !.row = {row}])
        BY <1>4 DEF GetRunPlan
    <2>2. fin[f].run \in DOMAIN runs /\ RunOK(runs[fin[f].run], recipes)
        BY <1>1 DEF FinOK, IntakeInv, RunsInv
    <2>3. /\ row = [source |-> row.source, fp |-> row.fp, recipe |-> row.recipe, skipped |-> row.skipped]
          /\ DiscoveredFor(runs[fin[f].run], row.fp)
        BY <2>1, <2>2 DEF RunOK, RowOK, DiscoveredFor
    <2>4. PICK x : x = [fin[f] EXCEPT !.pc = "create", !.row = {row}]
        OBVIOUS
    <2>5. /\ x.pc = "create" /\ x.run = fin[f].run /\ x.row = {row} /\ x.recipe = fin[f].recipe
          /\ x = [pc |-> x.pc, run |-> x.run, row |-> x.row, recipe |-> x.recipe]
        BY <1>1, <2>4 DEF FinOK
    <2>6. FinOK(x, runs, recipes)
        BY <1>1, <2>1, <2>3, <2>5 DEF FinOK
    <2>7. fin' = [fin EXCEPT ![f] = x]
        BY <2>1, <2>4 DEF Moves
    <2> QED
        BY <1>2, <2>6, <2>7, OnlyFinMoves
<1> QED
    BY <1>3, <1>4 DEF PersistRecipe_Read

LEMMA PersistFindKeeps ==
    ASSUME IntakeInv, NEW f \in Finalizers, PersistRecipe_Find(f), UNCHANGED <<th, bound, deliveries, envVars>>
    PROVE  IntakeInv'
<1>1. FinOK(fin[f], runs, recipes) /\ fin[f].pc = "find"
    BY DEF IntakeInv, FinInv, PersistRecipe_Find
<1>2. BoundsInv' /\ UNCHANGED <<runs, recipes>>
    BY DEF PersistRecipe_Find, IntakeInv, BoundsInv, envVars
<1>3. PICK row \in fin[f].row : \E c \in FindRecipeByFingerprint(row.fp) :
          Moves(f, [fin[f] EXCEPT !.pc = "update", !.recipe = {c.id}])
    BY DEF PersistRecipe_Find
<1>4. PICK found \in FindRecipeByFingerprint(row.fp) :
          Moves(f, [fin[f] EXCEPT !.pc = "update", !.recipe = {found.id}])
    BY <1>3
<1>5. found.id \in DOMAIN recipes /\ recipes[found.id].fp = row.fp
    BY DEF FindRecipeByFingerprint
<1>6. PICK x : x = [fin[f] EXCEPT !.pc = "update", !.recipe = {found.id}]
    OBVIOUS
<1>7. /\ x.pc = "update" /\ x.run = fin[f].run /\ x.row = fin[f].row /\ x.recipe = {found.id}
      /\ x = [pc |-> x.pc, run |-> x.run, row |-> x.row, recipe |-> x.recipe]
    BY <1>1, <1>6 DEF FinOK
<1>8. FinOK(x, runs, recipes)
    BY <1>1, <1>3, <1>5, <1>7 DEF FinOK, Names
<1>9. fin' = [fin EXCEPT ![f] = x]
    BY <1>4, <1>6 DEF Moves
<1> QED
    BY <1>2, <1>8, <1>9, OnlyFinMoves

LEMMA FinalizeFailsKeeps ==
    ASSUME IntakeInv, NEW f \in Finalizers, Finalize_Fails(f), UNCHANGED <<th, bound, deliveries, envVars>>
    PROVE  IntakeInv'
<1>1. BoundsInv' /\ UNCHANGED <<runs, recipes>> /\ Moves(f, Resting)
    BY DEF Finalize_Fails, IntakeInv, BoundsInv, envVars
<1> QED
    BY <1>1, RestingIsGood, OnlyFinMoves DEF Moves

LEMMA PersistUpdateKeeps ==
    ASSUME IntakeInv, NEW f \in Finalizers, PersistRecipe_Update(f), UNCHANGED <<th, bound, deliveries, envVars>>
    PROVE  IntakeInv'
<1>1. PICK r : r = fin[f].run
    OBVIOUS
<1>2. FinOK(fin[f], runs, recipes) /\ fin[f].pc = "update" /\ r \in DOMAIN runs
    BY <1>1 DEF IntakeInv, FinInv, PersistRecipe_Update, FinOK
<1>3. BoundsInv' /\ UNCHANGED recipes /\ fin' = [fin EXCEPT ![f] = Resting]
    BY DEF PersistRecipe_Update, IntakeInv, BoundsInv, envVars, Moves
<1>4. PICK row \in fin[f].row : RecordRunPlan(r, [row EXCEPT !.recipe = fin[f].recipe])
    BY <1>1 DEF PersistRecipe_Update
<1>5. /\ row = [source |-> row.source, fp |-> row.fp, recipe |-> row.recipe, skipped |-> row.skipped]
      /\ row.source = "discovery" /\ DiscoveredFor(runs[r], row.fp)
      /\ Names(fin[f].recipe, row.fp, recipes)
      /\ runs[r].state \in Executed
    BY <1>1, <1>2 DEF FinOK
<1>6. PICK new : new = [row EXCEPT !.recipe = fin[f].recipe]
    OBVIOUS
<1>7. /\ new = [source |-> new.source, fp |-> new.fp, recipe |-> new.recipe, skipped |-> new.skipped]
      /\ new.source = "discovery" /\ new.fp = row.fp /\ new.recipe = fin[f].recipe
    BY <1>5, <1>6
<1>8. RowOK(new, recipes)
    BY <1>5, <1>7 DEF RowOK, Sources
<1>9. PICK y : y = [runs[r] EXCEPT !.plan = {new}]
    OBVIOUS
<1>10. runs' = [runs EXCEPT ![r] = y]
    BY <1>4, <1>6, <1>9 DEF RecordRunPlan
<1>11. RunOK(runs[r], recipes)
    BY <1>2 DEF IntakeInv, RunsInv
<1>12. /\ y.state = runs[r].state /\ y.sha = runs[r].sha /\ y.ref = runs[r].ref
       /\ y.green = runs[r].green /\ y.jobs = runs[r].jobs /\ y.plan = {new}
       /\ y = [state |-> y.state, sha |-> y.sha, ref |-> y.ref, green |-> y.green, jobs |-> y.jobs, plan |-> y.plan]
    BY <1>9, <1>11 DEF RunOK
<1>13. RunOK(y, recipes)
    BY <1>8, <1>11, <1>12 DEF RunOK
<1>14. \A fp : DiscoveredFor(runs[r], fp) => DiscoveredFor(y, fp)
    BY <1>5, <1>7, <1>11, <1>12 DEF RunOK, DiscoveredFor
<1>15. RowStep(runs[r], y) /\ runs[r].state \notin {"CREATED", "PLANNING"}
    BY <1>5, <1>12, <1>14 DEF RowStep, Succeeded, Executed
<1>16. /\ RunsInv' /\ RecipesInv' /\ FramesInv' /\ BoundInv'
       /\ RunsStep(runs, runs') /\ RecipesStep(recipes, recipes')
    BY <1>2, <1>3, <1>10, <1>13, <1>15, RunMoves
<1>17. FinInv'
    BY <1>3, <1>16, RestingIsGood, FinMoves DEF IntakeInv
<1> QED
    BY <1>3, <1>16, <1>17 DEF IntakeInv

LEMMA PersistCreateKeeps ==
    ASSUME IntakeInv, NEW f \in Finalizers, PersistRecipe_Create(f), UNCHANGED <<th, bound, deliveries, envVars>>
    PROVE  IntakeInv'
<1>1. PICK r : r = fin[f].run
    OBVIOUS
<1>2. FinOK(fin[f], runs, recipes) /\ fin[f].pc = "create" /\ r \in DOMAIN runs
    BY <1>1 DEF IntakeInv, FinInv, PersistRecipe_Create, FinOK
<1>3. BoundsInv' /\ UNCHANGED runs
    BY DEF PersistRecipe_Create, IntakeInv, BoundsInv, envVars
<1>4. PICK row \in fin[f].row :
          \/ /\ CreateRecipe(row.fp, buildRecipeJobs(r))
             /\ Moves(f, [fin[f] EXCEPT !.pc = "update", !.recipe = {Len(recipes) + 1}])
          \/ /\ Moves(f, [fin[f] EXCEPT !.pc = "find"])
             /\ UNCHANGED recipes
    BY <1>1 DEF PersistRecipe_Create
<1>5. CASE Moves(f, [fin[f] EXCEPT !.pc = "find"]) /\ UNCHANGED recipes
    <2>1. PICK x : x = [fin[f] EXCEPT !.pc = "find"]
        OBVIOUS
    <2>2. FinOK(x, runs, recipes)
        BY <1>2, <2>1 DEF FinOK
    <2> QED
        BY <1>3, <1>5, <2>1, <2>2, OnlyFinMoves DEF Moves
<1>6. CASE /\ CreateRecipe(row.fp, buildRecipeJobs(r))
           /\ Moves(f, [fin[f] EXCEPT !.pc = "update", !.recipe = {Len(recipes) + 1}])
    <2>1. PICK c : c = [fp |-> row.fp, jobs |-> runs[r].jobs]
        OBVIOUS
    <2>2. recipes' = Append(recipes, c) /\ \A i \in DOMAIN recipes : recipes[i].fp # row.fp
        BY <1>6, <2>1 DEF CreateRecipe, buildRecipeJobs, recipes_repo_fingerprint_version_idx
    <2>3. PICK n, rc : n = Len(recipes) + 1 /\ rc = recipes'
        OBVIOUS
    <2>4. /\ IsSequence(rc)
          /\ \A i \in DOMAIN recipes : i \in DOMAIN rc /\ rc[i] = recipes[i]
          /\ n \in DOMAIN rc /\ rc[n] = c
          /\ \A i \in DOMAIN rc : i \in DOMAIN recipes \/ i = n
        <3>1. rc = Append(recipes, c) /\ IsSequence(recipes)
            BY <2>2, <2>3 DEF IntakeInv, RecipesInv
        <3> QED
            BY <2>3, <3>1, AppendShape
    <2>5. RecipesStep(recipes, recipes')
        BY <2>3, <2>4 DEF RecipesStep
    <2>6. RunsInv' /\ RunsStep(runs, runs')
        BY <1>3, <2>5, RunsCarry DEF IntakeInv
    <2>7. FramesInv' /\ BoundInv'
        BY <1>3, <2>5, <2>6, FramesCarry, BoundCarry DEF IntakeInv
    <2>8. \A w \in fin[f].row :
              /\ w = [source |-> w.source, fp |-> w.fp, recipe |-> w.recipe, skipped |-> w.skipped]
              /\ w.source = "discovery" /\ w.fp # {} /\ DiscoveredFor(runs[r], w.fp)
        BY <1>1, <1>2 DEF FinOK
    <2>9. Succeeded(runs[r]) /\ runs[r].state \in Executed
        BY <1>1, <1>2 DEF FinOK
    <2>10. RecipeOK(c, runs)
        BY <1>2, <2>1, <2>8, <2>9 DEF RecipeOK
    <2>11. RecipesInv'
        <3>1. \A i \in DOMAIN rc : RecipeOK(rc[i], runs')
            BY <1>3, <2>4, <2>10 DEF IntakeInv, RecipesInv
        <3>2. \A i, j \in DOMAIN rc : rc[i].fp = rc[j].fp => i = j
            BY <2>1, <2>2, <2>4 DEF IntakeInv, RecipesInv
        <3> QED
            BY <2>3, <2>4, <3>1, <3>2 DEF RecipesInv
    <2>12. PICK x : x = [fin[f] EXCEPT !.pc = "update", !.recipe = {n}]
        OBVIOUS
    <2>13. /\ x.pc = "update" /\ x.run = r /\ x.row = fin[f].row /\ x.recipe = {n}
           /\ x = [pc |-> x.pc, run |-> x.run, row |-> x.row, recipe |-> x.recipe]
        BY <1>1, <1>2, <2>12 DEF FinOK
    <2>14. \A a, b \in fin[f].row : a = b
        BY <1>2 DEF FinOK
    <2>15. \A w \in fin[f].row : Names({n}, w.fp, recipes')
        BY <2>1, <2>3, <2>4, <2>14 DEF Names
    <2>16. FinOK(x, runs', recipes')
        BY <1>2, <1>3, <2>3, <2>4, <2>8, <2>9, <2>13, <2>14, <2>15 DEF FinOK
    <2>17. fin' = [fin EXCEPT ![f] = x]
        BY <1>6, <2>3, <2>12 DEF Moves
    <2>18. FinInv'
        BY <2>5, <2>6, <2>16, <2>17, FinMoves DEF IntakeInv
    <2> QED
        BY <1>3, <2>6, <2>7, <2>11, <2>18 DEF IntakeInv
<1> QED
    BY <1>4, <1>5, <1>6

-----------------------------------------------------------------------------
(* The invariant holds. *)

LEMMA MoveCheckoutKeeps ==
    ASSUME IntakeInv, NEW tree, MoveCheckout(tree)
    PROVE  IntakeInv'
<1>1. BoundsInv' /\ UNCHANGED <<runs, recipes, fin, th, bound>>
    BY DEF MoveCheckout, IntakeInv, BoundsInv, recipeVars, envVars
<1> QED
    BY <1>1 DEF IntakeInv, RunsInv, RecipesInv, FinInv, FramesInv, BoundInv

LEMMA ExecutionKeeps ==
    ASSUME IntakeInv, Execution
    PROVE  IntakeInv'
<1>1. UNCHANGED <<th, bound, deliveries, envVars>>
    BY DEF Execution
<1>2. CASE \E r \in DOMAIN runs, ok \in BOOLEAN : workers /\ RunExecutes(r, ok)
    BY <1>1, <1>2, RunExecutesKeeps
<1>3. CASE \E r \in DOMAIN runs : RunIsCanceled(r)
    BY <1>1, <1>3, RunIsCanceledKeeps
<1>4. ASSUME NEW f \in Finalizers, FinalizeSteps(f)
      PROVE  IntakeInv'
    BY <1>1, <1>4, FinalizeReadKeeps, FinalizeVerdictKeeps, PersistReadKeeps, PersistCreateKeeps,
       PersistFindKeeps, PersistUpdateKeeps, FinalizeFailsKeeps DEF FinalizeSteps
<1> QED
    BY <1>2, <1>3, <1>4 DEF Execution

LEMMA IntakeStart == Init => IntakeInv
<1> SUFFICES ASSUME Init
             PROVE  IntakeInv
    OBVIOUS
<1>1. BoundsInv
    BY IntakeAssumption DEF Init, BoundsInv
<1>2. runs = <<>> /\ recipes = <<>> /\ fin = [f \in Finalizers |-> Resting] /\ bound = {}
      /\ th = [h \in Handlers |-> Idle]
    BY DEF Init, RecipesInit
<1>3. IsSequence(<<>>) /\ DOMAIN <<>> = {}
    BY EmptySeq DEF IsSequence
<1>4. RunsInv /\ RecipesInv /\ BoundInv
    BY <1>2, <1>3 DEF RunsInv, RecipesInv, BoundInv
<1>5. FinInv
    BY <1>2, RestingIsGood DEF FinInv
<1>6. FrameOK(Idle, runs, bound, recipes) /\ Idle.pc \notin Starting
    BY DEF Idle, FrameOK, Places, Working, Starting
<1>7. FramesInv
    BY <1>2, <1>3, <1>6 DEF FramesInv
<1> QED
    BY <1>1, <1>4, <1>5, <1>7 DEF IntakeInv

LEMMA IntakeStep == IntakeInv /\ [Next]_vars => IntakeInv'
<1> SUFFICES ASSUME IntakeInv, [Next]_vars
             PROVE  IntakeInv'
    OBVIOUS
<1>1. CASE UNCHANGED vars
    BY <1>1 DEF vars, recipeVars, envVars, IntakeInv, RunsInv, RecipesInv, FinInv, FramesInv, BoundInv, BoundsInv
<1>2. CASE \E h \in Handlers, q \in events : Webhook(h, q)
    BY <1>2, WebhookKeeps
<1>3. CASE \E h \in Handlers, r \in DOMAIN runs, k \in IdempotencyKeys : Rerun(h, r, k)
    BY <1>3, RerunKeeps
<1>4. ASSUME NEW h \in Handlers,
             \/ InsertRun(h) \/ AnswerDuplicate(h)
             \/ StartPlanning(h) \/ Discover(h) \/ Fingerprint(h) \/ Decide(h)
             \/ RecordPlan(h) \/ CreateJobs(h) \/ QueueRun(h)
             \/ CutOff(h)
      PROVE  IntakeInv'
    BY <1>4, InsertRunKeeps, AnswerDuplicateKeeps, StartPlanningKeeps, DiscoverKeeps, FingerprintKeeps,
       DecideKeeps, RecordPlanKeeps, CreateJobsKeeps, QueueRunKeeps, CutOffKeeps
<1>5. CASE \E tree \in upcoming : MoveCheckout(tree)
    BY <1>5, MoveCheckoutKeeps
<1>6. CASE Execution
    BY <1>6, ExecutionKeeps
<1> QED
    BY <1>1, <1>2, <1>3, <1>4, <1>5, <1>6 DEF Next

\* Intake and recipes, whatever the requests, their number and their order, the
\* checkouts, the faults and the finalizers are.
THEOREM IntakeInvariant == Spec => []IntakeInv
BY IntakeStart, IntakeStep, PTL DEF Spec

\* Every reference between rows and frames is to a row that exists, and a key
\* is one the requests can have: a rerun names one of at most as many runs as
\* there are requests (the foreign keys of migrations 0005, 0007 and 0010).
THEOREM IntakeTypeCorrect == Spec => []IntakeTypeOK
<1>1. IntakeInv => IntakeTypeOK
    <2> SUFFICES ASSUME IntakeInv
                 PROVE  IntakeTypeOK
        OBVIOUS
    <2>1. DOMAIN runs = 1 .. Len(runs) /\ Len(runs) \in Nat
        BY SequenceShape DEF IntakeInv, RunsInv
    <2>2. \A r \in DOMAIN runs :
              /\ runs[r].state \in RunStates
              /\ \A row \in runs[r].plan : row.source \in Sources /\ row.recipe \subseteq DOMAIN recipes
        BY DEF IntakeInv, RunsInv, RunOK, RowOK, Names
    <2>3. bound \subseteq Keys \X DOMAIN runs
        BY DEF IntakeInv, BoundInv, BoundOK
    <2>4. \A h \in Handlers : th[h].pc \in Places /\ th[h].run \in 0 .. Len(runs)
        <3>1. \A h \in Handlers : th[h].pc \in Places /\ (th[h].run = 0 \/ th[h].run \in DOMAIN runs)
            BY DEF IntakeInv, FramesInv, FrameOK
        <3> QED
            BY <2>1, <3>1
    <2>5. \A i \in DOMAIN recipes : recipes[i].fp # {}
        BY DEF IntakeInv, RecipesInv, RecipeOK
    <2>6. \A f \in Finalizers : fin[f].run \in 0 .. Len(runs) /\ fin[f].recipe \subseteq DOMAIN recipes
        BY <2>1 DEF IntakeInv, FinInv, FinOK
    <2> QED
        BY <2>2, <2>3, <2>4, <2>5, <2>6 DEF IntakeTypeOK, IntakeInv, BoundsInv
<1> QED
    BY <1>1, IntakeInvariant, PTL

\* A request is only ever answered with a run of its commit, a pull request
\* with one of its own, a rerun with another run than the one it reruns: the
\* key tells apart what must not be shared (ComputeEventKey).
THEOREM AnswersFit == Spec => []AnswerFitsRequest
<1>1. IntakeInv => AnswerFitsRequest
    <2> SUFFICES ASSUME IntakeInv, NEW h \in Answered
                 PROVE  /\ runs[th[h].run].sha = th[h].req.sha
                        /\ th[h].req.event = "pull_request" => runs[th[h].run].ref = th[h].req.ref
                        /\ th[h].req.event = "rerun" => th[h].run # th[h].key[2]
        BY DEF AnswerFitsRequest
    <2>1. h \in Handlers /\ th[h].pc = "answered"
        BY DEF Answered, At
    <2>2. KeyFits(th[h].key, th[h].req, runs) /\ <<th[h].key, th[h].run>> \in bound
        BY <2>1 DEF IntakeInv, FramesInv, FrameOK
    <2>3. PICK b \in bound : b = <<th[h].key, th[h].run>>
        BY <2>2
    <2>4. BoundOK(b, runs) /\ b[1] = th[h].key /\ b[2] = th[h].run
        BY <2>3 DEF IntakeInv, BoundInv
    <2> QED
        BY <2>2, <2>4 DEF KeyFits, BoundOK
<1> QED
    BY <1>1, IntakeInvariant, PTL

\* A recipe is the job list of a successful run that discovery planned for its
\* fingerprint (persistRecipeIfNeeded).
THEOREM RecipesAreGreen == Spec => []RecipeIsGreen
<1>1. IntakeInv => RecipeIsGreen
    BY DEF IntakeInv, RecipesInv, RecipeOK, RecipeIsGreen, Succeeded, DiscoveredFor
<1> QED
    BY <1>1, IntakeInvariant, PTL

\* The plan rows of one fingerprint name one recipe (PersistRecipe,
\* planFromRecipe).
THEOREM RecipesAlwaysAgree == Spec => []RecipesAgree
<1>1. IntakeInv => RecipesAgree
    <2> SUFFICES ASSUME IntakeInv, NEW r \in DOMAIN runs, NEW q \in DOMAIN runs,
                        NEW x \in runs[r].plan, NEW y \in runs[q].plan,
                        x.fp = y.fp, x.recipe # {}, y.recipe # {}
                 PROVE  x.recipe = y.recipe
        BY DEF RecipesAgree
    <2>1. Names(x.recipe, x.fp, recipes) /\ Names(y.recipe, y.fp, recipes)
        BY DEF IntakeInv, RunsInv, RunOK, RowOK
    <2> QED
        BY <2>1 DEF Names, IntakeInv, RecipesInv
<1> QED
    BY <1>1, IntakeInvariant, PTL

\* A recipe row is never rewritten or removed (CreateRecipe).
THEOREM RecipesAreKept == Spec => RecipeIsKept
<1>1. ASSUME IntakeInv, [Next]_vars
      PROVE  [\A i \in DOMAIN recipes : i \in DOMAIN recipes' /\ recipes'[i] = recipes[i]]_recipes
    <2>1. CASE UNCHANGED recipes
        BY <2>1
    <2>2. ASSUME NEW f \in Finalizers, PersistRecipe_Create(f)
          PROVE  UNCHANGED recipes \/ \E c : recipes' = Append(recipes, c)
        BY <2>2 DEF PersistRecipe_Create, CreateRecipe
    <2>3. CASE \E c : recipes' = Append(recipes, c)
        BY <2>3, AppendShape DEF IntakeInv, RecipesInv
    <2>4. CASE Execution
        BY <2>1, <2>2, <2>3, <2>4 DEF Execution, RunExecutes, RunIsCanceled, FinalizeSteps, Finalize_Read,
           Finalize_Verdict, PersistRecipe_Read, PersistRecipe_Find, PersistRecipe_Update, Finalize_Fails
    <2>5. ASSUME NEW h \in Handlers,
                 \/ InsertRun(h) \/ AnswerDuplicate(h)
                 \/ StartPlanning(h) \/ Discover(h) \/ Fingerprint(h) \/ Decide(h)
                 \/ RecordPlan(h) \/ CreateJobs(h) \/ QueueRun(h)
                 \/ CutOff(h)
          PROVE  UNCHANGED recipes
        BY <2>5 DEF InsertRun, AnswerDuplicate, StartPlanning, Discover, Fingerprint, Decide, RecordPlan,
           CreateJobs, QueueRun, CutOff, Enter, recipeVars
    <2>6. CASE \E h \in Handlers, q \in events : Webhook(h, q)
        BY <2>1, <2>6 DEF Webhook, recipeVars
    <2>7. CASE \E h \in Handlers, r \in DOMAIN runs, k \in IdempotencyKeys : Rerun(h, r, k)
        BY <2>1, <2>7 DEF Rerun, recipeVars
    <2>8. CASE \E tree \in upcoming : MoveCheckout(tree)
        BY <2>1, <2>8 DEF MoveCheckout, recipeVars
    <2>9. CASE UNCHANGED vars
        BY <2>1, <2>9 DEF vars, recipeVars
    <2> QED
        BY <1>1, <2>1, <2>4, <2>5, <2>6, <2>7, <2>8, <2>9 DEF Next
<1> QED
    BY <1>1, IntakeInvariant, PTL DEF Spec, RecipeIsKept

-----------------------------------------------------------------------------
(* Intake implements Idempotency. *)

Answers == {<<th[h].key, th[h].run>> : h \in Answered}

\* A handler that moves without answering changes no answer.
LEMMA AnswersKept ==
    ASSUME FramesInv, NEW h \in Handlers, NEW x, th' = [th EXCEPT ![h] = x],
           th[h].pc # "answered", x.pc # "answered"
    PROVE  Answers' = Answers
<1>1. \A g \in Handlers : th'[g] = IF g = h THEN x ELSE th[g]
    BY DEF FramesInv
<1>2. Answered' = Answered
    BY <1>1 DEF Answered, At
<1>3. \A g \in Answered : th'[g] = th[g]
    BY <1>1 DEF Answered, At
<1> QED
    BY <1>2, <1>3 DEF Answers

LEMMA AnswerIsAdded ==
    ASSUME FramesInv, NEW h \in Handlers, NEW x, th' = [th EXCEPT ![h] = x],
           th[h].pc # "answered", x.pc = "answered"
    PROVE  Answers' = Answers \union {<<x.key, x.run>>}
<1>1. \A g \in Handlers : th'[g] = IF g = h THEN x ELSE th[g]
    BY DEF FramesInv
<1>2. Answered' = Answered \union {h} /\ h \notin Answered
    BY <1>1 DEF Answered, At
<1>3. \A g \in Answered : th'[g] = th[g]
    BY <1>1 DEF Answered, At
<1>4. th'[h] = x
    BY <1>1
<1> QED
    BY <1>2, <1>3, <1>4 DEF Answers

\* What a step is to Idempotency: nothing, a new key, or an answer.
LEMMA Stutters ==
    ASSUME Len(runs') = Len(runs), bound' = bound, Answers' = Answers
    PROVE  UNCHANGED I!IVars
BY DEF I!IVars, Answers

LEMMA Binds ==
    ASSUME NEW k \in Keys, \A b \in bound : b[1] # k, Len(runs') = Len(runs) + 1,
           bound' = bound \union {<<k, Len(runs) + 1>>}, Answers' = Answers
    PROVE  I!INext
BY DEF I!INext, I!Bind, I!Bound, Answers

LEMMA Tells ==
    ASSUME NEW b \in bound, b[1] \in Keys, Len(runs') = Len(runs), bound' = bound,
           Answers' = Answers \union {b}
    PROVE  I!INext
BY DEF I!INext, I!Answer, Answers

LEMMA LenKept ==
    ASSUME RunsInv, DOMAIN runs' = DOMAIN runs, IsFunction(runs')
    PROVE  Len(runs') = Len(runs)
BY SameShape DEF RunsInv

\* Each action keeps the number of the runs, except InsertRun.
LEMMA LenSteps ==
    ASSUME RunsInv
    PROVE  /\ \A r, next : TransitionRunState(r, next) => Len(runs') = Len(runs)
           /\ \A r, row : RecordRunPlan(r, row) => Len(runs') = Len(runs)
           /\ \A r, made : runs' = [runs EXCEPT ![r].jobs = made] => Len(runs') = Len(runs)
           /\ \A r, verdict : ReportedAs(r, verdict) => Len(runs') = Len(runs)
           /\ \A r, ok : RunExecutes(r, ok) => Len(runs') = Len(runs)
<1>1. ASSUME NEW r, NEW next, TransitionRunState(r, next)
      PROVE  Len(runs') = Len(runs)
    BY <1>1, LenKept DEF TransitionRunState, IsFunction
<1>2. ASSUME NEW r, NEW row, RecordRunPlan(r, row)
      PROVE  Len(runs') = Len(runs)
    BY <1>2, LenKept DEF RecordRunPlan, IsFunction
<1>3. ASSUME NEW r, NEW made, runs' = [runs EXCEPT ![r].jobs = made]
      PROVE  Len(runs') = Len(runs)
    BY <1>3, LenKept DEF IsFunction
<1>4. ASSUME NEW r, NEW verdict, ReportedAs(r, verdict)
      PROVE  Len(runs') = Len(runs)
    BY <1>4, LenKept DEF ReportedAs, IsFunction
<1>5. ASSUME NEW r, NEW ok, RunExecutes(r, ok)
      PROVE  Len(runs') = Len(runs)
    BY <1>5, LenKept DEF RunExecutes, IsFunction
<1> QED
    BY <1>1, <1>2, <1>3, <1>4, <1>5

LEMMA ExecutionStutters ==
    ASSUME IntakeInv, Execution
    PROVE  UNCHANGED I!IVars
<1>1. Answers' = Answers /\ bound' = bound
    BY DEF Execution, Answers, Answered, At
<1>2. ASSUME NEW f \in Finalizers, FinalizeSteps(f)
      PROVE  Len(runs') = Len(runs)
    BY <1>2, LenSteps DEF IntakeInv, FinalizeSteps, Finalize_Read, Finalize_Verdict, PersistRecipe_Read,
       PersistRecipe_Create, PersistRecipe_Find, PersistRecipe_Update, Finalize_Fails
<1>3. Len(runs') = Len(runs)
    BY <1>2, LenSteps DEF IntakeInv, Execution, RunIsCanceled
<1> QED
    BY <1>1, <1>3, Stutters

\* The moves of a handler that neither creates a run nor answers.
LEMMA QuietHandlerStutters ==
    ASSUME IntakeInv, NEW h \in Handlers, Len(runs') = Len(runs), bound' = bound, th[h].pc # "answered",
           NEW x, th' = [th EXCEPT ![h] = x], x.pc # "answered"
    PROVE  UNCHANGED I!IVars
BY AnswersKept, Stutters DEF IntakeInv

LEMMA GotoPlace ==
    ASSUME IntakeInv, NEW h \in Handlers, NEW place
    PROVE  [th[h] EXCEPT !.pc = place].pc = place
BY DEF IntakeInv, FramesInv, FrameOK

LEMMA AnsweringImplements ==
    ASSUME IntakeInv, NEW h \in Handlers, th[h].pc # "answered", Len(runs') = Len(runs), bound' = bound,
           NEW x, th' = [th EXCEPT ![h] = x], x.pc = "answered",
           NEW b \in bound, x.key = b[1], x.run = b[2]
    PROVE  I!INext
<1>1. BoundOK(b, runs)
    BY DEF IntakeInv, BoundInv
<1>2. b[1] \in Keys /\ b = <<x.key, x.run>>
    BY <1>1 DEF BoundOK
<1>3. Answers' = Answers \union {b}
    BY <1>2, AnswerIsAdded DEF IntakeInv
<1> QED
    BY <1>2, <1>3, Tells

LEMMA InsertImplements ==
    ASSUME IntakeInv, NEW h \in Handlers, InsertRun(h)
    PROVE  I!INext \/ UNCHANGED I!IVars
<1>1. FrameOK(th[h], runs, bound, recipes) /\ th[h].pc = "insert"
    BY DEF IntakeInv, FramesInv, InsertRun, At
<1>2. CASE Goto(h, "duplicate") /\ UNCHANGED <<runs, bound>>
    <2>1. PICK x : x = [th[h] EXCEPT !.pc = "duplicate"]
        OBVIOUS
    <2>2. x.pc = "duplicate" /\ th' = [th EXCEPT ![h] = x]
        BY <1>2, <2>1, GotoPlace DEF Goto
    <2> QED
        BY <1>1, <1>2, <2>2, QuietHandlerStutters
<1>3. CASE /\ \A b \in bound : b[1] # th[h].key
           /\ runs' = Append(runs, newRun(th[h].req.sha, th[h].req.ref))
           /\ bound' = bound \union {<<th[h].key, Len(runs) + 1>>}
           /\ GotoWith(h, [th[h] EXCEPT !.pc = "start", !.run = Len(runs) + 1])
    <2>1. PICK x : x = [th[h] EXCEPT !.pc = "start", !.run = Len(runs) + 1]
        OBVIOUS
    <2>2. x.pc = "start" /\ th' = [th EXCEPT ![h] = x]
        BY <1>1, <1>3, <2>1 DEF GotoWith, FrameOK
    <2>3. Answers' = Answers
        BY <1>1, <2>2, AnswersKept DEF IntakeInv
    <2>4. Len(runs') = Len(runs) + 1
        <3>1. PICK y : y = newRun(th[h].req.sha, th[h].req.ref)
            OBVIOUS
        <3> QED
            BY <1>3, <3>1, AppendShape DEF IntakeInv, RunsInv
    <2>5. th[h].key \in Keys
        BY <1>1 DEF FrameOK
    <2> QED
        BY <1>3, <2>3, <2>4, <2>5, Binds
<1> QED
    BY <1>2, <1>3 DEF InsertRun

LEMMA AnswerDuplicateImplements ==
    ASSUME IntakeInv, NEW h \in Handlers, AnswerDuplicate(h)
    PROVE  I!INext
<1>1. /\ FrameOK(th[h], runs, bound, recipes) /\ th[h].pc = "duplicate"
      /\ Len(runs') = Len(runs) /\ bound' = bound
    BY DEF IntakeInv, FramesInv, AnswerDuplicate, At, recipeVars
<1>2. PICK b \in bound : b[1] = th[h].key /\ GotoWith(h, [th[h] EXCEPT !.pc = "answered", !.run = b[2]])
    BY DEF AnswerDuplicate
<1>3. PICK x : x = [th[h] EXCEPT !.pc = "answered", !.run = b[2]]
    OBVIOUS
<1>4. x.pc = "answered" /\ x.key = b[1] /\ x.run = b[2]
    BY <1>1, <1>2, <1>3 DEF FrameOK
<1>5. th' = [th EXCEPT ![h] = x]
    BY <1>2, <1>3 DEF GotoWith
<1> QED
    BY <1>1, <1>4, <1>5, AnsweringImplements

LEMMA EnterImplements ==
    ASSUME IntakeInv, NEW h \in Handlers, th[h].pc \in Starting,
           NEW next, NEW place \in {"discover", "answered"}, Enter(h, next, place)
    PROVE  I!INext \/ UNCHANGED I!IVars
<1>1. FrameOK(th[h], runs, bound, recipes) /\ th[h].pc # "answered"
    BY DEF IntakeInv, FramesInv, Starting
<1>2. Len(runs') = Len(runs) /\ bound' = bound
    BY LenSteps DEF Enter, IntakeInv
<1>3. PICK to \in {place, "failed"} : Goto(h, to)
    BY DEF Enter
<1>4. PICK x : x = [th[h] EXCEPT !.pc = to]
    OBVIOUS
<1>5. x.pc = to /\ x.key = th[h].key /\ x.run = th[h].run /\ th' = [th EXCEPT ![h] = x]
    BY <1>1, <1>3, <1>4 DEF Goto, FrameOK
<1>6. CASE to = "answered"
    <2>1. PICK b \in bound : b = <<th[h].key, th[h].run>>
        BY <1>1 DEF FrameOK
    <2> QED
        BY <1>1, <1>2, <1>5, <1>6, <2>1, AnsweringImplements
<1>7. CASE to # "answered"
    BY <1>1, <1>2, <1>5, <1>7, QuietHandlerStutters
<1> QED
    BY <1>6, <1>7

\* The steps of planning, and the request that ends early.
LEMMA PlanningStutters ==
    ASSUME IntakeInv, NEW h \in Handlers,
           Discover(h) \/ Fingerprint(h) \/ Decide(h) \/ RecordPlan(h) \/ CreateJobs(h) \/ CutOff(h)
    PROVE  UNCHANGED I!IVars
<1>1. FrameOK(th[h], runs, bound, recipes)
    BY DEF IntakeInv, FramesInv
<1>2. th[h].pc # "answered"
    BY DEF Discover, Fingerprint, Decide, RecordPlan, CreateJobs, CutOff, At, Working, Starting
<1>3. bound' = bound
    BY DEF Discover, Fingerprint, Decide, RecordPlan, CreateJobs, CutOff
<1>4. Len(runs') = Len(runs)
    BY LenSteps DEF IntakeInv, Discover, Fingerprint, Decide, RecordPlan, CreateJobs, CutOff, recipeVars
<1>5. CASE Discover(h)
    <2>1. PICK x : x = [th[h] EXCEPT !.pc = "fingerprint", !.tree = {checkout}]
        OBVIOUS
    <2>2. th' = [th EXCEPT ![h] = x] /\ x.pc # "answered"
        BY <1>1, <1>5, <2>1 DEF Discover, GotoWith, FrameOK
    <2> QED
        BY <1>2, <1>3, <1>4, <2>2, QuietHandlerStutters
<1>6. CASE Fingerprint(h)
    <2>1. PICK x : x = [th[h] EXCEPT !.pc = "lookup", !.fp = computeRepoFingerprint(checkout)]
        OBVIOUS
    <2>2. th' = [th EXCEPT ![h] = x] /\ x.pc # "answered"
        BY <1>1, <1>6, <2>1 DEF Fingerprint, GotoWith, FrameOK
    <2> QED
        BY <1>2, <1>3, <1>4, <2>2, QuietHandlerStutters
<1>7. CASE Decide(h)
    <2>1. PICK plan : th' = [th EXCEPT ![h] = [th[h] EXCEPT !.pc = "record", !.plan = plan]]
        BY <1>7 DEF Decide, GotoWith
    <2>2. PICK x : x = [th[h] EXCEPT !.pc = "record", !.plan = plan]
        OBVIOUS
    <2>3. th' = [th EXCEPT ![h] = x] /\ x.pc # "answered"
        BY <1>1, <2>1, <2>2 DEF FrameOK
    <2> QED
        BY <1>2, <1>3, <1>4, <2>3, QuietHandlerStutters
<1>8. CASE CreateJobs(h)
    <2>1. PICK x : /\ \/ x = [th[h] EXCEPT !.pc = "queue", !.tree = {}, !.fp = {}, !.plan = {}]
                      \/ x = [th[h] EXCEPT !.pc = "failed"]
                   /\ th' = [th EXCEPT ![h] = x]
        BY <1>8 DEF CreateJobs, GotoWith, Goto
    <2>2. th' = [th EXCEPT ![h] = x] /\ x.pc # "answered"
        BY <1>1, <2>1 DEF FrameOK
    <2> QED
        BY <1>2, <1>3, <1>4, <2>2, QuietHandlerStutters
<1>9. CASE RecordPlan(h) \/ CutOff(h)
    <2>1. PICK to \in {"create", "cut"} : Goto(h, to)
        BY <1>9 DEF RecordPlan, CutOff
    <2>2. PICK x : x = [th[h] EXCEPT !.pc = to]
        OBVIOUS
    <2>3. th' = [th EXCEPT ![h] = x] /\ x.pc # "answered"
        BY <1>1, <2>1, <2>2 DEF Goto, FrameOK
    <2> QED
        BY <1>2, <1>3, <1>4, <2>3, QuietHandlerStutters
<1> QED
    BY <1>5, <1>6, <1>7, <1>8, <1>9

LEMMA RequestStutters ==
    ASSUME IntakeInv, NEW h \in Handlers,
           \/ \E q \in events : Webhook(h, q)
           \/ \E r \in DOMAIN runs, k \in IdempotencyKeys : Rerun(h, r, k)
    PROVE  UNCHANGED I!IVars
<1>1. th[h].pc # "answered" /\ Len(runs') = Len(runs) /\ bound' = bound
    BY DEF Webhook, Rerun, At, recipeVars
<1>2. ASSUME NEW q \in events, Webhook(h, q)
      PROVE  UNCHANGED I!IVars
    <2>1. PICK x : x = IF TriggersRun(q)
                       THEN [Idle EXCEPT !.pc = "insert", !.req = q, !.key = ComputeEventKey(q)]
                       ELSE [Idle EXCEPT !.pc = "ignored", !.req = q]
        OBVIOUS
    <2>2. th' = [th EXCEPT ![h] = x]
        BY <1>2, <2>1 DEF Webhook, GotoWith
    <2>3. x.pc # "answered"
        BY <2>1 DEF Idle
    <2> QED
        BY <1>1, <2>2, <2>3, QuietHandlerStutters
<1>3. ASSUME NEW r \in DOMAIN runs, NEW k \in IdempotencyKeys, Rerun(h, r, k)
      PROVE  UNCHANGED I!IVars
    <2>1. PICK q : q = [event |-> "rerun", action |-> "none", sha |-> runs[r].sha, ref |-> runs[r].ref]
        OBVIOUS
    <2>2. PICK x : x = [Idle EXCEPT !.pc = "insert", !.key = RerunKey(r, k), !.req = q]
        OBVIOUS
    <2>3. th' = [th EXCEPT ![h] = x]
        BY <1>3, <2>1, <2>2 DEF Rerun, GotoWith
    <2>4. x.pc # "answered"
        BY <2>2 DEF Idle
    <2> QED
        BY <1>1, <2>3, <2>4, QuietHandlerStutters
<1> QED
    BY <1>2, <1>3

\* However often and however concurrently a request is delivered, one run is
\* created for its key, in the transaction that binds it, and every answer
\* names it (CreateRunWithTrigger, CreateRunWithRerun).
THEOREM IntakeImplementsIdempotency == Spec => ImplementsIdempotency
<1>1. Init => I!IInit
    BY DEF Init, RecipesInit, I!IInit, Answered, At, Idle
<1>2. ASSUME IntakeInv, [Next]_vars
      PROVE  [I!INext]_(I!IVars)
    <2>1. CASE UNCHANGED vars
        <3>1. Len(runs') = Len(runs) /\ bound' = bound /\ Answers' = Answers
            BY <2>1 DEF vars, recipeVars, Answers, Answered, At
        <3> QED
            BY <3>1, Stutters
    <2>2. ASSUME NEW h \in Handlers,
                 \/ InsertRun(h) \/ AnswerDuplicate(h)
                 \/ StartPlanning(h) \/ Discover(h) \/ Fingerprint(h) \/ Decide(h)
                 \/ RecordPlan(h) \/ CreateJobs(h) \/ QueueRun(h)
                 \/ CutOff(h)
          PROVE  I!INext \/ UNCHANGED I!IVars
        BY <1>2, <2>2, InsertImplements, AnswerDuplicateImplements, EnterImplements, PlanningStutters
           DEF StartPlanning, QueueRun, At, Starting
    <2>3. CASE \/ \E h \in Handlers, q \in events : Webhook(h, q)
               \/ \E h \in Handlers, r \in DOMAIN runs, k \in IdempotencyKeys : Rerun(h, r, k)
        BY <1>2, <2>3, RequestStutters
    <2>4. CASE \E tree \in upcoming : MoveCheckout(tree)
        <3>1. Len(runs') = Len(runs) /\ bound' = bound /\ Answers' = Answers
            BY <2>4 DEF MoveCheckout, recipeVars, Answers, Answered, At
        <3> QED
            BY <3>1, Stutters
    <2>5. CASE Execution
        BY <1>2, <2>5, ExecutionStutters
    <2> QED
        BY <1>2, <2>1, <2>2, <2>3, <2>4, <2>5 DEF Next
<1> QED
    BY <1>1, <1>2, IntakeInvariant, PTL DEF Spec, ImplementsIdempotency

(***************************************************************************)
(* The plans that the handlers make.                                       *)
(***************************************************************************)
-----------------------------------------------------------------------------
(* What is wanted of a plan and of its jobs *)

DirFits(dir, tree) == IF Boundaries(tree) = {} THEN dir = <<>> ELSE dir \in Boundaries(tree)

\* The jobs fit every checkout of the fingerprint.
JobsFit(jobs, fp) ==
    \A tree \in Trees : computeRepoFingerprint(tree) = fp => \A j \in jobs : DirFits(j.dir, tree)

\* The plan builds and tests what paths may break in tree, and nothing needless.
MeetsChange(p, tree, paths) ==
    /\ \A d \in Demanded(tree, paths) :
          /\ Covers(p.jobs, d, "build")
          /\ (\E q \in paths : ~isDocsPath(q)) => Covers(p.jobs, d, "test")
    /\ ImpactKnown(tree, paths) => \A j \in p.jobs : j.dir \in Affected(tree, paths)

-----------------------------------------------------------------------------
(* The jobs of one project, and of several *)

\* tlapm does not tell a name of one part from a name of two by itself.
LEMMA NamesDiffer ==
    ASSUME NEW a, NEW b, NEW c, NEW d
    PROVE  /\ <<a>> # <<b, c>>
           /\ <<a>> = <<b>> <=> a = b
           /\ <<a, b>> = <<c, d>> <=> a = c /\ b = d
<1>1. Len(<<a>>) = 1 /\ Len(<<b, c>>) = 2
    OBVIOUS
<1>2. <<a>>[1] = a /\ <<b>>[1] = b
    OBVIOUS
<1>3. <<a, b>>[1] = a /\ <<a, b>>[2] = b /\ <<c, d>>[1] = c /\ <<c, d>>[2] = d
    OBVIOUS
<1> QED
    BY <1>1, <1>2, <1>3

\* A job of the project in the directory root.
JobIs(j, project, root) ==
    /\ j = [name |-> j.name, base |-> j.base, dir |-> j.dir, required |-> j.required, deps |-> j.deps]
    /\ j.base \in {"build", "test", "lint"} /\ j.dir = root /\ j.required = (j.base # "lint")
    /\ j.name = jobNameForProject(j.base, project, root)
    /\ j.deps = IF j.base = "build" THEN {} ELSE {jobNameForProject("build", project, root)}

LEMMA JobsShape ==
    ASSUME NEW project, NEW root, NEW docsOnly
    PROVE  /\ \A j \in jobsForProject(project, root, docsOnly) : JobIs(j, project, root)
           /\ \E j \in jobsForProject(project, root, docsOnly) : j.base = "build"
           /\ ~docsOnly => \E j \in jobsForProject(project, root, docsOnly) : j.base = "test"
<1> DEFINE named(base) == jobNameForProject(base, project, root)
<1>1. PICK b : b = [name |-> named("build"), base |-> "build", dir |-> root, required |-> TRUE, deps |-> {}]
    OBVIOUS
<1>2. PICK t : t = [name |-> named("test"), base |-> "test", dir |-> root, required |-> TRUE,
                    deps |-> {named("build")}]
    OBVIOUS
<1>3. PICK l : l = [name |-> named("lint"), base |-> "lint", dir |-> root, required |-> FALSE,
                    deps |-> {named("build")}]
    OBVIOUS
<1>4. jobsForProject(project, root, docsOnly) = {b} \union IF docsOnly THEN {} ELSE {t, l}
    BY <1>1, <1>2, <1>3 DEF jobsForProject
<1>5. JobIs(b, project, root) /\ b.base = "build"
    BY <1>1 DEF JobIs
<1>6. JobIs(t, project, root) /\ t.base = "test"
    BY <1>2 DEF JobIs
<1>7. JobIs(l, project, root)
    BY <1>3 DEF JobIs
<1> QED
    BY <1>4, <1>5, <1>6, <1>7

\* Only the root project may have the root directory.
JobName(base, project) == IF project = <<"root">> THEN <<base>> ELSE <<base, project>>

LEMMA JobNameShape ==
    ASSUME NEW project, NEW root, root = <<>> => project = <<"root">>, NEW base
    PROVE  jobNameForProject(base, project, root) = JobName(base, project)
BY DEF jobNameForProject, JobName

LEMMA JobNamesDiffer ==
    ASSUME NEW a, NEW b, NEW t, NEW u, JobName(a, t) = JobName(b, u)
    PROVE  a = b /\ t = u
<1>1. CASE t = <<"root">> /\ u = <<"root">>
    BY <1>1, NamesDiffer DEF JobName
<1>2. CASE t = <<"root">> /\ u # <<"root">>
    BY <1>2, NamesDiffer DEF JobName
<1>3. CASE t # <<"root">> /\ u = <<"root">>
    BY <1>3, NamesDiffer DEF JobName
<1>4. CASE t # <<"root">> /\ u # <<"root">>
    BY <1>4, NamesDiffer DEF JobName
<1> QED
    BY <1>1, <1>2, <1>3, <1>4

\* The jobs of several projects make a plan whose jobs can be created.
LEMMA JobsOfProjects ==
    ASSUME NEW targets, NEW ps, \A t \in targets : projectRoot(ps, t) = <<>> => t = <<"root">>,
           NEW docsOnly, NEW jobs,
           \A t \in targets : jobsForProject(t, projectRoot(ps, t), docsOnly) \subseteq jobs,
           \A j \in jobs : \E t \in targets : j \in jobsForProject(t, projectRoot(ps, t), docsOnly)
    PROVE  /\ Creatable(jobs)
           /\ \A j \in jobs : \E t \in targets : j.dir = projectRoot(ps, t)
<1>1. ASSUME NEW j \in jobs
      PROVE  \E t \in targets : j \in jobsForProject(t, projectRoot(ps, t), docsOnly) /\ JobIs(j, t, projectRoot(ps, t))
    BY <1>1, JobsShape
<1>2. ASSUME NEW t \in targets, NEW base
      PROVE  jobNameForProject(base, t, projectRoot(ps, t)) = JobName(base, t)
    <2>1. PICK d : d = projectRoot(ps, t)
        OBVIOUS
    <2> QED
        BY <2>1, JobNameShape
<1>3. ASSUME NEW i \in jobs, NEW j \in jobs, i.name = j.name
      PROVE  i = j
    <2>1. PICK t \in targets : JobIs(i, t, projectRoot(ps, t))
        BY <1>1
    <2>2. PICK u \in targets : JobIs(j, u, projectRoot(ps, u))
        BY <1>1
    <2>3. i.name = JobName(i.base, t) /\ j.name = JobName(j.base, u)
        BY <1>2, <2>1, <2>2 DEF JobIs
    <2>4. i.base = j.base /\ t = u
        <3>1. PICK a, b : a = i.base /\ b = j.base
            OBVIOUS
        <3>2. JobName(a, t) = JobName(b, u)
            BY <1>3, <2>3, <3>1
        <3>3. a = b /\ t = u
            BY <3>2, JobNamesDiffer
        <3> QED
            BY <3>1, <3>3
    <2> QED
        BY <1>3, <2>1, <2>2, <2>4 DEF JobIs
<1>4. ASSUME NEW i \in jobs
      PROVE  i.deps \subseteq {j.name : j \in jobs} \ {i.name}
    <2>1. PICK t \in targets : JobIs(i, t, projectRoot(ps, t))
        BY <1>1
    <2>2. PICK j \in jobsForProject(t, projectRoot(ps, t), docsOnly) : JobIs(j, t, projectRoot(ps, t)) /\ j.base = "build"
        <3>1. PICK d : d = projectRoot(ps, t)
            OBVIOUS
        <3> QED
            BY <3>1, JobsShape
    <2>3. j \in jobs /\ j.name = JobName("build", t) /\ i.name = JobName(i.base, t)
        BY <1>2, <2>1, <2>2 DEF JobIs
    <2>4. i.base # "build" => i.name # j.name
        BY <2>3, JobNamesDiffer
    <2>5. i.deps \subseteq {j.name} /\ (i.base = "build" => i.deps = {})
        BY <2>1, <2>2 DEF JobIs
    <2> QED
        BY <2>3, <2>4, <2>5
<1>5. \A j \in jobs : \E t \in targets : j.dir = projectRoot(ps, t)
    BY <1>1 DEF JobIs
<1> QED
    BY <1>3, <1>4, <1>5 DEF Creatable

-----------------------------------------------------------------------------
(* The plans *)

LEMMA TreesAreCheckouts == \A tree \in Trees : IsCheckout(tree)
BY IntakeAssumption DEF Trees

\* The module boundaries can be told from the fingerprint.
LEMMA FingerprintTells ==
    ASSUME NEW a, IsCheckout(a), NEW b, IsCheckout(b),
           computeRepoFingerprint(a) = computeRepoFingerprint(b), computeRepoFingerprint(a) # {}
    PROVE  Boundaries(a) = Boundaries(b)
<1>1. PICK x : x = [a EXCEPT !.mods = goMods(a)]
    OBVIOUS
<1>2. PICK y : y = [b EXCEPT !.mods = goMods(b)]
    OBVIOUS
<1>3. /\ x.readable = a.readable /\ x.work = a.work /\ x.uses = a.uses /\ x.mods = goMods(a)
      /\ y.readable = b.readable /\ y.work = b.work /\ y.uses = b.uses /\ y.mods = goMods(b)
    BY <1>1, <1>2 DEF IsCheckout
<1>4. x = y
    BY <1>1, <1>2 DEF computeRepoFingerprint
<1> QED
    BY <1>3, <1>4 DEF Boundaries

\* The jobs that discovery plans can be created, and fit the checkout.
LEMMA PlanForGoFits ==
    ASSUME NEW tree, IsCheckout(tree), NEW go, go = discoverGoProjects(tree),
           NEW paths, NEW fp, NEW plan,
           plan = planForGo(analyzeImpact(paths, go.projects, go.unknown), go.projects, fp)
    PROVE  Creatable(plan.jobs) /\ \A j \in plan.jobs : DirFits(j.dir, tree)
<1>1. ProjectsOK(tree, go.projects)
    BY DiscoveryIsExact
<1>2. PICK ps : ps = go.projects
    OBVIOUS
<1>3. PICK impact, docs : impact = analyzeImpact(paths, go.projects, go.unknown) /\ docs = impact.docsOnly
    OBVIOUS
<1>4. impact.impacted \subseteq projectNames(ps)
    BY <1>1, <1>2, <1>3, ImpactedAreNames DEF ProjectsOK
<1>5. PICK targets :
          /\ targets = CASE impact.impacted # {}                   -> impact.impacted
                         [] impact.impacted = {} /\ ps # <<>>      -> projectNames(ps)
                         [] OTHER                                  -> {<<"root">>}
    OBVIOUS
<1>6. PICK jobs :
          /\ jobs = plan.jobs
          /\ \A t \in targets : jobsForProject(t, projectRoot(ps, t), docs) \subseteq jobs
          /\ \A j \in jobs : \E t \in targets : j \in jobsForProject(t, projectRoot(ps, t), docs)
    <2>1. plan = planForGo(impact, ps, fp)
        BY <1>2, <1>3
    <2>2. plan.jobs = UNION {jobsForProject(t, projectRoot(ps, t), impact.docsOnly) : t \in targets}
        BY <1>5, <2>1 DEF planForGo
    <2>3. plan.jobs = UNION {jobsForProject(t, projectRoot(ps, t), docs) : t \in targets}
        BY <1>3, <2>2
    <2>4. /\ \A t \in targets : jobsForProject(t, projectRoot(ps, t), docs) \subseteq plan.jobs
          /\ \A j \in plan.jobs : \E t \in targets : j \in jobsForProject(t, projectRoot(ps, t), docs)
        BY <2>3
    <2> QED
        BY <2>4
<1>7. projectNames(ps) = {projectNameFromRoot(d) : d \in Boundaries(tree)}
    BY <1>1, <1>2, NamesAreOfBoundaries
<1>8. CASE targets \subseteq projectNames(ps)
    <2>1. \A t \in targets :
              projectRoot(ps, t) \in Boundaries(tree) /\ projectNameFromRoot(projectRoot(ps, t)) = t
        BY <1>1, <1>2, <1>8, ProjectRootShape
    <2>2. \A t \in targets : projectRoot(ps, t) = <<>> => t = <<"root">>
        BY <2>1 DEF projectNameFromRoot
    <2>3. Creatable(jobs) /\ \A j \in jobs : \E t \in targets : j.dir = projectRoot(ps, t)
        BY <1>6, <2>2, JobsOfProjects
    <2> QED
        BY <1>6, <2>1, <2>3 DEF DirFits
<1>9. CASE targets = {<<"root">>} /\ ps = <<>>
    <2>1. projectNames(ps) = {}
        BY <1>9 DEF projectNames, ToSet
    <2>2. Boundaries(tree) = {}
        BY <1>7, <2>1
    <2>3. projectRoot(ps, <<"root">>) = <<>>
        BY <1>9 DEF projectRoot
    <2>4. \A t \in targets : projectRoot(ps, t) = <<>> /\ t = <<"root">>
        BY <1>9, <2>3
    <2>5. Creatable(jobs) /\ \A j \in jobs : \E t \in targets : j.dir = projectRoot(ps, t)
        BY <1>6, <2>4, JobsOfProjects
    <2> QED
        BY <1>6, <2>2, <2>4, <2>5 DEF DirFits
<1>10. targets \subseteq projectNames(ps) \/ (targets = {<<"root">>} /\ ps = <<>>)
    BY <1>4, <1>5
<1> QED
    BY <1>8, <1>9, <1>10

\* A plan of discovery is for what the change may break.
LEMMA PlanForGoAnswers ==
    ASSUME NEW tree, IsCheckout(tree), ModulesApart(tree), NEW go, go = discoverGoProjects(tree),
           NEW paths, paths # {}, \A q \in paths : IsSequence(q),
           NEW fp, NEW plan,
           plan = planForGo(analyzeImpact(paths, go.projects, go.unknown), go.projects, fp)
    PROVE  MeetsChange(plan, tree, paths)
<1>1. PICK impact : impact = analyzeImpact(paths, go.projects, go.unknown)
    OBVIOUS
<1>2. impact.docsOnly <=> \A q \in paths : isDocsPath(q)
    BY <1>1, AnalyzeImpactShape
<1>3. /\ \A d \in Demanded(tree, paths) :
             jobsForProject(projectNameFromRoot(d), d, impact.docsOnly) \subseteq plan.jobs
      /\ ImpactKnown(tree, paths) =>
             \A j \in plan.jobs : \E d \in Demanded(tree, paths) :
                 j \in jobsForProject(projectNameFromRoot(d), d, impact.docsOnly)
    BY <1>1, PlanForGoShape
<1>4. ASSUME NEW d \in Demanded(tree, paths)
      PROVE  /\ Covers(plan.jobs, d, "build")
             /\ (\E q \in paths : ~isDocsPath(q)) => Covers(plan.jobs, d, "test")
    <2>1. PICK name, docs : name = projectNameFromRoot(d) /\ docs = impact.docsOnly
        OBVIOUS
    <2>2. \A j \in jobsForProject(name, d, docs) : j.dir = d /\ (j.base # "lint" => j.required)
        <3>1. \A j \in jobsForProject(name, d, docs) : JobIs(j, name, d)
            BY JobsShape
        <3> QED
            BY <3>1 DEF JobIs
    <2>3. /\ \E j \in jobsForProject(name, d, docs) : j.base = "build"
          /\ ~docs => \E j \in jobsForProject(name, d, docs) : j.base = "test"
        BY JobsShape
    <2>4. jobsForProject(name, d, docs) \subseteq plan.jobs
        BY <1>3, <2>1
    <2> QED
        BY <1>2, <2>1, <2>2, <2>3, <2>4 DEF Covers
<1>5. ASSUME ImpactKnown(tree, paths), NEW j \in plan.jobs
      PROVE  j.dir \in Affected(tree, paths)
    <2>1. PICK d \in Affected(tree, paths) :
              j \in jobsForProject(projectNameFromRoot(d), d, impact.docsOnly)
        BY <1>3, <1>5 DEF Demanded
    <2>2. PICK name, docs : name = projectNameFromRoot(d) /\ docs = impact.docsOnly
        OBVIOUS
    <2>3. \A i \in jobsForProject(name, d, docs) : i.dir = d
        <3>1. \A i \in jobsForProject(name, d, docs) : JobIs(i, name, d)
            BY JobsShape
        <3> QED
            BY <3>1 DEF JobIs
    <2> QED
        BY <2>1, <2>2, <2>3
<1> QED
    BY <1>4, <1>5 DEF MeetsChange

LEMMA StaticFits == Creatable(StaticJobs)
<1>1. \A i, j \in StaticJobs : i.name = j.name => i = j
    <2>1. \A i \in StaticJobs : \E b \in {"build", "test", "lint"} :
              i = [name |-> <<b>>, base |-> b, dir |-> <<>>, required |-> b # "lint", deps |-> {}]
        BY DEF StaticJobs
    <2>2. \A a, b : <<a>> = <<b>> => a = b
        BY NamesDiffer
    <2> SUFFICES ASSUME NEW i \in StaticJobs, NEW j \in StaticJobs, i.name = j.name
                 PROVE  i = j
        OBVIOUS
    <2>3. PICK a :
              i = [name |-> <<a>>, base |-> a, dir |-> <<>>, required |-> a # "lint", deps |-> {}]
        BY <2>1
    <2>4. PICK b :
              j = [name |-> <<b>>, base |-> b, dir |-> <<>>, required |-> b # "lint", deps |-> {}]
        BY <2>1
    <2>5. i.name = <<a>> /\ j.name = <<b>>
        BY <2>3, <2>4
    <2> QED
        BY <2>2, <2>3, <2>4, <2>5
<1> QED
    BY <1>1 DEF Creatable, StaticJobs

\* What is true of every plan the planner makes.
LEMMA PlanIsGood ==
    ASSUME NEW tree \in Trees, NEW fp, NEW paths, \A q \in paths : IsSequence(q),
           NEW found, \A c \in found : Creatable(c.jobs),
           NEW p, p = Plan(tree, fp, found, paths)
    PROVE  /\ Creatable(p.jobs) /\ p.fp = fp
           /\ p.source = "discovery" /\ fp # {} /\ fp = computeRepoFingerprint(tree) => JobsFit(p.jobs, fp)
           /\ p.source = "discovery" /\ ModulesAreApart => MeetsChange(p, tree, paths)
           /\ p.source = "recipe" => \E c \in found : p.jobs = c.jobs
<1>1. IsCheckout(tree)
    BY TreesAreCheckouts
<1>2. CASE tree.config
    BY <1>2, StaticFits DEF Plan, staticPlan
<1>3. CASE ~tree.config /\ hasGo(tree) /\ found # {}
    <2>1. PICK c \in found : c = CHOOSE r \in found : TRUE
        BY <1>3
    <2>2. p = planFromRecipe(c, fp)
        BY <1>3, <2>1 DEF Plan
    <2> QED
        BY <2>2 DEF planFromRecipe
<1>4. CASE ~tree.config /\ hasGo(tree) /\ found = {} /\ paths # {}
    <2>1. PICK go : go = discoverGoProjects(tree)
        OBVIOUS
    <2>2. p = planForGo(analyzeImpact(paths, go.projects, go.unknown), go.projects, fp)
        BY <1>4, <2>1 DEF Plan
    <2>3. p.source = "discovery" /\ p.fp = fp
        BY <2>2 DEF planForGo
    <2>4. Creatable(p.jobs) /\ \A j \in p.jobs : DirFits(j.dir, tree)
        BY <1>1, <2>1, <2>2, PlanForGoFits
    <2>5. ModulesAreApart => MeetsChange(p, tree, paths)
        BY <1>1, <1>4, <2>1, <2>2, PlanForGoAnswers DEF ModulesAreApart
    <2>6. ASSUME fp # {}, fp = computeRepoFingerprint(tree)
          PROVE  JobsFit(p.jobs, fp)
        <3> SUFFICES ASSUME NEW other \in Trees, computeRepoFingerprint(other) = fp, NEW j \in p.jobs
                     PROVE  DirFits(j.dir, other)
            BY DEF JobsFit
        <3>1. Boundaries(other) = Boundaries(tree)
            BY <1>1, <2>6, TreesAreCheckouts, FingerprintTells
        <3> QED
            BY <2>4, <3>1 DEF DirFits
    <2> QED
        BY <2>3, <2>4, <2>5, <2>6
<1>5. CASE ~tree.config /\ (~hasGo(tree) \/ (found = {} /\ paths = {}))
    <2>1. p = staticPlan("fallback", fp)
        BY <1>5 DEF Plan
    <2> QED
        BY <2>1, StaticFits DEF staticPlan
<1> QED
    BY <1>2, <1>3, <1>4, <1>5

-----------------------------------------------------------------------------
(* The inductive invariant, on top of IntakeInv.  A plan row is of the plan *)
(* whose jobs the run gets, and a recipe has the jobs of such a run: what   *)
(* discovery makes for a fingerprint stays with the fingerprint.            *)

FramePlanned(x, rs, cm, co) ==
    /\ x.pc \notin {"idle", "ignored"} => x.req.sha \in DOMAIN cm
    /\ x.tree \subseteq Trees /\ \A s, t \in x.tree : s = t
    /\ QuietCheckout /\ x.pc = "fingerprint" => \A t \in x.tree : t = co
    /\ QuietCheckout /\ x.pc = "lookup" => \A t \in x.tree : x.fp = computeRepoFingerprint(t)
    /\ \A p, q \in x.plan : p = q
    /\ \A p \in x.plan :
          /\ Creatable(p.jobs)
          /\ QuietCheckout /\ p.source = "discovery" /\ p.fp # {} => JobsFit(p.jobs, p.fp)
    /\ x.pc = "record" => \A p \in x.plan, t \in x.tree :
          /\ QuietCheckout /\ p.source = "recipe" => \A j \in p.jobs : DirFits(j.dir, t)
          /\ ModulesAreApart /\ p.source = "discovery" => MeetsChange(p, t, cm[x.req.sha])
    /\ x.pc \in Starting \ {"queue"} => rs[x.run].jobs = {}
    /\ x.pc \in Starting \ {"create", "queue"} => rs[x.run].plan = {}
    /\ x.pc = "create" => \A row \in rs[x.run].plan, p \in x.plan : row.source = p.source /\ row.fp = p.fp

RunPlanned(y, cm) ==
    /\ y.sha \in DOMAIN cm
    /\ Creatable(y.jobs)
    /\ QuietCheckout =>
          \A row \in y.plan : row.source = "discovery" /\ row.fp # {} => JobsFit(y.jobs, row.fp)

RecipePlanned(c) == Creatable(c.jobs) /\ (QuietCheckout => JobsFit(c.jobs, c.fp))

WorldInv ==
    /\ checkout \in Trees /\ upcoming \subseteq Trees
    /\ \A q \in events : q.sha \in DOMAIN commits
    /\ \A sha \in DOMAIN commits : \A p \in commits[sha] : IsSequence(p)

RunsPlanned == \A r \in DOMAIN runs : RunPlanned(runs[r], commits)

RecipesPlanned == \A i \in DOMAIN recipes : RecipePlanned(recipes[i])

FramesPlanned == \A h \in Handlers : FramePlanned(th[h], runs, commits, checkout)

PlansInv == WorldInv /\ RunsPlanned /\ RecipesPlanned /\ FramesPlanned /\ NobodyIsStranded

\* The places of a handler whose run may still have to be queued.
Beginning == Starting \union {"cut"}

Begun(y) == y.state \notin {"CREATED", "PLANNING"}

-----------------------------------------------------------------------------
(* What a step leaves alone *)

LEMMA FramePlannedKept ==
    ASSUME NEW x, NEW rs, NEW rs2, NEW cm, NEW co, NEW co2, FramePlanned(x, rs, cm, co),
           x.pc \in Starting => rs2[x.run] = rs[x.run],
           QuietCheckout /\ x.pc = "fingerprint" => co2 = co
    PROVE  FramePlanned(x, rs2, cm, co2)
<1>1. x.pc \in Starting \ {"queue"} => rs2[x.run].jobs = {}
    BY DEF FramePlanned
<1>2. x.pc \in Starting \ {"create", "queue"} => rs2[x.run].plan = {}
    BY DEF FramePlanned
<1>3. x.pc = "create" =>
          \A row \in rs2[x.run].plan, p \in x.plan : row.source = p.source /\ row.fp = p.fp
    BY DEF FramePlanned, Starting
<1> QED
    BY <1>1, <1>2, <1>3 DEF FramePlanned

\* One handler moves; it may change the run it starts, or add one.
LEMMA OneHandlerMoves ==
    ASSUME IntakeInv, PlansInv, UNCHANGED <<recipes, commits, events, checkout, upcoming>>,
           NEW h \in Handlers, NEW x, th' = [th EXCEPT ![h] = x],
           FramePlanned(x, runs', commits, checkout),
           \A r \in DOMAIN runs' : RunPlanned(runs'[r], commits),
           \A r \in DOMAIN runs' : r \in DOMAIN runs /\ r # th[h].run => runs'[r] = runs[r],
           \A r \in DOMAIN runs' : ~Begun(runs'[r]) =>
               \/ x.run = r /\ x.pc \in Beginning
               \/ r \in DOMAIN runs /\ r # th[h].run,
           \A g \in Handlers \ {h} :
               th[g].pc \in Starting => th[g].run \in DOMAIN runs' /\ runs'[th[g].run] = runs[th[g].run]
    PROVE  PlansInv'
<1>1. \A g \in Handlers : th'[g] = IF g = h THEN x ELSE th[g]
    BY DEF IntakeInv, FramesInv
<1>2. FramesPlanned'
    <2> SUFFICES ASSUME NEW g \in Handlers
                 PROVE  FramePlanned(th'[g], runs', commits, checkout)
        BY DEF FramesPlanned
    <2>1. CASE g = h
        BY <1>1, <2>1
    <2>2. CASE g # h
        <3>1. FramePlanned(th[g], runs, commits, checkout)
            BY DEF PlansInv, FramesPlanned
        <3>2. FramePlanned(th[g], runs', commits, checkout)
            BY <2>2, <3>1, FramePlannedKept
        <3> QED
            BY <1>1, <2>2, <3>2
    <2> QED
        BY <2>1, <2>2
<1>3. NobodyIsStranded'
    <2> SUFFICES ASSUME NEW r \in DOMAIN runs', ~Begun(runs'[r])
                 PROVE  \E g \in Handlers : th'[g].run = r /\ th'[g].pc \in Beginning
        BY DEF NobodyIsStranded, Begun, Beginning, At
    <2>1. CASE x.run = r /\ x.pc \in Beginning
        BY <1>1, <2>1
    <2>2. CASE r \in DOMAIN runs /\ r # th[h].run
        <3>1. ~Begun(runs[r])
            BY <2>2
        <3>2. PICK g \in Handlers : th[g].run = r /\ th[g].pc \in Beginning
            BY <2>2, <3>1 DEF PlansInv, NobodyIsStranded, Begun, Beginning
        <3>3. g # h /\ th'[g] = th[g]
            BY <1>1, <2>2, <3>2
        <3> QED
            BY <3>2, <3>3
    <2> QED
        BY <2>1, <2>2
<1> QED
    BY <1>2, <1>3 DEF PlansInv, WorldInv, RunsPlanned, RecipesPlanned

\* One handler moves and the runs stay.
LEMMA OneHandlerGoesOn ==
    ASSUME IntakeInv, PlansInv, UNCHANGED <<runs, recipes, commits, events, checkout, upcoming>>,
           NEW h \in Handlers, NEW x, th' = [th EXCEPT ![h] = x],
           FramePlanned(x, runs, commits, checkout),
           th[h].pc \in Beginning => x.pc \in Beginning /\ x.run = th[h].run
    PROVE  PlansInv'
<1>1. \A r \in DOMAIN runs : ~Begun(runs[r]) => \E g \in Handlers : th[g].run = r /\ th[g].pc \in Beginning
    BY DEF PlansInv, NobodyIsStranded, Begun, Beginning
<1>2. \A g \in Handlers : th'[g] = IF g = h THEN x ELSE th[g]
    BY DEF IntakeInv, FramesInv
<1>3. NobodyIsStranded'
    <2> SUFFICES ASSUME NEW r \in DOMAIN runs, ~Begun(runs[r])
                 PROVE  \E g \in Handlers : th'[g].run = r /\ th'[g].pc \in Beginning
        BY DEF NobodyIsStranded, Begun, Beginning
    <2>1. PICK g \in Handlers : th[g].run = r /\ th[g].pc \in Beginning
        BY <1>1
    <2> QED
        BY <1>2, <2>1
<1>4. FramesPlanned'
    BY <1>2 DEF PlansInv, FramesPlanned
<1> QED
    BY <1>3, <1>4 DEF PlansInv, WorldInv, RunsPlanned, RecipesPlanned

\* The handlers stay, the checkout too, and a run past its start changes.
LEMMA OneRunMoves ==
    ASSUME IntakeInv, PlansInv, UNCHANGED <<commits, events, checkout, upcoming, th>>,
           DOMAIN runs' = DOMAIN runs,
           NEW r \in DOMAIN runs, Begun(runs[r]),
           \A q \in DOMAIN runs : q # r => runs'[q] = runs[q],
           Begun(runs'[r]), RunPlanned(runs'[r], commits),
           \A i \in DOMAIN recipes' : RecipePlanned(recipes'[i])
    PROVE  PlansInv'
<1>1. \A h \in Handlers : th[h].pc \in Starting => th[h].run \in DOMAIN runs /\ ~Begun(runs[th[h].run])
    BY DEF IntakeInv, FramesInv, FrameOK, Begun
<1>2. \A h \in Handlers : th[h].pc \in Starting => runs'[th[h].run] = runs[th[h].run]
    BY <1>1
<1>3. FramesPlanned'
    <2> SUFFICES ASSUME NEW h \in Handlers
                 PROVE  FramePlanned(th[h], runs', commits, checkout)
        BY DEF FramesPlanned
    <2>1. FramePlanned(th[h], runs, commits, checkout)
        BY DEF PlansInv, FramesPlanned
    <2> QED
        BY <1>2, <2>1, FramePlannedKept
<1>4. RunsPlanned'
    BY DEF PlansInv, RunsPlanned
<1>5. NobodyIsStranded'
    BY DEF PlansInv, NobodyIsStranded, Begun
<1> QED
    BY <1>3, <1>4, <1>5 DEF PlansInv, WorldInv, RecipesPlanned

-----------------------------------------------------------------------------
(* The steps of handlers that change no run *)

LEMMA FrameIsPlanned ==
    ASSUME IntakeInv, PlansInv, NEW h \in Handlers
    PROVE  /\ FrameOK(th[h], runs, bound, recipes)
           /\ FramePlanned(th[h], runs, commits, checkout)
BY DEF IntakeInv, FramesInv, PlansInv, FramesPlanned

LEMMA FreshFrame ==
    ASSUME NEW x, NEW rs, NEW cm, NEW co, x.tree = {}, x.plan = {}, x.pc \in {"insert", "ignored"},
           x.pc = "ignored" \/ x.req.sha \in DOMAIN cm
    PROVE  FramePlanned(x, rs, cm, co)
BY DEF FramePlanned, Starting

LEMMA WebhookPlans ==
    ASSUME IntakeInv, PlansInv, NEW h \in Handlers, NEW q \in events, Webhook(h, q)
    PROVE  PlansInv'
<1>1. /\ UNCHANGED <<runs, recipes, commits, events, checkout, upcoming>>
      /\ th[h].pc \notin Beginning
    BY DEF Webhook, At, recipeVars, envVars, Beginning, Starting
<1>2. q.sha \in DOMAIN commits
    BY DEF PlansInv, WorldInv
<1>3. CASE TriggersRun(q)
    <2>1. PICK x : x = [Idle EXCEPT !.pc = "insert", !.req = q, !.key = ComputeEventKey(q)]
        OBVIOUS
    <2>2. x.pc = "insert" /\ x.req = q /\ x.tree = {} /\ x.plan = {}
        BY <2>1 DEF Idle
    <2>3. th' = [th EXCEPT ![h] = x]
        BY <1>3, <2>1 DEF Webhook, GotoWith
    <2> QED
        BY <1>1, <1>2, <2>2, <2>3, FreshFrame, OneHandlerGoesOn
<1>4. CASE ~TriggersRun(q)
    <2>1. PICK x : x = [Idle EXCEPT !.pc = "ignored", !.req = q]
        OBVIOUS
    <2>2. x.pc = "ignored" /\ x.tree = {} /\ x.plan = {}
        BY <2>1 DEF Idle
    <2>3. th' = [th EXCEPT ![h] = x]
        BY <1>4, <2>1 DEF Webhook, GotoWith
    <2> QED
        BY <1>1, <2>2, <2>3, FreshFrame, OneHandlerGoesOn
<1> QED
    BY <1>3, <1>4

LEMMA RerunPlans ==
    ASSUME IntakeInv, PlansInv, NEW h \in Handlers, NEW r \in DOMAIN runs, NEW k \in IdempotencyKeys,
           Rerun(h, r, k)
    PROVE  PlansInv'
<1>1. /\ UNCHANGED <<runs, recipes, commits, events, checkout, upcoming>>
      /\ th[h].pc \notin Beginning
    BY DEF Rerun, At, recipeVars, envVars, Beginning, Starting
<1>2. runs[r].sha \in DOMAIN commits
    BY DEF PlansInv, RunsPlanned, RunPlanned
<1>3. PICK x : x = [Idle EXCEPT !.pc = "insert", !.key = RerunKey(r, k),
                    !.req = [event |-> "rerun", action |-> "none", sha |-> runs[r].sha, ref |-> runs[r].ref]]
    OBVIOUS
<1>4. x.pc = "insert" /\ x.req.sha = runs[r].sha /\ x.tree = {} /\ x.plan = {}
    BY <1>3 DEF Idle
<1>5. th' = [th EXCEPT ![h] = x]
    BY <1>3 DEF Rerun, GotoWith
<1> QED
    BY <1>1, <1>2, <1>4, <1>5, FreshFrame, OneHandlerGoesOn

\* A frame whose handler is done, or was cut off, keeps its plan and its checkout.
LEMMA LeftFrame ==
    ASSUME NEW x, NEW rs, NEW cm, NEW co, FramePlanned(x, rs, cm, co), x.pc \notin {"idle", "ignored"},
           NEW y, y.req = x.req, y.tree = x.tree, y.plan = x.plan,
           y.pc \in {"answered", "duplicate", "failed", "cut"}, NEW rs2
    PROVE  FramePlanned(y, rs2, cm, co)
BY DEF FramePlanned, Starting

LEMMA AnswerDuplicatePlans ==
    ASSUME IntakeInv, PlansInv, NEW h \in Handlers, AnswerDuplicate(h)
    PROVE  PlansInv'
<1>1. /\ UNCHANGED <<runs, recipes, commits, events, checkout, upcoming>>
      /\ th[h].pc = "duplicate" /\ th[h].pc \notin Beginning
    BY DEF AnswerDuplicate, At, recipeVars, envVars, Beginning, Starting
<1>2. PICK b : GotoWith(h, [th[h] EXCEPT !.pc = "answered", !.run = b[2]])
    BY DEF AnswerDuplicate
<1>3. PICK x : x = [th[h] EXCEPT !.pc = "answered", !.run = b[2]]
    OBVIOUS
<1>4. x.pc = "answered" /\ x.req = th[h].req /\ x.tree = th[h].tree /\ x.plan = th[h].plan
    BY <1>3, FrameIsPlanned DEF FrameOK
<1>5. FramePlanned(x, runs, commits, checkout)
    BY <1>1, <1>4, FrameIsPlanned, LeftFrame
<1>6. th' = [th EXCEPT ![h] = x]
    BY <1>2, <1>3 DEF GotoWith
<1> QED
    BY <1>1, <1>5, <1>6, OneHandlerGoesOn

LEMMA DiscoverPlans ==
    ASSUME IntakeInv, PlansInv, NEW h \in Handlers, Discover(h)
    PROVE  PlansInv'
<1>1. /\ UNCHANGED <<runs, recipes, commits, events, checkout, upcoming>>
      /\ th[h].pc = "discover"
    BY DEF Discover, At, recipeVars, envVars
<1>2. PICK x : x = [th[h] EXCEPT !.pc = "fingerprint", !.tree = {checkout}]
    OBVIOUS
<1>3. /\ x.pc = "fingerprint" /\ x.run = th[h].run /\ x.req = th[h].req
      /\ x.tree = {checkout} /\ x.plan = th[h].plan
    BY <1>2, FrameIsPlanned DEF FrameOK
<1>4. FramePlanned(x, runs, commits, checkout)
    BY <1>1, <1>3, FrameIsPlanned DEF FramePlanned, Starting, PlansInv, WorldInv
<1>5. th' = [th EXCEPT ![h] = x]
    BY <1>2 DEF Discover, GotoWith
<1> QED
    BY <1>1, <1>3, <1>4, <1>5, OneHandlerGoesOn DEF Beginning, Starting

LEMMA FingerprintPlans ==
    ASSUME IntakeInv, PlansInv, NEW h \in Handlers, Fingerprint(h)
    PROVE  PlansInv'
<1>1. /\ UNCHANGED <<runs, recipes, commits, events, checkout, upcoming>>
      /\ th[h].pc = "fingerprint"
    BY DEF Fingerprint, At, recipeVars, envVars
<1>2. PICK x : x = [th[h] EXCEPT !.pc = "lookup", !.fp = computeRepoFingerprint(checkout)]
    OBVIOUS
<1>3. /\ x.pc = "lookup" /\ x.run = th[h].run /\ x.req = th[h].req
      /\ x.tree = th[h].tree /\ x.fp = computeRepoFingerprint(checkout) /\ x.plan = th[h].plan
    BY <1>2, FrameIsPlanned DEF FrameOK
<1>4. FramePlanned(x, runs, commits, checkout)
    <2>1. FramePlanned(th[h], runs, commits, checkout)
        BY FrameIsPlanned
    <2>2. QuietCheckout => \A t \in x.tree : x.fp = computeRepoFingerprint(t)
        BY <1>1, <1>3, <2>1 DEF FramePlanned
    <2> QED
        BY <1>1, <1>3, <2>1, <2>2 DEF FramePlanned, Starting
<1>5. th' = [th EXCEPT ![h] = x]
    BY <1>2 DEF Fingerprint, GotoWith
<1> QED
    BY <1>1, <1>3, <1>4, <1>5, OneHandlerGoesOn DEF Beginning, Starting

LEMMA DecidePlans ==
    ASSUME IntakeInv, PlansInv, NEW h \in Handlers, Decide(h)
    PROVE  PlansInv'
<1>1. /\ UNCHANGED <<runs, recipes, commits, events, checkout, upcoming>>
      /\ th[h].pc = "lookup"
    BY DEF Decide, At, envVars
<1>2. /\ FrameOK(th[h], runs, bound, recipes)
      /\ FramePlanned(th[h], runs, commits, checkout)
    BY FrameIsPlanned
<1>3. PICK tree \in th[h].tree, found \in {FindRecipeByFingerprint(th[h].fp), {}} :
          GotoWith(h, [th[h] EXCEPT !.pc = "record",
                           !.plan = {Plan(tree, th[h].fp, found, gitChangedFiles(th[h].req.sha))}])
    BY DEF Decide
<1>4. ASSUME NEW c \in found
      PROVE  Creatable(c.jobs) /\ (QuietCheckout => JobsFit(c.jobs, th[h].fp))
    <2>1. PICK i \in DOMAIN recipes : recipes[i].fp = th[h].fp /\ c.jobs = recipes[i].jobs
        BY <1>4 DEF FindRecipeByFingerprint
    <2>2. RecipePlanned(recipes[i])
        BY DEF PlansInv, RecipesPlanned
    <2> QED
        BY <2>1, <2>2 DEF RecipePlanned
<1>5. PICK fp, paths : fp = th[h].fp /\ paths = commits[th[h].req.sha]
    OBVIOUS
<1>6. \A q \in paths : IsSequence(q)
    BY <1>1, <1>2, <1>5 DEF FramePlanned, PlansInv, WorldInv
<1>7. tree \in Trees /\ (QuietCheckout => fp = computeRepoFingerprint(tree))
    BY <1>1, <1>2, <1>5 DEF FramePlanned
<1>8. PICK p : p = Plan(tree, fp, found, paths)
    OBVIOUS
<1>9. /\ Creatable(p.jobs) /\ p.fp = fp
      /\ p.source = "discovery" /\ fp # {} /\ fp = computeRepoFingerprint(tree) => JobsFit(p.jobs, fp)
      /\ p.source = "discovery" /\ ModulesAreApart => MeetsChange(p, tree, paths)
      /\ p.source = "recipe" => \E c \in found : p.jobs = c.jobs
    BY <1>4, <1>6, <1>7, <1>8, PlanIsGood
<1>10. QuietCheckout /\ p.source = "recipe" => \A j \in p.jobs : DirFits(j.dir, tree)
    BY <1>4, <1>5, <1>7, <1>9 DEF JobsFit
<1>11. PICK x : x = [th[h] EXCEPT !.pc = "record", !.plan = {p}]
    OBVIOUS
<1>12. /\ x.pc = "record" /\ x.run = th[h].run /\ x.req = th[h].req
       /\ x.tree = th[h].tree /\ x.plan = {p}
    BY <1>2, <1>11 DEF FrameOK
<1>13. \A t \in x.tree : t = tree
    BY <1>2, <1>3, <1>12 DEF FramePlanned
<1>14. FramePlanned(x, runs, commits, checkout)
    BY <1>1, <1>2, <1>5, <1>7, <1>9, <1>10, <1>12, <1>13 DEF FramePlanned, Starting
<1>15. th' = [th EXCEPT ![h] = x]
    BY <1>3, <1>5, <1>8, <1>11 DEF GotoWith, gitChangedFiles
<1> QED
    BY <1>1, <1>12, <1>14, <1>15, OneHandlerGoesOn DEF Beginning, Starting

LEMMA CutOffPlans ==
    ASSUME IntakeInv, PlansInv, NEW h \in Handlers, CutOff(h)
    PROVE  PlansInv'
<1>1. /\ UNCHANGED <<runs, recipes, commits, events, checkout, upcoming>>
      /\ th[h].pc \notin {"idle", "ignored"}
    BY DEF CutOff, envVars, Working, Starting
<1>2. PICK x : x = [th[h] EXCEPT !.pc = "cut"]
    OBVIOUS
<1>3. x.pc = "cut" /\ x.run = th[h].run /\ x.req = th[h].req /\ x.tree = th[h].tree /\ x.plan = th[h].plan
    BY <1>2, FrameIsPlanned DEF FrameOK
<1>4. FramePlanned(x, runs, commits, checkout)
    BY <1>1, <1>3, FrameIsPlanned, LeftFrame
<1>5. th' = [th EXCEPT ![h] = x]
    BY <1>2 DEF CutOff, Goto
<1> QED
    BY <1>1, <1>3, <1>4, <1>5, OneHandlerGoesOn DEF Beginning

LEMMA MoveCheckoutPlans ==
    ASSUME IntakeInv, PlansInv, NEW tree \in upcoming, MoveCheckout(tree)
    PROVE  PlansInv'
<1>1. /\ UNCHANGED <<runs, recipes, commits, events, th>>
      /\ checkout' = tree /\ upcoming' \subseteq upcoming
      /\ QuietCheckout => \A h \in Handlers : th[h].pc # "fingerprint"
    BY DEF MoveCheckout, recipeVars, envVars, At
<1>2. FramesPlanned'
    <2> SUFFICES ASSUME NEW h \in Handlers
                 PROVE  FramePlanned(th[h], runs, commits, checkout')
        BY <1>1 DEF FramesPlanned
    <2>1. QuietCheckout /\ th[h].pc = "fingerprint" => checkout' = checkout
        BY <1>1
    <2>2. FramePlanned(th[h], runs, commits, checkout)
        BY DEF PlansInv, FramesPlanned
    <2> QED
        BY <2>1, <2>2, FramePlannedKept
<1>3. WorldInv'
    BY <1>1 DEF PlansInv, WorldInv
<1> QED
    BY <1>1, <1>2, <1>3 DEF PlansInv, RunsPlanned, RecipesPlanned, NobodyIsStranded

-----------------------------------------------------------------------------
(* The steps of handlers that change a run *)

LEMMA NoJobs == Creatable({}) /\ \A fp : JobsFit({}, fp)
BY DEF Creatable, JobsFit

LEMMA InsertRunPlans ==
    ASSUME IntakeInv, PlansInv, NEW h \in Handlers, InsertRun(h)
    PROVE  PlansInv'
<1>1. /\ UNCHANGED <<recipes, commits, events, checkout, upcoming>>
      /\ th[h].pc = "insert" /\ th[h].pc \notin Beginning
    BY DEF InsertRun, At, envVars, Beginning, Starting
<1>2. /\ FrameOK(th[h], runs, bound, recipes)
      /\ FramePlanned(th[h], runs, commits, checkout)
    BY FrameIsPlanned
<1>3. CASE Goto(h, "duplicate") /\ UNCHANGED <<runs, bound>>
    <2>1. PICK x : x = [th[h] EXCEPT !.pc = "duplicate"]
        OBVIOUS
    <2>2. x.pc = "duplicate" /\ x.req = th[h].req /\ x.tree = th[h].tree /\ x.plan = th[h].plan
        BY <1>2, <2>1 DEF FrameOK
    <2>3. FramePlanned(x, runs, commits, checkout)
        BY <1>1, <1>2, <2>2, LeftFrame
    <2>4. th' = [th EXCEPT ![h] = x]
        BY <1>3, <2>1 DEF Goto
    <2> QED
        BY <1>1, <1>3, <2>3, <2>4, OneHandlerGoesOn
<1>4. CASE /\ runs' = Append(runs, newRun(th[h].req.sha, th[h].req.ref))
           /\ bound' = bound \union {<<th[h].key, Len(runs) + 1>>}
           /\ GotoWith(h, [th[h] EXCEPT !.pc = "start", !.run = Len(runs) + 1])
    <2>1. PICK n, y : n = Len(runs) + 1 /\ y = newRun(th[h].req.sha, th[h].req.ref)
        OBVIOUS
    <2>2. RunOK(y, recipes) /\ y.sha = th[h].req.sha /\ y.jobs = {} /\ y.plan = {}
        BY <2>1 DEF newRun, RunOK, RunStates
    <2>3. runs' = Append(runs, y)
        BY <1>4, <2>1
    <2>4. /\ n \in DOMAIN runs' /\ runs'[n] = y /\ n \notin DOMAIN runs
          /\ \A r \in DOMAIN runs : r \in DOMAIN runs' /\ runs'[r] = runs[r]
          /\ \A r \in DOMAIN runs' : r \in DOMAIN runs \/ r = n
        BY <1>1, <2>1, <2>2, <2>3, RowIsAdded DEF IntakeInv
    <2>5. PICK x : x = [th[h] EXCEPT !.pc = "start", !.run = n]
        OBVIOUS
    <2>6. /\ x.pc = "start" /\ x.run = n /\ x.req = th[h].req
          /\ x.tree = th[h].tree /\ x.plan = th[h].plan
        BY <1>2, <2>5 DEF FrameOK
    <2>7. FramePlanned(x, runs', commits, checkout)
        BY <1>1, <1>2, <2>2, <2>4, <2>6 DEF FramePlanned
    <2>8. RunPlanned(y, commits)
        BY <1>1, <1>2, <2>2, NoJobs DEF FramePlanned, RunPlanned
    <2>9. \A r \in DOMAIN runs' : RunPlanned(runs'[r], commits)
        BY <2>4, <2>8 DEF PlansInv, RunsPlanned
    <2>10. th' = [th EXCEPT ![h] = x]
        BY <1>4, <2>1, <2>5 DEF GotoWith
    <2>11. \A g \in Handlers \ {h} :
               th[g].pc \in Starting => th[g].run \in DOMAIN runs' /\ runs'[th[g].run] = runs[th[g].run]
        BY <2>4 DEF IntakeInv, FramesInv, FrameOK
    <2>12. th[h].run \notin DOMAIN runs
        BY <1>1, <1>2, ZeroIsNoRun DEF FrameOK, IntakeInv
    <2>13. x.pc \in Beginning
        BY <2>6 DEF Beginning, Starting
    <2> QED
        BY <1>1, <2>4, <2>6, <2>7, <2>9, <2>10, <2>11, <2>12, <2>13, OneHandlerMoves
<1> QED
    BY <1>3, <1>4 DEF InsertRun

\* A handler changes the run it starts to y, and its frame to x.
LEMMA StarterMoves ==
    ASSUME IntakeInv, PlansInv, UNCHANGED <<recipes, commits, events, checkout, upcoming>>,
           NEW h \in Handlers, th[h].pc \in Starting,
           NEW y, runs' = [runs EXCEPT ![th[h].run] = y], RunPlanned(y, commits),
           NEW x, th' = [th EXCEPT ![h] = x], x.run = th[h].run,
           \A rs : rs[x.run] = y => FramePlanned(x, rs, commits, checkout),
           Begun(y) \/ x.pc \in Beginning
    PROVE  PlansInv'
<1>1. th[h].run \in DOMAIN runs
    BY StartingFrame
<1>2. /\ DOMAIN runs' = DOMAIN runs /\ runs'[th[h].run] = y
      /\ \A r \in DOMAIN runs : r # th[h].run => runs'[r] = runs[r]
    BY <1>1
<1>3. FramePlanned(x, runs', commits, checkout)
    BY <1>2
<1>4. \A r \in DOMAIN runs' : RunPlanned(runs'[r], commits)
    BY <1>2 DEF PlansInv, RunsPlanned
<1>5. \A g \in Handlers \ {h} :
          th[g].pc \in Starting => th[g].run \in DOMAIN runs' /\ runs'[th[g].run] = runs[th[g].run]
    <2> SUFFICES ASSUME NEW g \in Handlers \ {h}, th[g].pc \in Starting
                 PROVE  th[g].run \in DOMAIN runs' /\ runs'[th[g].run] = runs[th[g].run]
        OBVIOUS
    <2>1. th[g].run # th[h].run /\ th[g].run \in DOMAIN runs
        BY DEF IntakeInv, FramesInv, FrameOK
    <2> QED
        BY <1>2, <2>1
<1>6. \A r \in DOMAIN runs' : ~Begun(runs'[r]) =>
          \/ x.run = r /\ x.pc \in Beginning
          \/ r \in DOMAIN runs /\ r # th[h].run
    BY <1>2
<1> QED
    BY <1>2, <1>3, <1>4, <1>5, <1>6, OneHandlerMoves

\* The state machine lets a run go on that is where its handler left it, so that
\* entering the next state does not fail.
LEMMA EnterPlans ==
    ASSUME IntakeInv, PlansInv, NEW h \in Handlers, NEW next, NEW place, Enter(h, next, place),
           \/ th[h].pc = "start" /\ next = "PLANNING" /\ place = "discover"
           \/ th[h].pc = "queue" /\ next = "QUEUED" /\ place = "answered"
    PROVE  PlansInv'
<1>1. UNCHANGED <<recipes, commits, events, checkout, upcoming>> /\ th[h].pc \in Starting
    BY DEF Enter, envVars, Starting
<1>2. /\ FramePlanned(th[h], runs, commits, checkout)
      /\ FrameOK(th[h], runs, bound, recipes)
      /\ th[h].run \in DOMAIN runs /\ RunOK(runs[th[h].run], recipes)
      /\ runs[th[h].run].state = IF th[h].pc = "start" THEN "CREATED" ELSE "PLANNING"
    BY <1>1, StartingFrame, FrameIsPlanned
<1>3. validateRunTransition(runs[th[h].run].state, next)
    <2>1. "PLANNING" \in runTransitions["CREATED"] /\ "QUEUED" \in runTransitions["PLANNING"]
        BY DEF runTransitions
    <2>2. "CREATED" \in RunStates /\ "PLANNING" \in RunStates
        BY DEF RunStates
    <2> QED
        BY <1>2, <2>1, <2>2 DEF validateRunTransition
<1>4. TransitionRunState(th[h].run, next) /\ Goto(h, place)
    BY <1>3 DEF Enter
<1>5. PICK y : y = [runs[th[h].run] EXCEPT !.state = next]
    OBVIOUS
<1>6. runs' = [runs EXCEPT ![th[h].run] = y]
    BY <1>4, <1>5 DEF TransitionRunState
<1>7. y.state = next /\ y.sha = runs[th[h].run].sha /\ y.jobs = runs[th[h].run].jobs /\ y.plan = runs[th[h].run].plan
    BY <1>2, <1>5 DEF RunOK
<1>8. RunPlanned(y, commits)
    BY <1>2, <1>7 DEF PlansInv, RunsPlanned, RunPlanned
<1>9. PICK x : x = [th[h] EXCEPT !.pc = place]
    OBVIOUS
<1>10. th' = [th EXCEPT ![h] = x]
    BY <1>4, <1>9 DEF Goto
<1>11. /\ x.pc = place /\ x.run = th[h].run /\ x.req = th[h].req
       /\ x.tree = th[h].tree /\ x.plan = th[h].plan
    BY <1>2, <1>9 DEF FrameOK
<1>12. ASSUME NEW rs, rs[x.run] = y
       PROVE  FramePlanned(x, rs, commits, checkout)
    BY <1>2, <1>7, <1>11, <1>12 DEF FramePlanned, Starting
<1>13. Begun(y) \/ x.pc \in Beginning
    BY <1>7, <1>11 DEF Begun, Beginning, Starting
<1> QED
    BY <1>1, <1>6, <1>8, <1>10, <1>11, <1>12, <1>13, StarterMoves

LEMMA RecordPlanPlans ==
    ASSUME IntakeInv, PlansInv, NEW h \in Handlers, RecordPlan(h)
    PROVE  PlansInv'
<1>1. /\ UNCHANGED <<recipes, commits, events, checkout, upcoming>>
      /\ th[h].pc = "record" /\ th[h].pc \in Starting
    BY DEF RecordPlan, At, envVars, Starting
<1>2. /\ FramePlanned(th[h], runs, commits, checkout)
      /\ FrameOK(th[h], runs, bound, recipes)
      /\ th[h].run \in DOMAIN runs /\ RunOK(runs[th[h].run], recipes)
      /\ RunPlanned(runs[th[h].run], commits)
    BY <1>1, StartingFrame, FrameIsPlanned DEF PlansInv, RunsPlanned
<1>3. runs[th[h].run].jobs = {} /\ runs[th[h].run].plan = {}
    BY <1>1, <1>2 DEF FramePlanned, Starting
<1>4. PICK p \in th[h].plan :
          \/ RecordRunPlan(th[h].run, [source |-> p.source, fp |-> p.fp,
                                       recipe |-> p.recipe, skipped |-> p.skipped])
          \/ UNCHANGED runs
    BY DEF RecordPlan
<1>5. PICK x : x = [th[h] EXCEPT !.pc = "create"]
    OBVIOUS
<1>6. th' = [th EXCEPT ![h] = x]
    BY <1>5 DEF RecordPlan, Goto
<1>7. /\ x.pc = "create" /\ x.run = th[h].run /\ x.req = th[h].req
      /\ x.tree = th[h].tree /\ x.plan = th[h].plan /\ x.pc \in Beginning
    BY <1>2, <1>5 DEF FrameOK, Beginning, Starting
<1>8. CASE RecordRunPlan(th[h].run, [source |-> p.source, fp |-> p.fp,
                                     recipe |-> p.recipe, skipped |-> p.skipped])
    <2>1. PICK row : row = [source |-> p.source, fp |-> p.fp, recipe |-> p.recipe, skipped |-> p.skipped]
        OBVIOUS
    <2>2. PICK y : y = [runs[th[h].run] EXCEPT !.plan = {row}]
        OBVIOUS
    <2>3. runs' = [runs EXCEPT ![th[h].run] = y]
        BY <1>8, <2>1, <2>2 DEF RecordRunPlan
    <2>4. y.sha = runs[th[h].run].sha /\ y.jobs = {} /\ y.plan = {row}
        BY <1>2, <1>3, <2>2 DEF RunOK
    <2>5. RunPlanned(y, commits)
        BY <1>2, <2>4, NoJobs DEF RunPlanned
    <2>6. \A q \in th[h].plan : q.source = p.source /\ q.fp = p.fp
        BY <1>2, <1>4 DEF FramePlanned
    <2>7. ASSUME NEW rs, rs[x.run] = y
          PROVE  FramePlanned(x, rs, commits, checkout)
        BY <1>1, <1>2, <1>7, <2>1, <2>4, <2>6, <2>7 DEF FramePlanned, Starting
    <2> QED
        BY <1>1, <1>6, <1>7, <2>3, <2>5, <2>7, StarterMoves
<1>9. CASE UNCHANGED runs
    <2>1. FramePlanned(x, runs, commits, checkout)
        BY <1>1, <1>2, <1>3, <1>7 DEF FramePlanned, Starting
    <2> QED
        BY <1>1, <1>6, <1>7, <1>9, <2>1, OneHandlerGoesOn
<1> QED
    BY <1>4, <1>8, <1>9

\* The plan can be created, so that its run is not left half made.
LEMMA CreateJobsPlans ==
    ASSUME IntakeInv, PlansInv, NEW h \in Handlers, CreateJobs(h)
    PROVE  PlansInv'
<1>1. /\ UNCHANGED <<recipes, commits, events, checkout, upcoming>>
      /\ th[h].pc = "create" /\ th[h].pc \in Starting
    BY DEF CreateJobs, At, envVars, Starting
<1>2. /\ FramePlanned(th[h], runs, commits, checkout)
      /\ FrameOK(th[h], runs, bound, recipes)
      /\ th[h].run \in DOMAIN runs /\ RunOK(runs[th[h].run], recipes)
      /\ RunPlanned(runs[th[h].run], commits)
    BY <1>1, StartingFrame, FrameIsPlanned DEF PlansInv, RunsPlanned
<1>3. \A p \in th[h].plan : Creatable(p.jobs)
    BY <1>2 DEF FramePlanned
<1>4. PICK p \in th[h].plan :
          /\ runs' = [runs EXCEPT ![th[h].run].jobs = p.jobs]
          /\ GotoWith(h, [th[h] EXCEPT !.pc = "queue", !.tree = {}, !.fp = {}, !.plan = {}])
    BY <1>3 DEF CreateJobs
<1>5. PICK y : y = [runs[th[h].run] EXCEPT !.jobs = p.jobs]
    OBVIOUS
<1>6. runs' = [runs EXCEPT ![th[h].run] = y]
    BY <1>4, <1>5
<1>7. y.sha = runs[th[h].run].sha /\ y.jobs = p.jobs /\ y.plan = runs[th[h].run].plan
    BY <1>2, <1>5 DEF RunOK
<1>8. RunPlanned(y, commits)
    <2>1. \A row \in y.plan : row.source = p.source /\ row.fp = p.fp
        BY <1>1, <1>2, <1>7 DEF FramePlanned
    <2> QED
        BY <1>2, <1>7, <2>1 DEF RunPlanned, FramePlanned
<1>9. PICK x : x = [th[h] EXCEPT !.pc = "queue", !.tree = {}, !.fp = {}, !.plan = {}]
    OBVIOUS
<1>10. th' = [th EXCEPT ![h] = x]
    BY <1>4, <1>9 DEF GotoWith
<1>11. x.pc = "queue" /\ x.run = th[h].run /\ x.req = th[h].req /\ x.tree = {} /\ x.plan = {}
    BY <1>2, <1>9 DEF FrameOK
<1>12. \A rs : FramePlanned(x, rs, commits, checkout)
    BY <1>1, <1>2, <1>11 DEF FramePlanned, Starting
<1>13. x.pc \in Beginning
    BY <1>11 DEF Beginning, Starting
<1> QED
    BY <1>1, <1>6, <1>8, <1>10, <1>11, <1>12, <1>13, StarterMoves

-----------------------------------------------------------------------------
(* The steps of runs and of finalizers *)

\* The plans of the runs stay and the recipes may become more.
LEMMA OnlyRecipesMove ==
    ASSUME IntakeInv, PlansInv, UNCHANGED <<runs, commits, events, checkout, upcoming, th>>,
           \A i \in DOMAIN recipes' : RecipePlanned(recipes'[i])
    PROVE  PlansInv'
BY DEF PlansInv, WorldInv, RunsPlanned, RecipesPlanned, FramesPlanned, NobodyIsStranded

\* The state of a run changes and its plan stays.
LEMMA OneRunGoesOn ==
    ASSUME IntakeInv, PlansInv, UNCHANGED <<recipes, commits, events, checkout, upcoming, th>>,
           NEW r \in DOMAIN runs, Begun(runs[r]), NEW y, runs' = [runs EXCEPT ![r] = y], Begun(y),
           y.sha = runs[r].sha, y.jobs = runs[r].jobs,
           \A row \in y.plan : \E old \in runs[r].plan : old.source = row.source /\ old.fp = row.fp
    PROVE  PlansInv'
<1>1. /\ DOMAIN runs' = DOMAIN runs /\ runs'[r] = y
      /\ \A q \in DOMAIN runs : q # r => runs'[q] = runs[q]
    OBVIOUS
<1>2. RunPlanned(runs[r], commits)
    BY DEF PlansInv, RunsPlanned
<1>3. RunPlanned(y, commits)
    BY <1>2 DEF RunPlanned
<1>4. \A i \in DOMAIN recipes' : RecipePlanned(recipes'[i])
    BY DEF PlansInv, RecipesPlanned
<1> QED
    BY <1>1, <1>3, <1>4, OneRunMoves

LEMMA RunExecutesPlans ==
    ASSUME IntakeInv, PlansInv, UNCHANGED <<commits, events, checkout, upcoming, th>>,
           NEW r \in DOMAIN runs, NEW ok, RunExecutes(r, ok)
    PROVE  PlansInv'
<1>1. RunOK(runs[r], recipes) /\ runs[r].state = "QUEUED" /\ UNCHANGED recipes
    BY DEF IntakeInv, RunsInv, RunExecutes
<1>2. PICK y : y = [runs[r] EXCEPT !.state = "RUNNING", !.green = ok]
    OBVIOUS
<1>3. runs' = [runs EXCEPT ![r] = y]
    BY <1>2 DEF RunExecutes
<1>4. /\ y.state = "RUNNING" /\ y.sha = runs[r].sha /\ y.jobs = runs[r].jobs
      /\ y.plan = runs[r].plan
    BY <1>1, <1>2 DEF RunOK
<1>5. Begun(runs[r]) /\ Begun(y)
    BY <1>1, <1>4 DEF Begun
<1> QED
    BY <1>1, <1>3, <1>4, <1>5, OneRunGoesOn

LEMMA RunIsCanceledPlans ==
    ASSUME IntakeInv, PlansInv, UNCHANGED <<commits, events, checkout, upcoming, th>>,
           NEW r \in DOMAIN runs, RunIsCanceled(r)
    PROVE  PlansInv'
<1>1. RunOK(runs[r], recipes) /\ runs[r].state = "RUNNING" /\ UNCHANGED recipes
    BY DEF IntakeInv, RunsInv, RunIsCanceled
<1>2. PICK y : y = [runs[r] EXCEPT !.state = "CANCEL_REQUESTED"]
    OBVIOUS
<1>3. runs' = [runs EXCEPT ![r] = y]
    BY <1>2 DEF RunIsCanceled, TransitionRunState
<1>4. /\ y.state = "CANCEL_REQUESTED" /\ y.sha = runs[r].sha /\ y.jobs = runs[r].jobs
      /\ y.plan = runs[r].plan
    BY <1>1, <1>2 DEF RunOK
<1>5. Begun(runs[r]) /\ Begun(y)
    BY <1>1, <1>4 DEF Begun
<1> QED
    BY <1>1, <1>3, <1>4, <1>5, OneRunGoesOn

LEMMA FinalizeVerdictPlans ==
    ASSUME IntakeInv, PlansInv, UNCHANGED <<commits, events, checkout, upcoming, th>>,
           NEW f \in Finalizers, Finalize_Verdict(f)
    PROVE  PlansInv'
<1>1. PICK r, verdict : r = fin[f].run /\ verdict = IF runs[r].green THEN "SUCCESS" ELSE "FAILED"
    OBVIOUS
<1>2. FinOK(fin[f], runs, recipes) /\ fin[f].pc = "verdict" /\ r \in DOMAIN runs /\ UNCHANGED recipes
    BY <1>1 DEF IntakeInv, FinInv, Finalize_Verdict, FinOK
<1>3. RunOK(runs[r], recipes) /\ Begun(runs[r])
    BY <1>1, <1>2 DEF IntakeInv, RunsInv, FinOK, Executed, Begun
<1>4. CASE UNCHANGED runs
    BY <1>2, <1>4, OnlyRecipesMove DEF PlansInv, RecipesPlanned
<1>5. CASE ReportedAs(r, verdict)
    <2>1. PICK told \in {verdict, "REPORTED"} : runs' = [runs EXCEPT ![r].state = told]
        BY <1>5 DEF ReportedAs
    <2>2. PICK y : y = [runs[r] EXCEPT !.state = told]
        OBVIOUS
    <2>3. runs' = [runs EXCEPT ![r] = y]
        BY <2>1, <2>2
    <2>4. /\ y.state = told /\ y.sha = runs[r].sha /\ y.jobs = runs[r].jobs
          /\ y.plan = runs[r].plan
        BY <1>3, <2>2 DEF RunOK
    <2>5. Begun(y)
        BY <1>1, <2>1, <2>4 DEF Begun
    <2> QED
        BY <1>2, <1>3, <2>3, <2>4, <2>5, OneRunGoesOn
<1> QED
    BY <1>1, <1>4, <1>5 DEF Finalize_Verdict

\* The run whose jobs become a recipe was planned by discovery for its fingerprint.
LEMMA PersistCreatePlans ==
    ASSUME IntakeInv, PlansInv, UNCHANGED <<commits, events, checkout, upcoming, th>>,
           NEW f \in Finalizers, PersistRecipe_Create(f)
    PROVE  PlansInv'
<1>1. PICK r : r = fin[f].run
    OBVIOUS
<1>2. FinOK(fin[f], runs, recipes) /\ fin[f].pc = "create" /\ r \in DOMAIN runs /\ UNCHANGED runs
    BY <1>1 DEF IntakeInv, FinInv, PersistRecipe_Create, FinOK
<1>3. PICK row \in fin[f].row :
          CreateRecipe(row.fp, buildRecipeJobs(r)) \/ UNCHANGED recipes
    BY <1>1 DEF PersistRecipe_Create
<1>4. CASE UNCHANGED recipes
    BY <1>2, <1>4, OnlyRecipesMove DEF PlansInv, RecipesPlanned
<1>5. CASE CreateRecipe(row.fp, buildRecipeJobs(r))
    <2>1. PICK c : c = [fp |-> row.fp, jobs |-> runs[r].jobs]
        OBVIOUS
    <2>2. recipes' = Append(recipes, c)
        BY <1>5, <2>1 DEF CreateRecipe, buildRecipeJobs
    <2>3. row.fp # {} /\ DiscoveredFor(runs[r], row.fp)
        BY <1>1, <1>2 DEF FinOK
    <2>4. RunPlanned(runs[r], commits)
        BY <1>2 DEF PlansInv, RunsPlanned
    <2>5. RecipePlanned(c)
        BY <2>1, <2>3, <2>4 DEF RunPlanned, DiscoveredFor, RecipePlanned
    <2>6. PICK n, rc : n = Len(recipes) + 1 /\ rc = recipes'
        OBVIOUS
    <2>7. /\ \A i \in DOMAIN recipes : i \in DOMAIN rc /\ rc[i] = recipes[i]
          /\ n \in DOMAIN rc /\ rc[n] = c
          /\ \A i \in DOMAIN rc : i \in DOMAIN recipes \/ i = n
        <3>1. rc = Append(recipes, c) /\ IsSequence(recipes)
            BY <2>2, <2>6 DEF IntakeInv, RecipesInv
        <3> QED
            BY <2>6, <3>1, AppendShape
    <2>8. \A i \in DOMAIN rc : RecipePlanned(rc[i])
        BY <2>5, <2>7 DEF PlansInv, RecipesPlanned
    <2> QED
        BY <1>2, <2>6, <2>8, OnlyRecipesMove
<1> QED
    BY <1>3, <1>4, <1>5

LEMMA PersistUpdatePlans ==
    ASSUME IntakeInv, PlansInv, UNCHANGED <<commits, events, checkout, upcoming, th>>,
           NEW f \in Finalizers, PersistRecipe_Update(f)
    PROVE  PlansInv'
<1>1. PICK r : r = fin[f].run
    OBVIOUS
<1>2. FinOK(fin[f], runs, recipes) /\ fin[f].pc = "update" /\ r \in DOMAIN runs /\ UNCHANGED recipes
    BY <1>1 DEF IntakeInv, FinInv, PersistRecipe_Update, FinOK
<1>3. RunOK(runs[r], recipes) /\ Begun(runs[r])
    BY <1>1, <1>2 DEF IntakeInv, RunsInv, FinOK, Executed, Begun
<1>4. PICK row \in fin[f].row : RecordRunPlan(r, [row EXCEPT !.recipe = fin[f].recipe])
    BY <1>1 DEF PersistRecipe_Update
<1>5. /\ row = [source |-> row.source, fp |-> row.fp, recipe |-> row.recipe, skipped |-> row.skipped]
      /\ row.source = "discovery" /\ DiscoveredFor(runs[r], row.fp)
    BY <1>1, <1>2 DEF FinOK
<1>6. PICK new : new = [row EXCEPT !.recipe = fin[f].recipe]
    OBVIOUS
<1>7. new.source = "discovery" /\ new.fp = row.fp
    BY <1>5, <1>6
<1>8. PICK y : y = [runs[r] EXCEPT !.plan = {new}]
    OBVIOUS
<1>9. runs' = [runs EXCEPT ![r] = y]
    BY <1>4, <1>6, <1>8 DEF RecordRunPlan
<1>10. /\ y.state = runs[r].state /\ y.sha = runs[r].sha /\ y.jobs = runs[r].jobs /\ y.plan = {new}
    BY <1>3, <1>8 DEF RunOK
<1>11. \A new2 \in y.plan : \E old \in runs[r].plan : old.source = new2.source /\ old.fp = new2.fp
    BY <1>5, <1>7, <1>10 DEF DiscoveredFor
<1>12. Begun(y)
    BY <1>3, <1>10 DEF Begun
<1> QED
    BY <1>2, <1>3, <1>9, <1>10, <1>11, <1>12, OneRunGoesOn

LEMMA ExecutionPlans ==
    ASSUME IntakeInv, PlansInv, Execution
    PROVE  PlansInv'
<1>1. UNCHANGED <<commits, events, checkout, upcoming, th>>
    BY DEF Execution, envVars
<1>2. CASE \E r \in DOMAIN runs, ok \in BOOLEAN : workers /\ RunExecutes(r, ok)
    BY <1>1, <1>2, RunExecutesPlans
<1>3. CASE \E r \in DOMAIN runs : RunIsCanceled(r)
    BY <1>1, <1>3, RunIsCanceledPlans
<1>4. ASSUME NEW f \in Finalizers, FinalizeSteps(f)
      PROVE  PlansInv'
    <2>1. CASE \/ \E r \in DOMAIN runs : Finalize_Read(f, r)
               \/ PersistRecipe_Read(f) \/ PersistRecipe_Find(f) \/ Finalize_Fails(f)
        <3>1. UNCHANGED <<runs, recipes>>
            BY <2>1 DEF Finalize_Read, PersistRecipe_Read, PersistRecipe_Find, Finalize_Fails
        <3> QED
            BY <1>1, <3>1, OnlyRecipesMove DEF PlansInv, RecipesPlanned
    <2>2. CASE Finalize_Verdict(f)
        BY <1>1, <2>2, FinalizeVerdictPlans
    <2>3. CASE PersistRecipe_Create(f)
        BY <1>1, <2>3, PersistCreatePlans
    <2>4. CASE PersistRecipe_Update(f)
        BY <1>1, <2>4, PersistUpdatePlans
    <2> QED
        BY <1>4, <2>1, <2>2, <2>3, <2>4 DEF FinalizeSteps
<1> QED
    BY <1>2, <1>3, <1>4 DEF Execution

-----------------------------------------------------------------------------
(* The invariant holds. *)

LEMMA PlansStart == Init => PlansInv
<1> SUFFICES ASSUME Init
             PROVE  PlansInv
    OBVIOUS
<1>1. runs = <<>> /\ recipes = <<>> /\ th = [h \in Handlers |-> Idle] /\ DOMAIN <<>> = {}
    BY DEF Init, RecipesInit
<1>2. PICK s \in Scenarios :
          checkout = s.tree /\ upcoming = s.upcoming /\ commits = s.commits /\ events = s.events
    BY DEF Init
<1>3. WorldInv
    BY <1>2, IntakeAssumption DEF WorldInv, Trees
<1>4. FramePlanned(Idle, runs, commits, checkout)
    BY DEF Idle, FramePlanned, Starting
<1> QED
    BY <1>1, <1>3, <1>4 DEF PlansInv, RunsPlanned, RecipesPlanned, FramesPlanned, NobodyIsStranded

LEMMA PlansStep == IntakeInv /\ PlansInv /\ [Next]_vars => PlansInv'
<1> SUFFICES ASSUME IntakeInv, PlansInv, [Next]_vars
             PROVE  PlansInv'
    OBVIOUS
<1>1. CASE UNCHANGED vars
    BY <1>1 DEF vars, recipeVars, envVars, PlansInv, WorldInv, RunsPlanned, RecipesPlanned,
                FramesPlanned, NobodyIsStranded
<1>2. CASE \E h \in Handlers, q \in events : Webhook(h, q)
    BY <1>2, WebhookPlans
<1>3. CASE \E h \in Handlers, r \in DOMAIN runs, k \in IdempotencyKeys : Rerun(h, r, k)
    BY <1>3, RerunPlans
<1>4. ASSUME NEW h \in Handlers,
             \/ InsertRun(h) \/ AnswerDuplicate(h)
             \/ StartPlanning(h) \/ Discover(h) \/ Fingerprint(h) \/ Decide(h)
             \/ RecordPlan(h) \/ CreateJobs(h) \/ QueueRun(h)
             \/ CutOff(h)
      PROVE  PlansInv'
    <2>1. CASE StartPlanning(h) \/ QueueRun(h)
        BY <2>1, EnterPlans DEF StartPlanning, QueueRun, At
    <2> QED
        BY <1>4, <2>1, InsertRunPlans, AnswerDuplicatePlans, DiscoverPlans, FingerprintPlans, DecidePlans,
           RecordPlanPlans, CreateJobsPlans, CutOffPlans
<1>5. CASE \E tree \in upcoming : MoveCheckout(tree)
    BY <1>5, MoveCheckoutPlans
<1>6. CASE Execution
    BY <1>6, ExecutionPlans
<1> QED
    BY <1>1, <1>2, <1>3, <1>4, <1>5, <1>6 DEF Next

\* What the planner makes, the rows that are made of it and what is stored as a
\* recipe, whatever the requests, the checkouts and the faults are.
THEOREM PlansInvariant == Spec => []PlansInv
BY IntakeStart, IntakeStep, PlansStart, PlansStep, PTL DEF Spec

\* A run that startRun has not queued has its request at work, or the request was
\* cut off: the planner makes no plan that startRun cannot create.
THEOREM NobodyStaysStranded == Spec => []NobodyIsStranded
<1>1. PlansInv => NobodyIsStranded
    BY DEF PlansInv
<1> QED
    BY <1>1, PlansInvariant, PTL

LEMMA PlannedShape ==
    ASSUME PlansInv, NEW h \in Handlers, NEW sources, NEW made \in Planned(h, sources)
    PROVE  /\ th[h].pc = "record" /\ made[1] \in th[h].plan /\ made[1].source \in sources
           /\ made[2] \in th[h].tree /\ made[3] = commits[th[h].req.sha]
           /\ FramePlanned(th[h], runs, commits, checkout)
BY DEF Planned, At, gitChangedFiles, PlansInv, FramesPlanned

\* A recipe is used only on checkouts it fits, if no checkout changes between the
\* discovery and the fingerprint of one plan.
THEOREM RecipesFit ==
    ASSUME QuietCheckout
    PROVE  Spec => []RecipeFitsCheckout
<1>1. PlansInv => RecipeFitsCheckout
    <2> SUFFICES ASSUME PlansInv, NEW h \in Handlers, NEW made \in Planned(h, {"recipe"}),
                        NEW j \in made[1].jobs
                 PROVE  DirFits(j.dir, made[2])
        BY DEF RecipeFitsCheckout, DirFits
    <2> QED
        BY PlannedShape DEF FramePlanned
<1> QED
    BY <1>1, PlansInvariant, PTL

\* Whatever a change may break is built, and tested unless it is docs only, where
\* modules can be told apart.
THEOREM ImpactIsAlwaysTested ==
    ASSUME ModulesAreApart
    PROVE  Spec => []ImpactIsTested
<1>1. PlansInv => ImpactIsTested
    <2> SUFFICES ASSUME PlansInv, NEW h \in Handlers, NEW made \in Planned(h, {"discovery"})
                 PROVE  \A d \in Demanded(made[2], made[3]) :
                            /\ Covers(made[1].jobs, d, "build")
                            /\ (\E p \in made[3] : ~isDocsPath(p)) => Covers(made[1].jobs, d, "test")
        BY DEF ImpactIsTested, Demanded
    <2>1. MeetsChange(made[1], made[2], made[3])
        BY PlannedShape DEF FramePlanned
    <2> QED
        BY <2>1 DEF MeetsChange
<1> QED
    BY <1>1, PlansInvariant, PTL

\* When everything is known, nothing else is built.
THEOREM NothingIsNeedless ==
    ASSUME ModulesAreApart
    PROVE  Spec => []NothingNeedless
<1>1. PlansInv => NothingNeedless
    <2> SUFFICES ASSUME PlansInv, NEW h \in Handlers, NEW made \in Planned(h, {"discovery"}),
                        ImpactKnown(made[2], made[3]), NEW j \in made[1].jobs
                 PROVE  j.dir \in Affected(made[2], made[3])
        BY DEF NothingNeedless
    <2>1. MeetsChange(made[1], made[2], made[3])
        BY PlannedShape DEF FramePlanned
    <2> QED
        BY <2>1 DEF MeetsChange
<1> QED
    BY <1>1, PlansInvariant, PTL
=============================================================================
