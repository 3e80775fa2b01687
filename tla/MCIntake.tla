------------------------------ MODULE MCIntake ------------------------------
(***************************************************************************)
(* Instances of Intake.  Two kinds of scenario: many checkouts and changes *)
(* with one request each, for the planner; few checkouts with concurrent   *)
(* requests, for the intake and the recipes.                               *)
(***************************************************************************)
EXTENDS Intake

-----------------------------------------------------------------------------
(* Checkouts.  Modules are named after their directories. *)

app == <<"app">>
lib == <<"lib">>
sub == <<"lib", "sub">>
ven == <<"vendor", "x">>

ModulePath == [d \in {<<>>, app, lib, sub, ven} |->
    CASE d = <<>> -> "repo" [] d = app -> "repo/app" [] d = lib -> "repo/lib"
      [] d = sub -> "repo/lib/sub" [] OTHER -> "x"]

\* The walk lists app/go.mod, go.mod, lib/go.mod, lib/sub/go.mod, vendor/x/go.mod.
WalkOrder == <<app, <<>>, lib, sub, ven>>

Bare == [readable |-> TRUE, config |-> FALSE, sums |-> FALSE, work |-> FALSE, uses |-> <<>>, mods |-> <<>>]

\* requires: the pairs <<b, a>> with b requiring a; broken: files that do not parse.
Modules(dirs, requires, broken) ==
    LET present == SelectSeq(WalkOrder, LAMBDA d : d \in dirs)
    IN  [i \in DOMAIN present |->
            [dir |-> present[i],
             path |-> IF present[i] \in broken THEN NoModule ELSE ModulePath[present[i]],
             requires |-> {ModulePath[e[2]] : e \in {e \in requires : e[1] = present[i]}}]]

Tree(dirs, requires, broken) == [Bare EXCEPT !.mods = Modules(dirs, requires, broken)]

Edges == {e \in {app, lib, sub} \X {app, lib, sub} : e[1] # e[2]}

\* Every requirement graph between three modules, cyclic ones included, and
\* repositories that hold only some of them.
Walked == {Tree(dirs, g, {}) : g \in SUBSET Edges,
              dirs \in {{}, {<<>>}, {<<>>, lib}, {app, lib}, {app, lib, sub}, {<<>>, app, lib, sub}}}

Chain == Tree({<<>>, app, lib, sub, ven}, {<<app, sub>>, <<sub, lib>>}, {})

Listed == {[Chain EXCEPT !.work = TRUE, !.uses = u] :
              u \in {<<>>, <<app, sub>>, <<lib, app, sub>>, <<lib, <<>>, ven>>, <<lib, <<"..", "y">>>>,
                     <<<<"..", "y">>>>, <<app, <<"gone">>>>}}

Odd == {[Chain EXCEPT !.readable = FALSE], [Chain EXCEPT !.config = TRUE], [Bare EXCEPT !.sums = TRUE],
        Tree({app, lib}, {}, {lib}), Tree({ven}, {}, {})}

Diffs == {{}, {<<"docs", "main.go">>}, {<<"README.md">>}, {<<"lib", "notes.md">>, <<"app", "main.go">>},
          {<<"lib", "main.go">>}, {<<"lib", "sub", "main.go">>}, {<<"main.go">>}, {<<"go.mod">>},
          {<<".github", "ci.yml">>}, {<<"lib", "go.mod">>}, {<<"library", "main.go">>}}

Push(c)  == [event |-> "push", action |-> "updated", sha |-> c, ref |-> <<"heads", 1>>]
PR(n, a) == [event |-> "pull_request", action |-> a, sha |-> "code", ref |-> <<"pull", n>>]

SomeRequests == {Push("docs"), Push("code"), PR(1, "opened"), PR(2, "synchronize"), PR(2, "closed")}

Planning == {[tree |-> t, upcoming |-> {}, commits |-> [c \in {"code"} |-> d],
              events |-> {Push("code")}, deliveries |-> 1, faults |-> 0, workers |-> FALSE] :
                t \in Walked \union Listed \union Odd, d \in Diffs}

-----------------------------------------------------------------------------
(* Concurrent requests *)

Commits == [c \in {"docs", "code"} |-> IF c = "docs" THEN {<<"README.md">>} ELSE {<<"lib", "main.go">>}]

Solo   == Tree({<<>>}, {}, {})
Before == Tree({<<>>, lib, app}, {<<app, lib>>}, {})
After  == Tree({<<>>, app}, {}, {})

Racing == {[tree |-> Solo, upcoming |-> {}, commits |-> Commits,
            events |-> SomeRequests \ {Push("docs")}, deliveries |-> 3, faults |-> 1, workers |-> FALSE]}

Recycling == {[tree |-> Before, upcoming |-> {After}, commits |-> Commits,
               events |-> {Push("docs"), Push("code")}, deliveries |-> 2, faults |-> 1, workers |-> TRUE]}

AllScenarios == Planning \union Racing \union Recycling

\* In no scenario do two modules share a name or a module path, which the proofs
\* about impact take for granted.
ASSUME ScenariosAssumption == ModulesAreApart

Symmetry == Permutations(Handlers) \union Permutations(Finalizers)
=============================================================================
